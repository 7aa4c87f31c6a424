# Verification of the PlayPhoto HR bot

TLA+ models of the Telegram bot in `src/src`, the TLC configurations that check them, and
proofs that TLAPS checks.  All paths below are relative to the repository root `src/`, and
`services/…` stands for `src/services/…`.

## The system

One Node.js process (`src/main.ts`) runs a grammY bot, two BullMQ workers
(`src/workers/index.ts`) and some twenty `setInterval` loops over one Postgres database
(Prisma), one Redis and an external business backend ("the web app", `services/aws-business-client.ts`).
Several containers of the bot may run at once; leases in Redis keep their loops apart.

What makes it hard is that nearly every operation is a chain of awaited calls — database,
Telegram, web app — without a transaction around them:

* updates of one user in one chat are handled one after the other (`sequentialize` in
  `core/bot.ts`), but updates of different users, jobs and loops interleave at every `await`;
* a row is often read, judged and written by id later, without comparing;
* a Telegram send may fail, may be refused because the user blocked the bot, or may succeed
  and lose its answer; so may an acknowledgement to the web app, which then offers the same
  command again;
* a crash leaves a chain half done; only what is in Postgres, in a BullMQ job or in the web
  app's outbox survives.

### Components

| Component | Sources | State | Operations and interactions | Correct when |
|---|---|---|---|---|
| Local replacement search | `services/replacement-service.ts` | `ReplacementRequest`, `ReplacementResponse`, delayed jobs | an author or the owner starts, cancels, withdraws; candidates accept or decline; jobs send waves; schedule sync closes and re-attaches | one winner; nobody booked twice; one search per shift; a closed search stays closed; every search ends |
| Canonical replacement copies | same, 859–1173 | the same rows with a canonical id | poll the web app, offer, settle | the copy follows the canonical state |
| Recruiting command dispatcher | `services/recruiting-command-dispatcher.ts`, `hr-service.ts`, `interview-reschedule-service.ts` | the web app's outbox, `Candidate`, Redis marks | fetch, apply each command with the services of the HR menu, acknowledge | a verdict is told once, a rejection stands, no command undoes a later one |
| Candidate funnel guard | `services/candidate-funnel-guard.ts`, `repositories/candidate-repository.ts` | `Candidate` | every write of the row is judged first | nobody leaves a final stage |
| Interview stage of the candidate worker | `services/worker.ts`, `interview-auto-complete.ts` | `Candidate`, `InterviewSlot` | completes interviews, tells delayed decisions, repairs stale rows | no booking forgotten, no decision silently lost |
| Interview booking | `services/booking-service.ts`, `canonical-interview-slots.ts`, `handlers/booking.ts` | slots here and in the web app | book, exchange, cancel in both | the two tables agree; a booked slot is offered to nobody |
| Invitation reminders, slot waitlist | `workers/invite-reminder.ts`, `services/interview-slot-waitlist.ts` | the same row, the windows seen (`systemState`) | remind after 24 h, release after 48 h, tell who waits of new windows | nothing told twice, no news lost, an old letter binds nobody |
| Dispatcher leases | four dispatchers, `services/worker.ts` | one Redis key per loop | SET NX PX, renew, compare-and-delete | two containers are never in one pass |
| Notification outboxes | `services/schedule-notification-dispatcher.ts`, `replacement-notification-dispatcher.ts`, `recruiting-message-delivery.ts`, `shoot-alert-dispatcher.ts` | the web app's outbox rows | fetch, send, report; the schedule's rows are grouped with the person's month | told once or for a reason; delivered only after told; the last month read is current |
| Announcements and broadcast | `services/announcement-commands.ts`, `announcement-edit.ts`, `broadcast.ts`, `pinger.ts` | `Broadcast`, deliveries, tracked messages with replies, marks, a BullMQ job | the web app's commands and the bot's menu send, remind, stop, edit, withdraw; people confirm | everyone once; quiet after its end; whoever is asked has a button; an accepted command is carried out |
| Support threads | `services/support-*.ts` | `SupportThread`, the old tickets, a lock in Redis | one topic per person, relay both ways, calls to an owner, move of old conversations | no question lost or shown as answered, nothing twice |
| Channel access and revocation | `services/access-service.ts`, `access-revocation-dispatcher.ts`, `known-chat-reconciler.ts`, `handlers/access.ts` | `KnownChat`, the web app's queue, Telegram's bans | revoke, restore, sync of a profile, join handler, sweep of the registry | access follows employment |
| Parcels and logistics | `services/logistics-service.ts`, `parcel-*.ts`, `modules/staff/handlers/logistics.ts` | `Parcel` | photographers and support press buttons; an hourly cycle tracks, reminds, alerts, hands over | one holder; photographs are final; no parcel forgotten; each alert once |
| Schedule sync and mirror | `services/schedule-sync.ts`, `aws-business-sync.ts` | `WorkShift`, canonical mirror | rewrite shifts from sheets and the web app | the mirror names who works |
| Tasks, reminders, birthdays, preferences, finance, menus | `services/*`, `handlers/*`, `menus/*` | small rows, daily Redis claims | timed messages, status buttons, I/O | — |

`PROJECT.json` lists each with its status, and the hazards of the code line by line.

## The modules

| Module | Models |
|---|---|
| `ReplacementSearch` | the local replacement search, every operation of it |
| `MCReplacementSearch` | small days for TLC |
| `ReplacementSearchProofs` | type correctness and the safety of the search, for all constants |
| `CandidateFunnel` | the guard of the candidate's row: its tables and `Admits` |
| `RecruitingCommands` | one candidate under the commands, the worker and her buttons |
| `MCRecruitingCommands` | rows and orders of commands for TLC |
| `InvitationWaitlist` | the same with the invitation's dates, the windows and the passes that watch them |
| `LeasePromise` | the constants, the state and the promise of the lease, apart from its actions |
| `RedisLease` | the lease of a pass: Redis, several containers, time, losses and crashes |
| `IterationLock` | what the lease promises; `RedisLease` implements it |
| `MessageOutbox` | the passes of the four notification outboxes, with lost calls and crashes |
| `DeliveryLedger` | what an outbox promises; `MessageOutbox` implements it |
| `MessageOutboxProofs` | the safety of the outboxes and of the lease they run under, and both refinements, for all constants |
| `Announcement` | one announcement from the command to the last reminder |
| `SupportThread` | one photographer's topic in the support group |
| `ChannelAccess` | one employee, the channel and the chats, and the registry of chats |
| `Parcels` | one parcel, its cycle and its buttons |
| `ParcelsProofs` | who may take a parcel from whom, each alert once, nothing taken back, for all constants |
| `RecruitingCommandsProofs` | the tables and the moves in every interleaving; the funnel, the slots, invitations and what she is told while one handler runs at a time, for all constants |
| `InvitationWaitlistProofs` | each tick's letter once, and old letters and buttons dead, while one handler runs at a time; no booking forgotten in any interleaving; for all constants |
| `AnnouncementProofs` | everyone once, asked once, quiet after the end, able to answer, for all constants |
| `SupportThreadProofs` | nothing twice, no open question lost, calls kept, for all constants |
| `ChannelAccessProofs` | revoked is out, links are good, the registry is true, for all constants |
| `MCInvitationWaitlist`, `MCAnnouncement`, `MCSupportThread`, `MCChannelAccess`, `MCParcels` | what happens in the behaviours that TLC explores ("scenes") |

Each module stands alone but for these: `RecruitingCommands` extends `CandidateFunnel`,
`InvitationWaitlist` extends `RecruitingCommands` (and its proofs the other's), `RedisLease` extends
`LeasePromise`, and `RedisLease` and `MessageOutbox` instantiate their
abstract specification.  Else the components share no rows that a property relates; what one needs of another is in its own environment (the mirror in
`ReplacementSearch`, the lease's exclusion in `MessageOutbox` through `MayStart`).
A property that is a conjunction of named parts (`SheIsToldTheTruth == VerdictLetterOnce /\ …`) is
checked as one; each part has its own comment and its own mutant.

### ReplacementSearch

A photographer who cannot work starts a request; the bot offers the shift to waves of
candidates; the first acceptance that commits wins.  State: the rows `request` and `response`,
the schedule mirror (`holder`, `linked`), the offers shown in chats (`offered`), the delayed
jobs in Redis (`jobs`), the clock (`now`), and `call[a]`: where each actor's service call is.
An actor is a photographer, the owner, the BullMQ worker or the schedule sync, and has one call
in flight at most (`sequentialize`; concurrency 1 of the worker).

Each awaited write is an action, and so is each read whose answer is used after a later
`await`: `accept` is `Accept`, `CheckConflict`, `CommitAcceptance` (the transaction with its
compare-and-set), `ReadSameDayOffers`, `InactivateResponses`; `decline` is `Decline`,
`RecordDecline`, `TallyWave`; `dispatchNextWave` runs from `LoadRequest` through the four
`Find…` outcomes to `AdvanceWave`, the offers one by one (`CreateOffer`, `DeliverOffer`,
`RecordMessage` or `RecordDeliveryFailure`) and `EnqueueNextWave`.  The pass that
follows the mirror goes over a list read once: `ReconcileActive` takes an entry of it, `FindShift` reads the
shift as it is then, `Reattach` writes the canonical id by the request's id whatever has become of it.
`EditSchedule` is the environment: the mirror hands a shift over or links it to its canonical id.

Abstracted: one Kyiv day, the scope of every query that relates two requests; one photographer
per location and day; a canonical shift id is its location; who belongs to a wave
(`CandidatesOf`) is constant; the reads between `LoadRequest` and the next write are one
instant; equal jobs are one job.  `SlowCalls = FALSE` lets time pass between calls only.
`startAdminRequest`, `cancelConfirmedRequestByAdmin`, `processOverdueActiveRequests` and
`hrService.makeDecision` have no caller; the first two are modelled, as their tests use them.
The canonical branches are off (`AWS_REPLACEMENTS_CANONICAL_ENABLED`, off by default).

### CandidateFunnel and RecruitingCommands

`CandidateFunnel` is the guard: the allowed steps between statuses, what a status demands of
the other columns, and `Admits(row, patch)` as `candidateRepository.update` applies it: a patch that
changes nothing the guard looks at passes, any other must be `Valid`.

`RecruitingCommands` has three actors: the dispatcher, the candidate worker and the candidate
with her buttons.  A handler reads the row and makes its calls in order, so it is an operator
from the row to the list of calls it leads to (`inviteCandidate`, `rescheduleInterviewByCommand`,
`rejectAfterInterview`, …, one per command; `run[a].todo` is what is left).  Every call is a step:
`ValidateUpdate` and `WriteUpdate` are two (an update reads, judges, and writes by id), a send
delivers, fails or finds the bot blocked, the web app's slots and the local ones are changed by
different calls (`TapSlot` books in the web app, empties a stale local copy, then books here).  State besides: her row, her age, the slots here (`slots`) and in the web app
(`web`), the outbox with attempts, the dispatcher's batch, the Redis mark of a polite rejection,
what she has been told (`chat`), and two history variables (`talked`, `touched`).

Abstracted: a failed send was not delivered; the six hours of a delayed decision are the slot
phase "long over"; the archive transaction reads at one instant, and so does the booking
transaction; the web app's slot flag is on; database failures are left out, guard refusals are
not; `execute`'s own read of the row is the service's where the service reads again, for nothing is
decided in between; where the web app cannot be asked for slots or refuses to release one before anything
is done (`AsksWebFirst`), the command fails; the web app retries a command `MaxAttempts` times (5 in the code, at most 2 here).  Left
out: a local copy of a slot that cannot be made, the release that undoes a booking and fails (it is only
logged), reactivation of underage candidates, `REQUEST_PITCH_REVIEW`, the worker's mentor stage and reminders.  Runs in which she
has buttons take her to be of the right age, for the booking's own age check is left out.

### InvitationWaitlist

Two passes of the same tick (`services/worker.ts:92`–101) watch a candidate who has been invited and
one for whom there is no time.  `RemindInvitation` and `ExpireInvitation` are `processInviteReminders`;
`TellOfWindows` is `notifyWaitlistAboutNewSlots`, which first remembers the free windows and then
tells whoever has waited since before the newest of them.  The module adds the columns they go by:
`invitation` (the date by its age, and the reminder's mark), `waitReason`, and for
`interviewWaitlistedAt` the set `newer` of windows first seen after it; and the web app's `open`
windows with the memory `firstSeen`.  The patches of `RecruitingCommands` name these columns too;
`WriteRow`, `ArchiveRow` and `BookRow` are its writes with them.  Besides booking and cancelling she says
that no time fits (`TapNoSlotsFit`), declines (`TapDecline`, the red button of any letter still in the
chat) and withdraws (`TapWithdraw`); the recruiter opens windows, others take them.

Abstracted: a pass that finds nothing to do is no step; dates are compared by the order of events;
the release of a slot in `decline_invite_confirm` is left out, for a live invitation has none.
In scenes with her buttons the slots stay ahead.

### RedisLease

The four guarded loops write out one protocol: a local flag, `SET key token PX ttl NX`, a timer
that renews by compare-and-PEXPIRE and only logs failures, and a compare-and-DEL in `finally`.
`owner` and `ttl` are Redis; `pc`, `wait` and `lost` are each container's place in `runOnce`, the
time to its next deadline and its renewals lost in a row.  A token is drawn per pass, so after a
crash or a lost release it belongs to nobody (`Orphan`).  `IterationLock` is the abstract lock.

`LeaseAssumption`, in `LeasePromise`, is the choice the code makes: `TTL > ReplyWithin + (MaxLost + 1) * Period`.
With 5 minutes and 60 seconds it holds while up to three renewals in a row are lost (15 minutes:
thirteen) and the SET is answered within a minute less the delays.  Nothing in a pass checks
that it still owns the lease, so beyond the assumption two passes overlap; with `TTL = 7` in
`lease_heartbeat.cfg` (and the assumption dropped) TLC shows it, so the bound is exact.

### MessageOutbox

The four dispatchers are one protocol with differences that matter, so a behaviour is about one
of them (`box`).  `Fetch` takes the pending rows, `RetireInvalid`, `ReportEchoes` and `NoRecipient`
deal with those that need no message (`NoRecipient` also for a shoot alert without an administrator),
`TakeGroup` reads the month and `Send` or `SendFails` follows, `Report` reports row by row, `Sync` brings
the request of a reverted acceptance up to date.  Only schedule rows saved in one batch share a message
(`batch`, `GroupOf`); rows without one are sent apart.  The
passes of `schedule` and `recruiting` hold the lease of `RedisLease`; `MayStart` says so, and that the
timer of `replacement` starts a pass beside the last one.  A lost report, a send that arrived and
failed, a second offer and a crash are counted in `trouble`; whatever they allow to be told again
is entered in `excuses`.  A second pass of `replacement` is such an excuse; what it can cost is bounded by
`OneMessagePerPass`, which counts messages by passes and mishaps and knows of no excuses.

`DeliveryLedger` says the same without passes: a row is told once, and once more for each excuse;
it is delivered only when told, but for the echo of her own tap.  The refinement is by the same
variables, and `KeepsLedger` therefore implies `DoubleSendHasReason` and half of `TellFirst`.

Assumed of the web app: a row is written with the change it tells of, a failed row may be offered
again, a delivered one stays delivered, fewer rows are pending than a page holds.  The welcome
before a person's first schedule message is left out.

### Announcement

One announcement with buttons, in private chats.  The dispatcher of the web app's commands, the
BullMQ job, the pinger and the bot's own menu run as four actors with one await per action on
`post`, `delivery`, `row`, `marks`, `done`; the chat is what a person sees (`screen`, `keys`).  An edit reads the
announcement with its replies, then the deliveries, then each chat's mark; a message is tracked, then its
reply awaited; a sweep deletes message by message, and a chat in which one stays does not count as emptied;
a reminder is deferred by displacing the older action, then by the date.  The
decisions that make it safe are all claims by compare-and-set: `ClaimPending` before a send,
`ClaimReminder` and `ClaimPrompt` before a reminder or a new question.  Not modelled: preferences
broadcasts, group chats, the `pingUntil` window, the snapshot sync, the TEST command.

What the code leaves open, and the statements allow: a reminder that passed its last look is sent
after the end (`StoppedStaysQuiet` counts one per actor); a job goes on sending after a withdrawal;
a crash between send and `markSent` leaves a delivery `SENDING`; a crash between the mark of a new
question and the question means that she has no button for it (`Unasked`, which `AskedCanAnswer` excepts).
And an edit that read the replies before a person was tracked and the deliveries after hers was marked takes
her for one who need not answer and edits her buttons away (`announcement-edit.ts:70`, 79): these people
are collected in `bare`, which `AskedCanAnswer` excepts; without that exception TLC finds the loss in the scenes
with `EDIT`.

### SupportThread

The photographer, the timer that copies her albums, the support account, an owner who may be called, the
admin panel and the daily worker handle one update each at a time, and everyone decides the next status
by the thread as read at the start (`run[a].was`).  `ensureThread` is `EnsureThread`, `TakeLock`, `FindCreated`, `LookAgain`,
`CreateTopic`, `InsertThread`; her message is copied by `CopyIntoTopic`, `CopyFails` or `CopyUnsure`, a topic that
was deleted made again by `RecreateTopic` and written by `MoveThread`, and the status written by `ApplyStatus`.
Her message, her album and a report of the bot (`postBotContext`) may each find the topic deleted, by a row
that another has replaced already; so one deletion may leave two topics, and `OneTopic` counts them
(`crossed`).  What the database refuses after a copy or an answer that arrived is `WriteFails`.  The daily pass
(`DailyPass`, `MarkAway`) moves old conversations: `StartMove`, `SendNotes`, `MarkNoted`, `CarryWaiting`, `CloseLegacy`.
`WaitingIsShown` excepts a question that crossed another handler, whose stale row may be written over it,
and one whose status could not be written.  Not modelled: two albums at a time, edited messages, the
card and its title, candidates' old tickets.

### ChannelAccess

One employee, whom the web app dismisses and takes back, leaves and joins chats in which the bot
may gain and lose its rights.  Three actors revoke and restore with the same services:
the dispatcher of the queue (`row`), the sync of her profile (`sync`), the join handler (`join`), chat by
chat.  `known` is the registry, `sweep` the reconciliation at the start, `news` the `my_chat_member` updates
that cross it.  The sweep goes over the chats listed as active and the seeds from the configuration and
the locations (`Seeds`); it ends before it begins when `getMe` fails (`SweepStart`), and does not record as lost a
chat that was not on the list.  A check of her standing in a chat the bot has left fails, and the revocation
with it.  `missed`, `raced`, `shutOut` collect what the code cannot know: a chat not in the
registry when it was asked, a verdict older than an update, a ban after re-employment.
`RegistryIsTrue` speaks of chats that the bot has heard of or is configured with.
Not modelled: join requests, candidates' authorization, links made by menus, the sync's own caller.
A batch of the queue is a set of rows (`batch`).  The constants are assumed to be sensible only:
`ScenesAreEvents`, `BoundsAssumption`, `ChannelIsNoGroup`.

### Parcels

One row, changed by photographers' buttons, the support account and the hourly cycles.  A
cycle is `Tick`, `ReadList`, `SyncFacts` or `CancelGone`, `Track`, `ReadRow`, `WriteStatus`, `Notify`, and then the looks in their
order (`Rank`): each finds what is `Due`, tells (`Tell`) and marks (`Mark`), assigns or hands over (`Evict`).
Nothing keeps the next cycle from starting while one is under way (`logistics-worker.ts:37`), so `Cycles`
are actors of their own; that a cycle takes more than an hour is the mishap `"slow"`.
Only claims and assignments compare; `Submit`, `WritePickedUp`, `WriteStatus`, `Close` and `Evict` write by id after an
earlier read.  `marks` are the row's timestamps of what was told.

A scene begins with a row that the code writes, before its second refusal of photographs
(`SceneAssumption`): photographs are there only of a parcel under review or closed.  `others` says whether the
web app lists other parcels that are open here: where it does not, nothing is cancelled
(`logistics-service.ts:303`), so the last parcel of a list stays as it is and `GoneIsClosed` excepts it.  `hours`
says whether the location's hours are known: where they are not, no shift ends there and nothing is handed over.

Abstracted: "evening" is the shift's end, the end of the messaging hours and the 20:00 change of the
shift that is told; looks that find nothing are one step; `EXPECTED` and `IN_TRANSIT` are one status;
the guard against cancelling more than 30 parcels in a pass never applies to one.  Not modelled: the phone proxy, the letter about an unmatched parcel, support's
correction of a number or a location, the 15-second guard against double taps;
`handleShipmentLocked` has no caller.

What the code leaves open: under overlap the handoff or the tracking may take back a parcel whose
photographs were just submitted, and nothing reminds of it (hence `~scene.overlap` in
`PhotosAreUnderReview`); a stale alert is marked though its letter failed; two overlapping cycles may
alert twice, and the second may hand over, by id, a parcel that was taken for the next shift after the first
had handed it over (`logistics-service.ts:987`; hence `OneCycle` in `LateHolderStays`, which TLC refutes
without it); a draft of photographs begun before the end reopens a closed
parcel as `VERIFYING`; a parcel first seen when it has arrived is not told to the shift.

## Runs

| Run | Question | Bounds |
|---|---|---|
| `search_race` | can answers, waves, cancellation and expiry of one search go wrong in any order, with failed and unacknowledged offers and a crash? | one request, two candidates, three instants, one crash, slow calls |
| `search_day` | can one candidate win two searches of a day, and does each of them end? | two requests that ask the same candidate, every offer delivered |
| `search_restart` | can a restart, or a schedule that changes meanwhile, leave two searches or lose a winner? | a search and its restart, the mirror linking the shift or giving it to either candidate |
| `search_stuck` (violation) | does a search end with a failed delivery? | two waves and the urgent one, six instants |
| `command_orders` | what do commands, retried and offered again, do to one another, to the slot tables and to her booking? | any two of the twelve kinds from six rows of the funnel, two ages, one lost ack; any one while she books two slots; any one against a verdict that was overwritten; a no-show while she exchanges or cancels, and an invitation while she books, in every interleaving |
| `command_race` | does everything settle (commands, rejections, expired invitations, people who wait), is any letter of the tick repeated, does an old letter bind her? | one rejection or no-show in every interleaving with failed sends and a crash; an invitation with a failed letter or a crash, a reschedule with a lost ack or a new invitation, each with two buttons pressed and one window opened or lost |
| `lease_heartbeat` | do passes of three containers exclude each other, and is every lease freed? | two lost renewals in a row, the tightest `TTL` |
| `outbox_faults` | are rows told once or for a reason, in the right order, and settled? | two rows of every kind, two passes, one fault |
| `announcement` | is everyone told once, asked once, left in peace at the end, and every command carried out? | one person with every pair of events, two with crashes and withdrawals; one fault, two tries |
| `support_thread` | is a question ever lost, hidden or doubled between the team's acts? | two questions, two acts, one fault; nine scenes |
| `channel_access` | does access follow employment, chat by chat? | the channel and one chat, three changes, one fault; eleven scenes |
| `parcels` | who holds a parcel, is anything told twice, is any parcel forgotten? | two photographers, one mishap; nine scenes in turn, four interleaved, three with two cycles at once |

Why these bounds are enough: the conflicts of the code are between two calls on one row, or two
rows that share a shift or a person, and every run holds each pair its question is about.
Three instants make a wave due before, at and after its time, with the shift's start as the
last; a second candidate is the smallest rival and a second slot the smallest exchange.  Two
attempts make a retry, and one fault in any step is what the code's comments set out to survive.
A *scene* fixes which actors and faults a behaviour has, so that pairs of them are explored in
full; the scenes of an MC module name the pairs.  The mutants that `PROJECT.json` lists, one or
more for each property and one for each part of a conjunction, are found within these bounds.

Deadlock is checked in `lease_heartbeat` only: elsewhere nobody has to press a button and the
clock, the faults or the acts are bounded, so a behaviour may really end.

### Fairness

* `ReplacementSearch`: every started call goes on (the event loop), a due job is taken (BullMQ),
  time passes (strong fairness, since people may always start another call and time passes
  between calls there).  Nobody is obliged to answer, and nothing to change the schedule.
* `RecruitingCommands`: the dispatcher's and worker's ticks come back and their calls go on; time
  passes for every slot; a letter that the worker retries at each tick is delivered in the end
  (strong fairness of `Deliver("worker")`).  She is not obliged to press a button.
* `InvitationWaitlist`: whatever runs or is due goes on (`Proceeds`, one weak fairness, as all of it is
  one process and each step brings it nearer its end), with the same assumption about letters.
  Nobody has to press, to decide or to open a window, and no invitation has to grow old.
* `RedisLease`: time goes on and the timers of a living process fire.  Work may last for ever.
* `MessageOutbox`: the timer fetches again, and a pass that runs goes on.
* `Announcement`: the dispatcher polls, the job and the pinger go on, a deferred action falls due.
* `SupportThread`: her handler and the daily worker go on; the lock of a dead container expires.
* `ChannelAccess`: each actor's calls go on, the queue is polled, the profile is synced, updates of
  the bot's own membership arrive.
* `Parcels`: every handler goes on; some cycle starts again, the change of day and the passing of
  days are strongly fair, since buttons may be pressed in between.  Nobody has to press one.

## Proofs

TLAPS proves the following for every value of the constants, from the named assumptions of
the modules (`RequestsAssumption`, `ActorsAssumption`, `ScheduleAssumption`, `WavesAssumption`,
`TimeAssumption`; `ConstantsAssumption`; `LeaseAssumption`; `OutboxAssumption`; `StaffAssumption`, `SceneAssumption`;
`BoundsAssumption` of `InvitationWaitlist`; `AnnouncementAssumption`; `SupportThreadAssumption`; `ScenesAreEvents`, `BoundsAssumption`, `ChannelIsNoGroup`).  They say
what kind of value a constant is and that its bounds are numbers; two say more: `LeaseAssumption`, and
`SceneAssumption` of `Parcels` about the row a scene begins with.  TLC evaluates each in a run.

`ReplacementSearchProofs`.  None of the safety properties is inductive: a call that checked
something writes later.  `SearchInv` adds what each call in flight still knows when it
writes: the row it will create does not exist and none of its author's searches blocks it
(`CreatorInv`: only the author creates it, and her own calls are sequential); its verdict is one
that closes (`VerdictInv`); she who is about to accept has no other replacement (`CommitInv`:
only her own calls make her one).  The proof first shows, once per action, what a step can do to
a row, an answer and a call (`RowStep`, `AnswerStep`, `CallStep`, lemma `NextShape`), and each
conjunct of `SearchInv` is then preserved by any step of that shape.  Theorems: `TypeCorrect`,
`SearchInvariant`, `OnlyTheWinnerAccepted`, `NobodyBookedTwice`, `OneSearchAtATime`,
`ClosedRequestsStayClosed`, `ReplacementStays`.  Both checks outside a transaction are
safe for the same reason, and the proof shows that it is the only one: the photographer's own
updates are sequential.

That the winner's answer stays ACCEPTED (`FoundStaysAccepted`) needs more, for three calls write an answer
without looking at it: the inactivation of a list read before, her own decline, and a delivery
that failed.  `KeepInv` says why none of them hits a winner: a call that inactivates knows that its
row is over for good, and the answers it read are of rows that are over or are its author's own; a
decline is its author's only call; and whoever is being sent an offer has not been shown it and is
sent no second one (`SendsApart`), while a winner was shown hers (`FoundWasOffered`).  Lost
acknowledgements break the last part, and the statement excepts them.

The lease, in `MessageOutboxProofs` as well.  `LeaseLasts` bounds the time left on a lease from below by what may still be
lost: `TTL - ReplyWithin - (lost + 1) * Period + wait`.  `RoomForLoss` turns the assumption into
"more than the wait", `LeaseIsAlive` says that a tick cannot expire the lease of a pass, and
`OthersKeepIt` that a step of another container leaves it alone.  Theorems: `LeaseTypeCorrect`,
`LeaseInvariant`, `WorkIsUnderLease`, and the refinement `LeaseImplementsLock`.

`MessageOutboxProofs`.  That a row is told no more often than it has excuses is not inductive: what
matters is how often it was told *when a pass has it in hand*.  `IInv` adds
`Budget`: the times a row was told and the passes that hold it unsent are together covered by
its excuses; `ToldFirst` and `MonthKnown`: what a pass will report fits what was told and what it
read of the month; and `OnePass`: under a lease one pass is open.  `Overlap` counts without excuses: until a
row is delivered its messages are covered by the passes that have it and by the mishaps, and a delivered
row is taken up by none, so two passes cost one message more and no number of orders costs two.  The
refinement then maps each action to `Tell`, `Settle` or a stutter.  Theorems: `OutboxInvariant`,
`OutboxTypeCorrect`, `TellsTwiceWithReason`, `OverlapIsBounded`, `ToldBeforeDelivered`, `LastMonthIsCurrent`,
`OutboxKeepsLedger`.

`ParcelsProofs`.  Two writes by id could take a parcel from her who just accepted it after the shift:
the handoff decided before, and support's "picked up" that writes back the time it read.
`StillHolds` says why they do not while each cycle ends before the next begins (`OneCycle`): a parcel about to
be handed over has a holder of the shift that is over, no claim can replace her (claims compare with NULL), no
other cycle can have handed it over meanwhile (`CycleAlone`), and what support read is that same shift.
`HolderKept` shows that no other action touches the holder, with any number of cycles, so `OneHolderAlways` has
no such hypothesis: a parcel goes through nobody's hands from one to the next.  Theorems: `TypeCorrect`,
`HandlersAreRight`, `OneHolderAlways`, `LateHolderStaysAlways`, `HoldersAreRespectedAlways`.

The alerts and the review need `Known`, which adds `OneAtATime`, of scenes whose handlers come one after
the other: whoever has a handler is alone, what it read of the row is so until it writes, and a letter that
was sent is marked, is about to be, or a mishap is to blame; and `Urgent`, of every interleaving: the
urgent letter is told by a compare-and-set.  Theorems: `ToldOnceAlways`, `NothingIsTakenBackAlways`.

`RecruitingCommandsProofs`.  In every scene, with every fault and overlap, `Base` says what any call
that is left to an actor may write (`Fine`: a patch of the table's columns, a slot that exists, no
invitation to the unfit) and that the slot she names is taken: `TypeAlways`, `HersIsTakenAlways`.

The other theorems are about scenes whose handlers come one after the other.  In the bot they may cross
between two awaits, and what that breaks is listed below; these theorems say that retries, late and
repeated commands, failed sends and refused patches alone break nothing.  `Turn` has three parts:
whoever has begun is alone (`OneAtATime`); what it read is still there when it writes (`ReadsAreFresh`);
and the calls it has left have one of thirteen shapes, each with the state of the tables in which it may
occur (`Shape`: about to cancel with the web app's slot released already, about to free a slot she no
longer names, about to empty the local copy of a slot or to book it with the old one still hers, and so on).  `TodoShape` shows that every
handler of every command begins in one of them, from any row, and each call leads from a shape to a
shape; what the tables owe one another between two handlers (`Agreed`) is the shape with nothing left.
What a step does to the row is then one formula (`Moves`: not back, not out of a rejection, no slot
before its choice).  Who is unfit has an invariant of her own (`TurnedAway`): what is left of an
invitation that turns her away, and that nobody but a later command takes the rejection back.

Hypotheses: `~scene.overlap` (which `SlotsAgree`, and so `TablesAreSoundAlways`, has within); `Steady`
for the tables, since a crash, or a block that archives her, leaves them apart (see below);
`NoTrainingSlot` for the way back, that the row names none of the old training slots, which nothing in
the repository connects any more; `BookedRow` for the invitations, that a row with a slot is past the
choice of one, which every write of a booking brings about.  They are needed of the first state only and
are kept by every step.  TLC found `InTurn`, `BookedRow`, `NoTrainingSlot` and `TurnedAway` invariant in
the scenes of `AllOrders` (1.66 million states) and in one scene of every row, age and fault (6.49
million) before they were proved.  Theorems: `TablesAreSoundAlways`, `NoWayBackAlways`,
`InvitedAreFreeAlways`, `UnfitAreTurnedAwayAlways`, `InvitationsAreRightAlways`.

What she is told is followed from the command to the letter.  `HeldOnce`: the dispatcher has a command in
hand once and as the web app has it; `Traces`: what was written or sent in a command's name belongs to one
that was issued.  On them rest three invariants.  `MovesAreTold` says of a `CHANGE_LOCATION` that what
is left of it is the write and the letter, the letter, or its failure; it holds in every interleaving and with
every fault, so `MovedAreToldAlways` has no hypothesis.  `VerdictsInOrder` says, for each stage of a verdict
(decided, told, noted), what the row, the mark in Redis and the calls left have of it: a retry finds
either no letter sent or the note of it, and a second command finds the verdict itself.  `NoIsNo` says
that once she has read a no, every call left to anybody is hopeless and the row is closed, or the handler
that told her is about to close it.  The theorems `VerdictLetterOnceAlways`, `NoHopeAfterRejectionAlways` and
`SheIsToldTheTruthAlways` are therefore about handlers in turn, none of which dies: a death between a letter
and its note makes the retry tell it twice, which the code does not prevent.  Of the first row they
ask what every writer of it keeps: the step that goes with the status (`StepFits`), no training slot,
and, for hope, an age of her row that is not under 16 (`age # "underage"`, see the limits below).

`InvitationWaitlistProofs` extends these by the columns of the invitation; its `Base` and `OneAtATime`
are those above, kept by the two passes and her buttons too.  `WordsFit` lists what a handler may have
left.  `RemindersFit` counts: reminders are covered by letters of an invitation and by deaths, with one
to spare while a date stands that no one was reminded of.  `WindowsFit` counts letters about windows
against the windows opened in the same way.  `OffersFit` follows the date: a date in her row is one that
the last letter told her of, or a handler is about to tell her; a pass that tells her that her time
went to another has found her without one and has taken the date back first; and a button she has
pressed closes her application only if what it answers was the last she was told.  Hypotheses: handlers in turn;
`SlotsLetterArrives`, no reschedule letter is lost where there are reschedules; and for `OldWordsAreDead` that no
process dies.  With the letter of a reschedule lost, its date stands although she never heard of it,
and the tick reminds her of it.  A death between the letter "windows opened" and its write leaves the older date
behind a newer letter, so `OffersFit` fails there; TLC finds `OldWordsAreDead` to hold all the same in the
scenes of `command_race`, and the theorem leaves these behaviours to it.  Theorems: `TicksDoNotRepeatAlways`,
`OldWordsAreDeadAlways`.

The same module proves that no booking is forgotten, in every interleaving and with every fault, crashes
included: `BookedEndInterviewedAlways`.  Once every slot is over, who holds one in the interview stages
has been interviewed, or the worker's query of overdue or of stale bookings finds her.  Its invariant `BookingsKept` says that
somebody past the talk has a date of it, and that who holds a slot has one or is in the interview step
(`KeptRow`), so that the stale query, which asks for that step, finds whom the overdue one does not; that a slot
is marked as reminded only when it is over and she is not due there any more (`RemindedIsOver`), so that
the overdue query, which asks for a slot not reminded of, misses nobody; that each actor's calls are of
a kind its decision allows (`OnCourse`): only the dispatcher decides, it sets her back to the
choice of a time only while there is no decision, and the mark of a slot follows the
write that ends the interview; and that an update past the talk which has been judged by the row
it read still finds the date there (`JudgedWell`).  The last is where handlers that cross could do harm: the
restart clears the date, and an update judged before it would lead on without one.  It cannot be,
since such an update follows a decision and the restart is for those who have none.  Hypothesis:
`KeptRow` of the first row, which also has none of the old training and mentor slots; each row that the
bot's stages leave is such.  TLC found `KeptRow`, `JudgedWell` and `RemindedIsOver` invariant in the scenes of `AllOrders`
before they were proved.

`AnnouncementProofs`.  `Inv` follows the order in which the code writes: a mark before its reminder or its
question (`Counted`: what was sent and what is on its way are together covered by the mark, or by a
send that was unsure), the delivery claimed before the text and the job's own until it is marked
(`JobSound`), the text tracked before the button can be missed (`Delivered`).  `CanAnswer` is the
strengthening of `AskedCanAnswer`: a prompt stands for a mark, and a button that goes leaves another.
`EditSound` and `SweepSound` say what an edit and a sweep still know of what they read: who had answered by the
first read has answered still, whatever the deliveries read after it, and whoever has been tracked between
the two is in `bare`; a sweep finds all that the rows know.  Theorems: `AnnouncementInvariant`, `AnnouncedOnceForAll`, `NobodyAskedTwice`, `EndsAreKept`,
`WaitedForCanAnswer`.

`SupportThreadProofs`.  Topics are counted by those who may still create one: before there is a row, only one of
the handlers past the lock has it, and the others owe their place to a lapse or a crash
(`TopicsCounted`; `Count` is a cardinality, so these steps rest on the library's theorems of
finite sets); after that, a topic to move to is nobody else's and not the row's (`WritersKnow`), and a handler
that replaces what another has replaced is counted in `crossed`.  Copies and notes are counted in the same way.  `OpenShown` says what keeps a question open
while everybody writes the status by an old row: she has asked and the row shows it, or the write of her
message or her album is next and nobody else is at work, and what another has read since cannot end it (`Heeds`).
`CallsOwned` ranges over what the handlers have read, for an old row may be written back.
Theorems: `ThreadInvariant`, `NothingIsDoneTwice`, `QuestionsAreKeptOpen`, `CallsAreKept`.

`ChannelAccessProofs`.  A revocation that is under way has closed every chat it is done with
(`BanSound`), and what may have been overlooked is counted (`MissedCounted`); a restoration past the channel's
unban has undone it, or Telegram refused (`LinkSound`); the last update waiting for a chat tells the
bot's standing there, and when none waits the registry has it, the sweep is about to record it, or it is neither configured nor ever
registered (`RegistrySound`); links are counted against the rows past theirs (`LinksCounted`).  Theorems:
`AccessInvariant`, `RevokedStaysOut`, `LinksStayGood`, `RegistryStaysTrue`.

The type invariants of `ReplacementSearch`, `RedisLease`, `MessageOutbox` and `Parcels` are proved and not
listed in a run; those of `Announcement`, `SupportThread` and `ChannelAccess` are the first conjunct of the `Inv` that is
proved.

Only model-checked: all liveness (`SearchEnds`, `EverythingSettles`, `LeaseIsFreed`,
`EveryRowSettles`, `CommandsAreCarriedOut`, `LegacyIsSettled`, `AccessFollowsEmployment`, `ParcelsAreSettled`): fairness and
`ENABLED` are beyond the prover; the overlapping scenes of the
theorems about handlers in turn, and the scenes with a death or a lost reschedule letter of those
about the worker's passes, for which TLC checks the same properties in the scenes of the runs.

## Disagreements between the code and what it says of itself

One has a run, and the finding in `PROJECT.json` quotes the line it contradicts:

* `search_stuck`: a candidate whose offer failed is offered the shift again by the urgent wave;
  the unique index throws before the next job is queued and the search stays ACTIVE.

The others below are definitions in the modules; TLC refutes each under the configuration named,
with the changes given and that definition as its only property.

Replacement search:

* `SearchEnds` with `Faults = {"crash"}` in `search_day.cfg`: a crash after the row is created and
  before its first wave is queued leaves it ACTIVE; `processOverdueActiveRequests`
  (`services/replacement-service.ts:1253`), which would find it, has no caller.
* `RestartAsksNobodyTwice` (`search_restart.cfg`, `CandidatesOf <- EarlyAsk`): `sendWave` (1457) does
  not look at its request again; a search cancelled and restarted during a wave asks the same
  candidate twice (`services/__tests__/replacement-service.test.ts:629`: "does not message the
  same photographer again when a cancelled search is restarted for the same shift").
* `FinalWaveStaysOpen` (`search_race.cfg`, with `Faults = {}`, `StartAt = 4`, `MaxTime = 4`,
  `UrgentBefore = 0`, `DayBefore = 9`, `LongInterval = 1`, `SlowCalls = FALSE`): `dispatchNextWave` (815) judges
  the row as loaded, so a decline that dispatches while a job does fails the search before its
  last wave is due (test line 213: "keeps the final wave open until the shift starts").
* `FailureNoticeIsTrue` (`search_race.cfg`): `failRequest` (1610) ignores how many rows it changed and
  announces a failure for a search that was found or cancelled (test line 157: "when
  replacement is not found").

Commands (where `command_race.cfg` is named, but for the last: module `MCRecruitingCommands`,
`SPECIFICATION FairSpec`, `Scenes <- Rejection` unless said otherwise, and without `MaxTaps` and `MaxChanges`):

* `AcceptanceStands` (`command_race.cfg`, `Scenes <- Acceptance`): the automatic completion writes
  `INTERVIEW_COMPLETED` over the `MENTOR_MANUAL` of an acceptance (`candidate-repository.ts:534` against
  `hr-service.ts:324`: "статус MENTOR_MANUAL і лист одразу").
* `RetryKeepsNewBooking` (`command_orders.cfg`, `Scenes <- Reschedule`): the retry of a reschedule releases
  the slot she booked in between (`interview-reschedule-service.ts:106`, its test at 193).
* `RefusedChangedNothing` (the same with `"ack"` for the fault): a command whose first try changed the
  row and whose ack was lost is refused as a state conflict (`interview-reschedule-service.ts:89`; the
  dispatcher's comment at 640 reads the reason as "not applied").
* `ThanksComeBeforeTheVerdict` (`command_race.cfg`): the completion decides to thank before it sends
  (`interview-auto-complete.ts:54`), and its thanks may follow the rejection.
* `ThankedHaveTalked` (`command_race.cfg`): the fallback of a failed send (`hr-service.ts:455`) thanks a
  candidate for an interview that has not begun.
* `MovedAreTold` without its `mishaps = 0`, with the fault `"crash"` in `TwoDecisions`: attempts stay 0 after a
  crash, so the second try of a `CHANGE_LOCATION` takes the location for unchanged and tells her
  nothing (`recruiting-command-dispatcher.ts:550`, comment at 523).
* `SlotsAgree` with the fault `"blocked"` in `DecisionAndBooking`: archiving a candidate who blocked the bot frees
  the local slot only (`candidate-repository.ts:1029`, `canonical-interview-slots.ts:106`).
* `RejectionStands` (`command_race.cfg`) with `booking` TRUE in `Rejection`: her cancellation is written
  over a rejection (`handlers/booking.ts:384`–469), and she waits for an invitation after a no.
* `BookedMeanwhileStays` (`command_race.cfg` as it is, `Scenes <- Expiry`, `SPECIFICATION SpecWaitlist`): the
  expiry writes by id after its read (`workers/invite-reminder.ts:46`, 66), so it crosses a booking: she is
  told that her place went to another and is booked, or, in the other order, is left in
  `WAITLIST_HR` with a slot that no pass looks at.

Announcements and parcels:

* `ReminderIsClosed` (`announcement.cfg`, one scene `{"REMIND", "REMIND2", "ack"}`): `clearDeferredPingAction`
  (`services/pinger.ts:614`) empties the field whatever it holds, so a reminder deferred meanwhile is
  forgotten (comment at 598).
* `AskedIsHolder` (`parcels.cfg`): she whose claim found the parcel taken is asked for her phone
  number all the same (`modules/staff/handlers/logistics.ts:545`).
* Behaviours of `Announcement` that its statements allow: the restore after a failed new question
  (`announcement-edit.ts:235`) may overwrite an answer given in between; a confirmation pressed before
  the reset and written after it confirms the old text; a crash between the mark of a new question
  and its reset means that she is never asked.

Read in the code and outside what the models state:

* the sweeps of `services/worker.ts` (846–961) hold a lease for one period and never renew it,
  while the comment (843) wants "щоб два інстанси не пушили ту саму порцію";
* the migration of support threads releases with GET and DEL in two calls
  (`services/support-thread-migration.ts:110`), where its comment says "Лише свій лок";
* a failed or unacknowledged `REVOKE` that is offered again after a `RESTORE` bans a person who was
  taken back, and so does the later verdict of an older join; `AccessFollowsEmployment` therefore
  counts them (`shutOut`).  A profile write followed by a crash before the sync leaves her banned.
  A database failure inside `createInviteLink` reads as `RESTORE_NOT_AUTHORIZED`, `clearProtectedChatBan`
  swallows an unban that was refused, and a failed `getChat` is recorded as "unknown"
  (`known-chat-reconciler.ts:105`);
* a parcel's failed album asks to press "done" again though its draft is gone; a pickup that
  support marks by hand is undone by the next cycle while Nova Poshta says ARRIVED; the codes 10
  and 11 close a delivered parcel without photographs.

Limits of the properties that the code forces on their statement: a lost ack repeats the letters
of a no-show, an approval and an invitation (`VerdictLetterOnce` is about verdicts); a command
that overwrites the decision between two tries lets a verdict be told again; a crash in the middle
of a booking leaves the two slot tables apart (`SlotsAgree` runs without crashes); a crash between the
worker's letter of rejection and its write lets a later command write to her of a new place or an
invitation (`NoHopeAfterRejection` has crashes with a no-show and a reschedule only); an
`APPROVE_REVIEW` offered again reopens an underage rejection (`RejectedStaysOut` excepts it), and so it does
after an `INVITE` to an underage candidate whom a verdict rejected, which overwrites that verdict by
`REJECTED_SYSTEM_UNDERAGE`, so that hope follows a rejection (`NoHopeAfterRejectionAlways` has `age # "underage"`); an
offer whose acknowledgement was lost is marked not delivered after its answer
(`FoundKeepsItsAcceptance` excepts it where `"ack"` is a fault).  The handlers that overlap
may break `RejectedStaysOut`, `SlotsAgree` and `InvitedAreFree`, which speak of handlers in turn.

## Plan

Done: with the proofs of every safety property they have, `RecruitingCommands` on `CandidateFunnel`,
`InvitationWaitlist`, `ReplacementSearch`, `RedisLease` and `MessageOutbox` with their refinements, `Announcement`,
`SupportThread`, `ChannelAccess`, `Parcels`.  Left, in this order:

1. `InterviewBooking`: several candidates and one slot in both tables; abstractly a map from slots
   to candidates.
2. `ReplacementCanonicalCopy`: the copy against the canonical state.  It is behind a flag that
   is off by default.
3. Abstract specifications of `SupportThread` (a list of questions and answers) and of `Parcels` (a
   holder and a stage), with their refinements.
4. Proofs: `OldWordsAreDead` with deaths, and the booking of item 1.

## Not modelled

The map names about an eighth of the implementation.  Most of the rest keeps no state of its own
or keeps it in one statement: menus, keyboards and conversation screens (`modules`, `menus`,
`handlers`), the HTTP client and its schemas (`aws-business-client.ts`), the reading of sheets and the layout of
reports (`schedule-sync.ts`, finance, calendar), texts and formats.  Tasks, birthdays, preferences and
daily reminders are one row or one daily claim in Redis each, which a unit test reaches.  The
schedule sync is the environment of `ReplacementSearch` (`EditSchedule`) and not a module: what
it writes is a function of the sheet it read.  Each component's note in `PROJECT.json` says what of
it is left out.
