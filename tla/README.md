# Verification of botkit-membership

TLA+ specifications of the membership bot, the TLC runs that check them on small
instances, and TLAPS proofs for every value of the constants. Paths are relative to
the repository root.

The README of the bot says what has to be right: "a trial period, a grace period and a
renewal reminder all have to agree with each other" (README.md:28). The core of this
project is therefore the table `subscriptions`, the operations on it, and the two
parties that work on it at the same time: the handlers and the background loop.

## Inventory

| Part | State | Operations | Talks to |
|---|---|---|---|
| Subscription service, `src/membership/service.py`, tables in `models.py` | `subscriptions`, `subscribers`, `plans`, `payments`, content tables (SQLite) | activate, create_trial, cancel, expire, mark reminded, read access, read expiring, read members | called by handlers, loop, admin panel |
| Expiration loop, `src/reminder/scheduler.py` | the pass it is in, the snapshot of expiring rows | sweep, query, send + mark per row, sleep | service, Telegram |
| Members' handlers, `src/membership/handlers.py` | none of their own; the buttons in users' chats | /start, plans, subscribe, content, section, my subscription, cancel | service, Telegram |
| Polls, `service.py:208-249`, `handlers.py:203-259` | `polls`, `poll_votes` | create, list, view, vote, results | service, Telegram |
| Admin panel, `src/admin/handlers.py`, `src/core/auth.py` | FSM state per chat, AdminGate (library) | password dialogue, lists, broadcast | service, Telegram |
| Retry and errors, `src/core/errors.py` | attempts of one update | run the handler again | handlers |
| Throttling, `src/core/throttling.py` | local cache, Redis key per user | let through or drop | Redis |
| Database and migrations, `src/core/database.py`, `migrations.py` | `_migrations` | transaction, init_database | SQLite |
| Lifecycle, `bot.py` | tasks, shutdown event | start, webhook or polling, shutdown | everything |
| Parsing, `src/core/callbacks.py`, `config.py`, `fsm.py` | none | pure functions | handlers, settings |
| Navigation, metrics, logging, tracing, Sentry, webhook and router wiring, payments shim, tooling | none that a decision depends on | | |

All of it is one process and one asyncio event loop; a task gives way at every `await`.
Tasks share nothing but the database (and the throttle's cache), and a transaction of
SQLite commits as a whole or not at all. What makes the system hard:

* an operation reads the clock, awaits the database, and works with the old reading;
* the loop keeps a snapshot over many awaits while its users buy and cancel;
* Telegram may fail, for ever (a user who blocked the bot) or after having delivered;
* the process may die anywhere and comes back (`restart: always`, deploy/compose.yml);
* buttons stay in the chats and can be pressed in any later state.

What makes each part correct is stated by the properties below; what is hard to test is
listed, line by line, under `hazards` in PROJECT.json.

## Modules

```
AccessPromise            what members are promised: end dates and a calendar
     ^ implemented by (checked and proved)
Subscriptions            the table, its operations, the tasks that call them
     ^ EXTENDS           ^ EXTENDS             ^ EXTENDS
AccessReads              ExpirationLoop        Storefront
(what a check answers)   (loop + handlers)     (buttons + handlers + sweep)

Polls                    tables and handlers of the polls, buttons included
AdminPanel               password dialogue and broadcast, retried
Throttling               the middleware, for the messages of one user
Callbacks                the texts of buttons and their two parsers
Migrations               the start: schema and migrations
Lifecycle                main, its tasks, signals, shutdown and restart

SubscriptionsProofs    proofs about Subscriptions, the refinement included
MembersProofs          proofs about AccessReads and Storefront
PollsProofs            proofs about Polls and Callbacks
ExpirationLoopProofs, AdminPanelProofs, ThrottlingProofs, MigrationsProofs,
LifecycleProofs        proofs about those modules
MC...                                          values of the constants for TLC
```

The modules without an arrow share no state with the others: polls touch their own two
tables, the throttle its own cache and keys, and what `Lifecycle` and `Migrations` say of
the process is to the others one action (`Crash`, `Die`, `StoreCrash`, `Restart`).

**Subscriptions.** `subscriptions` is the sequence of the table's rows, the index being
the id; a row keeps `user`, `endAt`, `autoRenew`, `status` and `reminded`
(`renewal_reminded_at IS NOT NULL`). Time is `now`, in days; `call[t]` holds what task
`t` has read and not yet used. Operations that read the clock before their transaction
(service.py:43, 65, 82, 155) are two actions, `...Begin` and `...Commit`; the others
are one. The queries and UPDATEs are operators on a table (`Matching`, `Activated`,
`Cancelled`, `StatusAfterSweep`, `Expiring`), so that the modules above and the proofs
use the same definitions. `StatusAfterSweep` folds the three UPDATEs of
expire_subscriptions, which touch disjoint rows, into one case distinction.

`get_expiring_subscriptions` reads its clock before its query too; as only the loop calls
it, its two steps are `QueryStart` and `Query` of `ExpirationLoop`.

**AccessPromise.** Per user the set of end dates that still give access. A day passing
removes what it ends, a purchase replaces the buyer's set, a trial is added to it;
there is no status and no loop. `Subscriptions` implements it with
`ent[u] = Entitlement(u)`, the end dates of u's rows that are not expired and not past
the grace period. This is the claim of the comment F4 in get_subscription: access is
set by dates, not by whether the loop has run.

**AccessReads.** Adds a history variable to Subscriptions: the values "u has access"
has taken since a check read the clock.

**ExpirationLoop.** `pc` is where `expiration_loop` is; `asked` is the clock reading of the
query, `queue` the snapshot still to be handled, `current` the row whose message is out and
whose mark is not yet set. A day may end at every await of a pass (`DayEnds`): between the
clock reading of the sweep and its commit, before and after the reading of the query,
before each message and each mark. Both
`except` clauses are actions of their own, for each await that can raise
(`SweepRaises`, `QueryRaises` end the pass; `SendRaises`, `SendUnconfirmed`,
`MarkRaises` only the row). `Die` and `Restart` are possible everywhere. Handlers buy,
start trials, cancel and fail in between. `delivered` and `mishaps` are histories.

**Storefront.** The handlers as tasks, and, per user, the buttons ever sent: every one of
them may be pressed at any later time. What a handler reads and what it shows are separate
steps, with everything else in between: `ListPlans`, `SelectPlan`, `SectionsRead`,
`SubscriptionRead` and `ContentRefused` leave the task with a keyboard to be sent,
`EditText` sends it; `ViewSection` reads the items, `ItemsShown` shows them. Only
`CancelSub` is one step: a transaction and nothing after it that is modelled. An answer
without a keyboard ("Тарифов пока нет.") changes nothing and is left out. `GreetRetried`
is `RetryMiddleware` around /start; its two retries are not counted. `GetActiveSubscribers`
is the list the administrators see and broadcast to. Content and `plans.is_active` are
the operator's (`ChangePlans`), outside the program. `everOnSale`, `everMember` and
`readers` (who was shown items read without access) are histories. The main menu's button
of the polls is in `Polls`.

A button is pressed by the user it was sent to: the chats are private ones. No handler
filters on the type of chat, so in a group another member could press a keyboard sent for
someone else; groups are outside these two modules.

**Polls.** `polls` and `votes` are the tables; `task[t]` is a menu read by `ListPolls` or
`ViewPoll` and not yet sent (`EditText`), so that a poll may be closed in between, or a
handler of `vote` between its two transactions, the INSERT of `vote_poll` and the SELECT
of `get_poll_results`. `ShowResults` takes that SELECT and its display as one step: the
text goes out as it was read, and nothing in the program reads it again.
`VoteRefused` is the constraint `UNIQUE(poll_id, user_id)`, `InsertFails` any other error
there, which the code answers in the same way. `sent[u]` are u's buttons. The program
neither closes a poll nor calls `create_poll`; both are the operator's actions.

**Throttling.** `ThrottlingMiddleware.__call__` as it interleaves with itself at GET and
SET: `cache` is `_local_cache`, `key` and `expires` are the user's key in Redis,
`task[m]` is what the middleware has read for message m. Faults are a GET or SET that
raises (the SET applied or not), a lost key and a restart. `Lifetime` is
`ex=int(max_idle)`, whole seconds. `excused` is a history.

**Lifecycle.** `pc` is what `main` awaits; `loop` and `polling` are its tasks, `handler`
is who handles a signal, `registered` is Telegram's view of the webhook and outlives the
process. An action per call of `main`, `_run_webhook` and `_run_polling`; any of them may
raise, and the process may be killed anywhere. aiogram's `start_polling` is external:
bot.py leaves `handle_signals` at its default, so aiogram's own handler takes the place
of `main`'s, a signal then ends the polling, and `stop_polling` raises when there is none.

**Callbacks.** The texts are sequences of characters; digits, foreign digits, sign,
underscore, space and colon are told apart because the parsers do. `ParseCallbackInt` is
the strict parser of most handlers, `VoteParsed` and `VoteRaises` are the `split(":")` and
`int()` of `vote`; the model's texts begin after the prefix `mem:vote:`, whose own
two parts are constant, so `PollPart` and `OptionPart` are `parts[2]` and `parts[3]` of
the whole data; `Cut` is where the part that begins at a place ends. `Number`, `Decimal` (what an f-string writes)
and `Power` are recursive functions. `Base` and `MaxDigits` (10 and 18 in the code) are
constants. The state is a text, lengthened by one character at a step (`TextSpec`).

**Migrations.** `init_database`, an action per statement: `pc` is where the start is,
`schema` the statements in effect, `recorded` the table `_migrations`, `applied` what
`_applied_versions` returned. The SQLite driver opens a transaction at the first INSERT
only, so CREATE and ALTER take effect at once and outlive a rollback; the code itself
relies on that (the CREATE of `_migrations` is in a connection nobody commits). `Die`
and `AppliedVersionsUnread` (the SELECT fails for another reason than a missing table)
are faults; `Stop` and `Deploy` are not.

**AdminPanel.** Each message is a task of its own, `task[m]`, with a stage per await:
dispatch (the state is read, the handler chosen), the handler, the query of the
broadcast, the sending, the clearing of the state, the answer. `RetryMiddleware` is
`AnswerFails`: the handler starts again from its beginning. `dialogue` is the FSM state,
which a restart keeps (Redis) or loses (memory); `authorized` and `attempts` belong to
AdminGate, a class of the library botkit-core, modelled from how handlers and tests
(tests/test_admin_gate_throttle.py) use it. The throttle of updates is left out
here: it drops messages of a user that follow within half a second, less than a
broadcast takes (`Throttling` says when). `compared`, `received` and `unreported` are
histories.

### What is abstracted

* Time is counted in days. `datetime.now()` is taken to be monotone: a clock set back,
  or a local time zone with a summer time, is not modelled.
* Plans are told apart by their period; price, names, texts and layout are left out.
  A plan is never deleted, so the JOINs with `plans` lose no row.
* `start_at`, `created_at` and `payment_id` are never read by the program.
* A failed transaction leaves the table alone; which exception it raised is not told.
* Version 1 of the migrations has thirteen statements, two stand for them.
* Who is listed for a broadcast is any set of members, each once, in any order: a user
  has two listed rows only after `create_trial`.
* Polls have no effect on each other. Titles and texts of options are left out; an option
  is its index.
* In `Throttling` one user stands for all: cache entries and keys are per user. The
  clock is monotone, and a message's reading is taken when it arrives.
* In `Lifecycle` the configuration (`webhook_url` set or not) may change between two
  lives of the process; metrics server and session are resources the process's end frees.
* `create_trial` is called by no handler. `TrialUser` is the set of users it is called
  for: `{}` is the bot as deployed, and the runs of Subscriptions and of the loop's
  liveness include trial users because the sweep and the queries handle `trial` rows.

## Runs

Every run is exhaustive. The horizon stops every behaviour in the end, so deadlock is
not checked (`CHECK_DEADLOCK FALSE`).

| Run | Instance | What it shows |
|---|---|---|
| `table` | 2 users (one with trials), 2 tasks, plans of 1 and 2 days, grace 2, trial 2, 4 days, 2 rows, lag 1 | `Supersession`, `StatusMatchesDate`, `RowsMoveForward`, `SweepKeepsAccess`; `KeepsPromise`: Subscriptions implements AccessPromise |
| `reads` | 1 user, 3 rows | `AnswerWasTrue`: an access check answers what was true at some moment of the call |
| `loop` | 2 users, one of whom has trials and blocked the bot, plans of 3 days, 5 days, 2 rows, 3 faults, at most 1 midnight in a pass, under fairness | `RemindersAreTimely`, `StaleOnlyWithinPass`, `MarkedWasDelivered`, `RepeatsNeedMishap`, `LapseIsAnnounced`; `ReminderArrives`, `LapsedLeavesTheList` |
| `loop_once` | 1 user, 1 fault | violated: `OncePerSubscription` |
| `store` | 1 user, 2 tasks, 2 rows, 4 days | `MembersAreListedOnce`, `NoSaleBeforeLaunch`, `SectionsWereEarned`, `CancelWorksUntilEndDate` |
| `store_content` | 1 user, 1 task | violated: `ContentFollowsSubscription` |
| `polls` | 2 users, 2 handlers, 1 poll of 2 options, 1 fault | `AnswersAreTrue`, `ResultsAreHonest` |
| `panel` | 2 users (1 of them in `admin_ids`), both members, 3 messages, 2 attempts, 2 runs of a handler, 3 faults, 1 prompt each | `GuessesAreBounded`, `OnlyAdminsBroadcast`, `RepeatsNeedFailedReport` |
| `throttle` | 4 messages, limit 2 ticks, key 2 ticks (of `max_idle` 3), 6 ticks, 2 faults | `DroppedFollowsPassed`, `QuickRepeatIsExcused` |
| `callbacks` | base 3, 2 digits, all texts of 5 characters | `ParsesIdsExactly`, `ParsersAgree` |
| `migrations` | 2 releases, 3 faults, under fairness | `SchemaServesCode`, `RecordedWasApplied`, `RefusalNeedsFault`, `StartsUnlessTorn` |
| `lifecycle` | both modes, 3 signals, 3 faults, under fairness | `TornDownInOrder`, `PollingIsAlone`, `StopsUnlessHalfway`, `ServesAgain` |

The type invariants of `Subscriptions`, `Polls`, `Throttling` and `Lifecycle` are proved
and not run again; those of the other modules are invariants of their runs (that of
`Callbacks` would only say that `text` is a text).

Why the bounds are enough for the interesting cases:

* `GraceDays = 2`: the sweep puts a row in grace when `end_at` is before the clock and
  after the clock minus the grace days; in whole days a grace period of 1 leaves that
  interval empty, 2 is the least that does not. `Horizon = 4` lets a plan of 1 day run
  out, pass through grace and end, and lets its user buy again.
* two rows of one user and two tasks are what a race of two purchases needs; the third
  row of `reads` lets one purchase precede the check and two fall into it.
* `MaxLag = 1` lets midnight fall between a clock reading and its commit.
* in `loop`, plans of 3 days with `DaysAhead = 1` keep the window (2 days) smaller than
  the subscription, with a day to spare for one fault; `Period >= DaysAhead + MaxLag + 1`
  is what `LapseIsAnnounced` needs (with the deployed values 3 and plans of a month it
  holds by far; a plan of 3 days or less would be inside the window from its first day,
  and a lost day could then take it past its end unannounced). Three faults are what it
  takes to spend the window of two days and then fail a sweep, the case
  `RemindersAreTimely` is about. `MaxPass = 1` lets midnight fall at every await of a
  pass, so that an end date passes between the sweep and the message. With two midnights
  in one pass a day would begin no pass of its own, and `LapseIsAnnounced` fails: it is
  the property that needs `MaxPass <= 1`.
* in `store`, one plan that is on sale, off sale or not launched, and two tasks: one
  reads, the other or the operator changes what was read, the first shows it.
* in `polls`, two users and two handlers race for one poll, the second button of a user
  against the first and the results of one against the vote of the other; a second poll
  adds a copy of the same. One fault, of the database, of Telegram or a death, falls
  anywhere.
* in `throttle`, the third message may be dropped behind a second that got through behind
  a first, and a fourth overlaps. `MaxIdle = 3` with two ticks to the second makes
  `int(max_idle)` lose a tick, and the key die just when the limit is over: the least
  lifetime `LifetimeAssumption` allows, with 60 s against 0.5 s in the code.
* in `callbacks`, five characters hold two ids of the largest length and their colon, one
  digit too many, and every sign or space around a number.
* in `lifecycle`, three signals are one before polling, one during and one after; three
  faults kill the process, fail a start and end the polling.
* in `migrations`, three faults tear a migration, misread the versions and kill a start,
  in any order; two registered versions are the repeatable and the other one.
* in `panel`, three messages are what a user without rights needs to enter the dialogue,
  give the password and, after the button, send a text; or an administrator to have two
  texts under way. Users share nothing but the list of members. Two runs of a handler
  tell a first try, a retry and the end of the retries apart.

`AnswerWasTrue` needs a purchase not to be over before it is recorded. That is
`LagAssumption` of Subscriptions, `MaxLag < d + GraceDays` for every period `d`, which
TLC evaluates on every run: no operation takes as long as what it sells lasts.

### Fairness

`FairLoopSpec` assumes weak fairness of the loop's own steps (an asyncio task that is
ready is run: the event loop is first-in first-out; every await of the loop ends with a
result or an exception) and of the restart (`restart: always`). Nothing is assumed of
handlers, of the calendar or of Telegram: messages to `Blocked` users fail on every
pass, and other faults are limited by `MaxFaults` only in number, not in place.
`DayEnds` lets a day end at any await of a pass and in the sleep after it. It assumes that
the sleep of a minute is shorter than a day, so that a day does not go by between two
passes, and bounds the days that end during one pass by `MaxPass`, 1 in the runs. With the
process down days pass freely (`DayLost`, a fault each).

`Lifecycle` assumes weak fairness of the steps of `main`, of the polling task and of the
loop's end (the event loop runs a task that is ready, and the calls of a shutdown return
or raise), and of `Boot` (`restart: always`). Nothing is assumed of signals and faults;
`ServesAgain` speaks of the time when they are over.

`FairSpec` of Migrations assumes weak fairness of the steps of a start, `Boot` included:
the process runs, and the container starts it again. Faults are limited in number only.

### Findings

* `OncePerSubscription`: scheduler.py:20 says "once per subscription". The message is
  sent before the row is marked, and both are under one `try`; a lost confirmation, a
  failed mark or a death in between repeats the reminder. `RepeatsNeedMishap` is what
  does hold: one more message per lost mark and never otherwise, so the comment is right
  of every behaviour without a fault (`OnceWithoutFaults`, proved); `MarkedWasDelivered` is
  what the other order would lose.
* `ContentFollowsSubscription`: README.md:37 says subscription state decides what a
  subscriber can reach. `list_content` checks, `view_section` does not, and a section
  button outlives the subscription. `SectionsWereEarned` is what does hold: the button
  goes to members only, so every reader was one once (`ReadersWereMembers`, proved).

Some behaviour that no doc of the repository rules out, and a reader may not expect:

* a plan taken off sale can still be bought, through an old button or a list shown late
  (handlers.py:55-69 and `get_plan`, which ignores `is_active`). `NoSaleBeforeLaunch` is
  what does hold;
* a vote is taken on a closed poll, likewise (handlers.py:231-242, 250);
* a reminder may reach its user after the date it announces, if that date passes during
  the pass; `RemindersAreTimely` bounds it by that pass;
* in the grace period the button to cancel is shown and refused (handlers.py:187 and
  service.py:107), with `auto_renew` still 1. `CancelWorksUntilEndDate` ends there.

Three disagreements with docs can be read off the modules and have no run of their own:
README.md:35 says payment state drives access, but `Subscribe` activates at once and no
code touches `payments`; "Вы уже голосовали." (handlers.py:253) is also the answer to a
vote lost to a failing database (`InsertFails`, the exception in
`RefusalNeedsVoteOrError`); and the prompt of the broadcast asks for one message
(admin/handlers.py:133), but the state is cleared only after the report, so every text
sent before that is broadcast (`Dispatch` and `Clear` of AdminPanel).

`StopsUnlessHalfway` and `ServesAgain` are worth reading for `Halfway` and `Hung`. bot.py
waits for the polling **and** the event. In polling mode aiogram takes the signals over,
a signal ends the polling and does not set the event; the process then waits, with its
loop alone, until it is killed: in that state no other action of `main` is possible. The container's stop does that after
its timeout, without the cleanup. Under a webhook the shutdown is orderly.

`StartsUnlessTorn` is worth reading for what it excepts: death between `ALTER TABLE` of
version 2 and its INSERT makes every later start fail, which is a crash loop, not data
loss; README.md:39 ("the schema cannot lag the code") holds, as `SchemaServesCode`.

## Proofs

Assumptions: the named ASSUMEs of the modules. Of Subscriptions: periods, grace, trial,
window and lag are natural numbers, trial users are users, and no operation takes as long
as what it sells and its grace last (`LagAssumption`). Of Polls: a poll has an option.
Of Throttling: the limit is positive and the key lives at least as long. Of AdminPanel:
the gate allows at least one attempt, the middleware at least one run. Of Callbacks: a
base of two or more and at least one digit. Of ExpirationLoop:
the tasks that run at once are finitely many. Bounds are natural numbers. Nothing else is
assumed about the number of users, tasks, rows, polls, faults or messages. Two theorems
about the loop have hypotheses of their own, because they are about numbers:
`PlansOutlastLag` (`MaxLag <= d`) for `RemindersAreTimely`, `PlansOutlastWindow`
(`DaysAhead + MaxLag < d`, for every period `d`) and `PassesAreShort` (`MaxPass <= 1`) for
`LapseIsAnnounced`. The run `loop` satisfies them (1 and 2 against plans of 3 days), and so
does the bot (days_ahead 3 against 30, the default of `plans.period_days`; a pass of a few
messages).

`SubscriptionsProofs` proves, for `Spec`:

* `TypeCorrect`: `[]TypeOK`, from one lemma per table operator (`SweptTable`,
  `ActivatedTable`, ...) that says what it does to each row;
* `InvariantHolds`: `[]SubscriptionsInv`, the inductive invariant. `Supersession` and
  `StatusMatchesDate` are not inductive alone: a trial commit must know that its user
  is a trial user, and a sweep's commit that its clock reading is not of the future.
  `CallsAreRecent` says both of every call under way. From it `SupersessionHolds` and
  `StatusMatchesDateHolds`;
* `RowsMoveForwardHolds` and `SweepKeepsAccessHolds`, action properties, from the
  invariant and the `...Effect` lemmas, which say what each committing action does;
* `KeepsPromiseHolds`: `Spec => KeepsPromise`. `TickEntitlement`, `ActivateEntitlement`,
  `TrialEntitlement` and `SweepEntitlement` compute the entitlement after each kind of
  step, `PromiseSteps` puts them together.

The modules above cite from it `StepInv` (the invariant is kept by every step), `RowKept`
and `RowNew` (what a step may do to a row, what a new row looks like), and `LatestExists`
with `NewestFound` (the row `get_subscription` orders first exists).

`MembersProofs` proves, about the two modules that extend the table for its readers:

* `AnswerWasTrueHolds`. The query uses a cutoff computed from an older clock reading. Its
  answer is that of the table at the commit and the calendar at the reading, which may
  have been true together at no time. `ChecksLived` is what saves it: every row that
  would satisfy the stale cutoff is one that was there, alive, at some moment since the
  check began. A row bought meanwhile is alive when it appears, by `LagAssumption`.
* `StoreInvariant`: the inductive invariant of the handlers. `CallsMatch` says that a
  handler inside an operation is inside the one it called, `ButtonsEarned` what a user
  had been when a button was sent to her and that its plan had been on sale, `HandlersEarned`
  the same of the handlers that are about to send one, those with a keyboard read long ago
  included, `RowsEarned` of the rows that came of them.
* From it `MembersAreListedOnceHolds` (together with `Supersession`, which leaves a user
  one open row when nobody has trials), `NoSaleBeforeLaunchHolds`,
  `SectionsWereEarnedHolds` and `CancelWorksHolds`. `ReadersWereMembers` is what is true
  where `ContentFollowsSubscription` is not: who reads a section was a member once.
* `StoreImplementsTable`: every step of the handlers is a step of Subscriptions or leaves
  its table alone (`StoreStepIsStep`), so the refinement carries over to them
  (`StoreKeepsPromise`).

`PollsProofs` proves `AnswersAreTrueHolds` and `ResultsAreHonestHolds`. Neither is
inductive alone. `OneVoteEach` is what the UNIQUE constraint keeps, `CommittedFirst` says
that a handler about to show results has its vote in the table, `ShownAreIn` that the
results shown are part of today's: votes are never deleted, so any two results of a poll
are ordered.

Its second half is about Callbacks: `ParsesIdsExactlyHolds` and `ParsersAgreeHolds` are the
two properties of the run for texts of any length. They need no stronger invariant; what
they need is induction over the digits, and the library's induction and recursion theorems
take a predicate or an operator, which the provers cannot instantiate. So it has its own,
with sets and functions in their place: `StrongInduction` (the least natural outside a set
would be in it, by the well-foundedness of `<`), `Induction` from it, and `Recursion`: a
function given by a step from a smaller argument exists (its value at `n` is that of any
approximation that reaches `n`, and they agree). The defining equations of `Power`,
`Decimal` and `Number` follow (`PowerStep`, `DecimalStep`, `NumberAppend`). On these rest

* `DecimalSaysIt` and `DecimalIsShort`: the text of an id says that id, within the limit
  on digits; so no id below `Base^MaxDigits` has a button that is refused;
* `NumberIsBelow` and `LeadingZeros`: an accepted text says an id below that bound and is
  that id's text behind zeros; so no two ids share a text;
* `IntReadsDigits` and `VoteCuts`: on digits `int()` strips nothing and sees no sign, and
  with digits on both sides `split` finds the one colon (`VoteRead`).

`ButtonsComeBack` puts the two directions together, from the keyboard through the button
to the handler. `IdsAreRowids` is about the code's own values, 10 and 18: what the strict
parser returns is below 10^18 and so binds as a key of the database. `vote`, whose `int()`
has no limit, is outside it.

`ThrottlingProofs` proves `DroppedFollowsPassedHolds` and `QuickRepeatIsExcusedHolds`.
`BehindPassed` carries the first: Redis is asked only when the cache says so, and the
cache holds the time of a message that got through (`CacheIsOf`). `Fresh` carries the
second: a message that is not excused was alone under way, so when it is handled the
cache and the key are at least as new as it is, until the key expires; whoever is close
behind it reads one of them, or is late.

`LifecycleProofs` proves `TornDownInOrderHolds` and `PollingIsAloneHolds` with `Stages`:
which mode each point of `main` belongs to and what it has set up and not yet torn down
there.

`ExpirationLoopProofs` proves `LoopTypeCorrect`, `MarkedWasDeliveredHolds`,
`RepeatsNeedMishapHolds` and the action property `StaleOnlyWithinPassHolds`, for the loop
and the handlers together. Every step is one of `Subscriptions` or leaves its variables
alone (`LoopStepIsStep`), so the invariant of the table carries over; `OnlyMarkMarks` says
that no other step touches a mark. `MessagesAreCounted` is the inductive form of the
count: at most one message more than mishaps for a row that is marked or about to be, and
none more for any other; with no faults there are no mishaps (`OnceWithoutFaults`). It
needs `QueueIsUnmarked`, or a row could be sent twice from one snapshot.
`NewestAtSnapshot` carries the last: a row of the snapshot is active, so by
`Supersession` it had no active successor then, and nothing becomes active again
(`RowKept`). `RowsFit` says that the bound on insertions keeps every row within the
counts.

Two more depend on the numbers. `RemindersAreTimelyHolds`, under `PlansOutlastLag`: after
the sweep of a pass no active row ends before the clock which that sweep read
(`SweptIsOpen`), since no purchase is over when it is recorded, nor does a row that is
bought later in the pass; the snapshot lies within the window of the clock the query read
(`QueueIsTimely`), and the three clocks, sweep, query and message, are in order
(`ClocksAreOrdered`), however many days lie between them. `LapseIsAnnouncedHolds`, under
`PlansOutlastWindow` and `PassesAreShort`: an active row that
can be announced and is not has cost a fault for each day of its window gone by, today's
too if the loop has passed it over (`DaysCostFaults`); today is here the day of the pass
under way (`LoopDay`), which the calendar leaves by one day at most before the pass is over
(`DayByDay`). It enters the table before its
window begins, so it cannot start in debt; every day on which the process is up
begins a pass, which sends or pays, and every day it is down is a fault; so a row that gets into grace unannounced has
cost more than `DaysAhead` (`GraceCostWindow`). `LoopImplementsTable` and
`LoopKeepsPromise` carry the refinement over to the loop.

`MigrationsProofs` proves `MigrationsTypeCorrect`, `SchemaServesCodeHolds`,
`RecordedWasAppliedHolds` and `RefusalNeedsFaultHolds`, for any number of deaths. `Progress`
says what a start has done so far: what it has skipped or applied is in effect, and of the
migration in hand the statements counted by `step`. `Untorn` says that, as long as there
was no fault, nothing else is in effect but what is recorded, so that no statement is
refused.

`AdminPanelProofs` proves `PanelTypeCorrect`, `GuessesAreBoundedHolds`,
`RepeatsNeedFailedReportHolds` and `OnlyAdminsBroadcastHolds`. `SendersAreAdmins`: a
broadcast under way is an administrator's, since no task survives a restart.
`ComparedIsCounted`: a password is compared and counted in one step. `Copies` bounds what
each member got by the runs of the handler: a run that has not reached a member yet comes
after reports that failed.

Each of these invariants was checked with TLC on the instance of the module's run before
it was proved.

Only model-checked: liveness under fairness (`ReminderArrives`, `LapsedLeavesTheList`,
`StopsUnlessHalfway`, `ServesAgain`, `StartsUnlessTorn`), which the prover does not treat
at all. Every other property of a passing run is a theorem.

## Plan

Done, in this order: AccessPromise, Subscriptions, AccessReads, ExpirationLoop,
Storefront; the proofs about Subscriptions and the refinement; Migrations, AdminPanel;
Polls, Throttling and Lifecycle with their proofs; Callbacks; the proofs about Migrations,
AdminPanel and ExpirationLoop; those about AccessReads and Storefront, the timing of
reminders, and the refinement carried over to loop and handlers; those about Callbacks.

Next: `parse_admin_ids` and the required settings, read once at start.

## Not modelled

* Metrics, logging, tracing, Sentry: they observe; no decision of the program depends on
  them.
* Navigation: how a menu is laid out and edited. Which buttons a message carries is in
  Storefront and Polls.
* Webhook, bot and router wiring: construction of library objects, once.
* Payments shim: re-exports of a library nothing in the program calls.
* Repository tooling (`scripts/`, `.github/`): checks of files at build time, each a
  sequential pass over texts, with no state of the bot.
* The libraries (aiogram, botkit-core, SQLAlchemy, Redis) beyond what the code relies on.
