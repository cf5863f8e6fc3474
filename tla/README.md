# A formal model of domainbot

domainbot watches domain names and registers them at Dynadot the moment they
become free. It is one long-running daemon, a command-line tool that writes to
the same SQLite database, and a registrar on the other end of HTTP requests that
may time out. A mistake here costs money: a name bought twice, bought at the
wrong price, or bought and then forgotten. This directory holds TLA+ modules
translated from the program's source (`src/domainbot`), the TLC configurations
that check them on small instances, and theorems that TLAPS proves for every
value of the constants. `PROJECT.json` maps each definition to its source lines.

## 1. Inventory of the system

| Part | State | Operations | Correct when |
| --- | --- | --- | --- |
| State machine (`state_machine.py`) | none | `validate_transition`, `apply_transition` | no caller meets a transition the table refuses |
| Domain store (`models.py`, `database.py`) | table `domains`: status, `next_check_at`, window, counters, `last_error`; `registration_attempts`, `availability_checks` | sessions of the other parts | status and `next_check_at` agree |
| Scheduler (`scheduler.py`) | nothing but its coroutine | `recover`, `run_once` (expire, select, search, register, reschedule) | windows close, open windows are searched, nothing ends the loop |
| Availability service (`services/availability.py`) | history of checks | `check_domain` with retries, pruning | a failed search changes no decision |
| Registration service (`services/registration.py`) | `RegistrationLock` (local) | price check, dry run, lock, Register, confirmation | at most one Register at a time, none after a purchase, each outcome recorded |
| Dynadot client (`dynadot/client.py`) | none | `search_domain`, `register_domain`, `confirm_registration` | a verdict only when the answers justify it |
| API queue (`dynadot/queue.py`) | priority queue, worker task, time of the last request | `start`, `call`, `close` | one request at a time, in priority order, each caller answered |
| Time utilities (`utils/time.py`) | none | daily windows in local time | next window neither skipped nor repeated |
| Operator commands (`cli.py`) | none | `add`, `import`, `remove`, `pause`/`stop`, `resume`, `run`, `daemon`, read-only commands | a command never harms what the daemon has under way |
| Notifications, configuration, string helpers, logging | none that is read back | | out of scope, see section 8 |

How they interact. `domainbot daemon` runs one coroutine: `recover`, then
`run_once` for ever. Each cycle opens short database sessions; between them it
awaits the API through the queue, and in that time nothing protects the row it
works on. Commands are processes of their own over the same tables: `pause` and
`resume` assign a status without the state machine, `resume` then runs `recover`
over *every* row in its own process, and `run` searches and registers a row from
its own process with its own queue. systemd restarts the daemon whenever it ends.

What is hard here: sessions of two processes that interleave around an await; a
lock that is a status in a table and survives its holder; an outcome of Register
that is unknown; a confirmation that is itself answered badly; one session that
moves all rows and can be stopped by one; windows that end at any moment. The
list with source lines is `hazards` in `PROJECT.json`.

## 2. Modules

```
DomainStatus            the statuses and the transition table
  DomainStore           the shared state, processes, control flow of a session
    DomainScheduler     recover, run_once, check_domain
    RegistrationService handle_available, confirm_uncertain_registration
      DomainBot         both, with the commands and the environment; properties
        MCDomainBot     small instances
        DomainBot_proofs  type correctness, the lock, a dry run
          RegisterBudget_proofs    the attempt counter bounds the requests
          RegisteredIsOurs_proofs  a registered row is owned
            Purchase_proofs        purchases; DomainBot implements Acquisition
              NoFailure_proofs     no exception ends the daemon
Acquisition             abstract specification that DomainBot implements

DailyWindow             daily windows in a zone that changes its offset
  TimedScheduler        the daemon with its clock; implements DomainBot
    MCTimedScheduler    small instances
    TimedScheduler_proofs  windows, sleeps, turns; it implements DomainBot
      EveryWindow_proofs   no daily window goes by unwatched

APIQueue                the priority queue of API calls; implements SerialServer
  MCAPIQueue            a small instance
  APIQueue_proofs       one request at a time, overtaking, close, spacing;
                        it implements SerialServer
SerialServer            abstract specification of the queue
```

The three families meet in two places. `DomainBot` leaves open which row is due, how
long the daemon sleeps and when a window ends: `TimedScheduler` decides it with numbers,
and its property `ImplementsDomainBot` shows that every timed behaviour is one of
`DomainBot`. A process of `DomainBot` waits for one call at a time, so what it needs of
the queue is that a call is sent at most once (`SendRegister` counts one request per
lock), also when its caller is gone (`Crash` at `register`): that is `SerialServer`.

| Variable of DomainStore | In the program |
| --- | --- |
| `row[d]` | the row of `domains`; `next` is `next_check_at` (NULL / the start of a window that has not begun / a time that may have come), `price` is `last_observed_price` against `max_price`, `simulated` the dry-run marker in `last_error` that `recover` tests |
| `phase[d]` | now against `start_at` and `window_end`: before, open, over |
| `reg[d]` | who holds the name: free, ours, other |
| `late` | names with an abandoned Register that Dynadot may still process |
| `sent[d]` | history variable: Register requests sent |
| `pc`, `job` | where each of the two processes (`daemon`, `cli`) is, and its locals: the row, the quote of the search, the last reply, the attempt count read under the lock, registrations still to confirm, `--dry-run` |

An action is one database session, or one reply of the API: these are the
points between which the coroutine awaits something. `_begin_registration` is
the exception and has two actions, `LoadForRegister` and `CommitLock`, because
its SELECT takes no database lock and the other process may commit in between;
this is the one session whose exclusivity the design relies on. Sessions that
only read before an await are merged with the await that follows. A session that
raises is rolled back and ends its process (`Raise`); the daemon is then at
`failed`, until `Start`.

| Program point (`pc`) | Waits for | Action |
| --- | --- | --- |
| `recover`, `confirm`, `confirmed` | the session of `recover`; a confirmation's replies; its session | `Recover`, `ConfirmReply`, `FinishConfirmation` |
| `loop`, `select`, `start` | `_expire_due_windows`; `_select_due_domain`; the session before the search | `ExpireDueWindows`, `SelectDueDomain` / `NothingDue`, `StartCheck` |
| `search`, `resched`, `backoff`, `mark`, `previous` | the search; the session after it | `SearchReply`, `SearchFails`, `ScheduleNextCheck`, `ScheduleAfterFailure`, `MarkAvailable` / `RunMarksAvailable`, `RegisterPreviouslyAvailable` |
| `available`, `lock`, `commit` | the price check; the lock | `CheckPrice`, `MarkSimulated`, `LoadForRegister`, `CommitLock` |
| `register`, `registering`, `finish`, `uncertain` | the request; its outcome; its session | `SendRegister`, `RegisterReply` / `RegisterTimesOut` / `RegisterGarbled`, `FinishRegistration`, `MarkPendingConfirmation` |

| Variable of TimedScheduler | In the program |
| --- | --- |
| `now`, `zone` | the clock in UTC and the local clock, whose offset changes at one instant |
| `daily[d]` | `daily_start_time` |
| `row[d]` | status, `start_at`, `window_end`, `next_check_at` |
| `pc`, `cycle`, `picked`, `previous` | where the daemon is, and the locals of `run_once`: `current`, `domain_id`, `previous_next` |
| `wait`, `retries` | what is left of a sleep or of a request, retries of `check_domain` |
| `aim`, `since`, `searched`, `bypassed` | history: what `next_check_at` stands for, when the daemon was started, the last check of each row since then, rows served since a row was due |

| Variable of APIQueue | In the program |
| --- | --- |
| `call[c]` | the future of a caller's call |
| `queue`, `stops` | `_queue`: the calls in the order they were put, and the stop items |
| `closed`, `task`, `worker` | `_closed`, `_worker_task`, and where each worker task is with the item it holds |
| `since` | time since `_last_request_started_at`, up to the interval |
| `closing` | the worker `close` waits for |
| `passed` | history: less urgent requests started while a call was queued |

The tasks of one process share an event loop. An action of `APIQueue` is what one of them
does between two awaits that suspend it: `call` puts its item before it first suspends,
and a worker that is done with a request takes the next item in the same step.

The environment: windows open and end (`Tick`), names are dropped and taken
(`Drop`, `Snipe`), an abandoned Register is processed (`LateRegister`), processes
are killed and started (`Crash`, `Start`). What may fail is the constant `Faults`,
where a process may be killed `CrashPoints`, what the operator may enter
`Commands`: every property names the environment it survives.

## 3. Abstractions

- *Time* is the phase of each window. `run_once` compares rows with one reading of
  the clock, so `Tick` does nothing while the daemon is at `select` or `start`.
  Whether a `next_check_at` in an open window has come is left open, and any due
  row may be the earliest. A rolled-over daily window lies ahead. One of a day or
  longer (`"always"`) is open at once, or, when the day repeats an hour, lies ahead
  within that hour (`RolledPhases`, from `current_or_next_daily_window_start`).
- *Timed sessions* take no time: time passes while the daemon sleeps, waits for a reply
  (`ReplyWithin`) or a retry (`Delays`), or is down. A zone changes its offset once, by
  a day at most (`IsZone`); a wall time that happens twice or never is resolved with the offset before the change, as
  `fold=0` has it. Short windows that start in the skipped or the repeated hour are
  excluded (`Steady`, a condition of the initial rows): there the code's window drifts or, in the repeated hour,
  is rolled over to itself in a loop without a sleep (hazards at `utils/time.py:51` and
  `scheduler.py:219`). All-day rows may start there.
- *The first window* is the one `_parse_start` computes from what `--start` gave:
  nothing, a time of day, or a date, past or to come (`FirstStart`, `DailyTime`). Times are
  whole units: that `daily_start_time` drops the microseconds of a start at "now" is not
  modelled.
- *Price* is within the limit, over it, or not quoted.
- *Replies* are what they mean to the client. The account's answers to a
  confirmation are truthful; that they are missing, refused, unreadable or match a
  longer name is a fault.
- *Other sessions* (all but the lock's) are atomic: a lost update between the SELECT and
  the COMMIT of one of them is not modelled.
- Rows are not removed or added after the start; `disabled` and `taken` are
  statuses of the table that no code assigns, and `enabled` is never cleared.

Bounds: `Domains`, `MaxAttempts`, `Prices`, `Faults`, `Commands`, `DryRuns` and
`CrashPoints` of each `.cfg`. `sent` is bounded by `MaxAttempts` (that is
`RegisterBudget`) in the runs without `run`, and by the fact that each request is
counted in the others; no state constraint is used. In `TimedScheduler`, `Horizon`
bounds the clock and `MaxSleep` stands for the sixty seconds a sleep may take; in
`APIQueue`, `Calls` and `Workers` bound the callers and the worker tasks that are alive or
dead, which are used again.

## 4. Runs

| Run | Instance | Shows |
| --- | --- | --- |
| `daemon` | two rows (once, all-day), 2 attempts, five faults, no dry run, restarts outside the lock, fairness | `NoForgottenPurchase`, `NoDuplicatePurchase`, `NoUnhandledError`, `PendingLeftOnlyByVerdict`, `TerminalIsFinal`, `SuccessIsRecorded`, that DomainBot implements Acquisition, and `WindowCloses`, `OpenWindowIsSearched`, `LockReleased` |
| `commands` | one row of a window that never ends, all commands, seven faults, kills outside the lock | `LockHasOwner`, `RegisteredIsOurs`, `DryRunSendsNothing` |
| `faults` | one daily row, all nine faults, kills at every point, all commands that do not register | `RegisterBudget` |
| `queue` | a Register and two searches, an interval of 2, two worker tasks, callers cancelled and the queue closed at any time | `OneRequestAtATime`, `OvertakenAtMostOnce`, `CloseDrains`, `RequestsSpaced`, `CallsAreServed`, `CloseReturns`, and that APIQueue implements SerialServer |
| `clock` | an all-day row from a date on, a daily row from a time of day on and a once row from a date on, over two days of nine hours, in four zones (no change, an hour lost, one hour and two hours gained), with slow replies, retries and restarts | `BypassedAtMostOnce`, `NeverOversleeps`, `SelectedInWindow`, `GapWithinRepeatedHour`, `EveryWindowWatched`, `NextWindowIsNext`, `NoCatchUp`, and that TimedScheduler implements DomainBot |

Why these bounds suffice: rows interact only through the sessions that move all
of them (`recover`, `_expire_due_windows`) and through the selection, for which two
rows of different schedules give every combination (an all-day row may roll over to
whatever a short daily one may); a second attempt is where duplicate purchases, stale
counters and the exhausted counter first appear; the commands act on one row, and one process runs one command at a time. The `commands`
run uses the row whose window never stays over, so the daemon keeps meeting the
operator. Of the queue's calls two priorities and two calls of one priority are
what overtaking and order need, and two worker tasks are one that ends and one that is
started after it. The clock's day is just long enough for the daily window to hold a check
of every row and for its gap to outlast one check, and at least one unit of time
(`Watchable`, without which `EveryWindowWatched` promises nothing), the rows are added at every hour of the first day, and
the second window of the daily row, after the change of the offset, ends within the
horizon. One zone gains two hours: the gap of an all-day row is shorter than what is
gained, so that a gain of one unit would leave none to see. The date of the all-day row
lies ahead of the rows added before the last hour of the first day, and falls into the hour
the zones skip and repeat on the second; that of the once row is past for most of the times
at which the rows are added, in its window or beyond it, and to come for the others. A row
added without a start, and an all-day row added with a time of day, are left to the proofs:
their windows are reached in this run by rollovers. The simulated registrations of a daemon
in dry-run mode are met in the `commands` run.

### Runs that TLC refutes

Seven configurations each check one statement of `DESIGN.md` that the code does not
keep. TLC gives a short trace for each.

| Run | Property | What happens |
| --- | --- | --- |
| `refused` | `WatchedIsScheduled` | nothing fails, somebody else is faster: the refused row is `watching` with no `next_check_at`, and nobody searches it again until its window ends or the daemon restarts |
| `garbled` | `NoForgottenPurchase` | a reply to Register that is not JSON ends the daemon with the row `registering`; `recover` then watches it without asking whether it was bought |
| `crash` | `NoUnhandledError` | a daemon killed during Register: once the window is over, `recover` raises at every restart, for all rows |
| `pause` | `SuccessIsRecorded` | `pause` during Register: the success cannot be written over `paused` |
| `run` | `SecondRequestExits` | `run` writes `available` over `registering` while the daemon's Register is under way, and its own request passes the lock |
| `refusal` | `PendingLeftOnlyByVerdict` | three confirmation commands refused with an error code count as "not registered" |
| `spacing` | `SpacedFromCompletion` | the safe interval is counted from the beginning of the cycle, not from the completion of the search: after a slow one the next check comes too soon |

The passing runs leave out exactly what these show: `daemon` has no `garbled`, no
`refusal`, no commands and no kill inside the lock, and `NoCatchUp` of the `clock` run
counts from the beginning of one check to the beginning of the next.

## 5. Fairness

Liveness is checked under `FairSpec`: weak fairness of the daemon's coroutine and of a
command's (every await ends: sessions commit, and `dynadot_timeout_seconds` bounds
each request), weak fairness of `Start` (`Restart=always` in
`deploy/domainbot.service`), and strong fairness of selecting each row: a row that stays
due keeps its `next_check_at`, while every row served before it is moved at least
`dynadot_min_safe_interval_seconds` ahead or cleared, and the earliest is served
first. The `clock` run shows this with numbers: a row that is due is passed over at most
once for each other row (`BypassedAtMostOnce`). Nothing is assumed of the operator, the windows or the registry. The
daemon may be killed again and again, but not at `recover`: a process that never gets
through its first session makes no progress. `OpenWindowIsSearched` says that a
row which keeps its turn (`Expected`) in a window that stays open is searched again and again
by a daemon that is killed no more from some time on.

## 6. Proofs

Every safety property a passing run checks is also a theorem, for all values of the
constants. A theorem about `DomainBot` states as
an assumption which faults, commands and crash points it excludes; each exclusion is one
that a violation run of section 4 needs, or that the code does not defend against. Beyond
those, the proofs rest on the ASSUMEs of `DomainStore`, `APIQueue`, `DailyWindow` and
`TimedScheduler` (types of the constants), and on nothing else.
Each is one inductive invariant, one lemma per action, one step per disjunct of `Next`.

### The daemon, its rows and the account (`DomainBot`)

| Theorem | States | Provided |
| --- | --- | --- |
| `TypeCorrect` | `TypeOK` | |
| `LockOwned` | `LockHasOwner` | Register's answers are readable, no kill inside the lock |
| `BudgetKept` | `RegisterBudget` | no `run` command |
| `DryRunKept` | `DryRunSendsNothing` | |
| `RegisteredOwned` | `RegisteredIsOurs` | no confirmation matches a longer name |
| `PurchasesKept` | `NoForgottenPurchase`, `NoDuplicatePurchase` | `Undisturbed` |
| `PendingKept` | `PendingLeftOnlyByVerdict` | no commands, no refused confirmation, no Register processed late |
| `SuccessKept` | `SuccessIsRecorded` | no commands, no kill between the answer and its session |
| `TerminalKept` | `TerminalIsFinal` | no commands |
| `AcquisitionImplemented` | `ImplementsAcquisition` | `Undisturbed`, no longer name |
| `NothingUnhandled` | `NoUnhandledError` | no commands, `HandsKept` |

`LocksKept` says that no lock is left behind: a reply to Register can be read, and no
process is killed inside the lock. `Undisturbed` adds that there are no commands, no refused
confirmation and no Register processed after it was given up, as in the `daemon` run;
searches, Registers and confirmations may fail, time out or be rejected in every way left.
`HandsKept` adds to `LocksKept` that the daemon is not killed with an available row in its
hands (at `available`, `lock` or `commit`): recover would meet that row after its window, as
`crash` shows for the lock. What is not excluded may happen: a registered row is final and a
pending one waits for its verdict even if the daemon is killed anywhere, again and again,
and replies are garbled. `PendingKept` does need that no Register is processed late: it may
be between the question and the session that records the answer.

- *Types.* `TypeOK` is not inductive: `CommitLock` writes `seen + 1` attempts, and the
  actions of a row read `row[job[p].d]`. `Working` adds that a process at a working point
  works on a row.
- *Lock.* Only `CommitLock` makes a row `registering` (`StepStatus`, `DaemonStatus`,
  `OutsideStatus`), and then its process stands at `register` with that row
  (`CommitOwns`); an owner stays in the lock or moves the row on (`OwnerStep`), and nobody
  else moves its program counter (`StepOthers`, `DaemonOthers`, `OperatorOthers`).
- *Budget.* Between `CommitLock` and `SendRegister` an attempt is counted and not sent, and
  `CommitLock` writes a count read one session earlier. `BudgetInv` adds that no command
  comes to the lock (`OneRegistrar`), that the count the daemon holds is the row's when it
  is written (`SeenIsCurrent`), and that the requests sent plus the one counted and unsent
  are at most the attempts (`Counted`).
- *Dry run.* A process that had decided to register would go on to take the lock: `DryInv`
  keeps a dry one out of every point from that decision on (`RegisterPoints`).
- *Registered.* The status is written a session after the answer it rests on: `Evidence`
  says that a process with an affirming answer works on a name that is held. It holds when
  the answer arrives (`RegisterReplyAffirms`, `ConfirmReplyAffirms`, `VerdictIsTrue`) and
  lasts because nothing takes a name away from the account (`OursStays`).
- *Statuses.* `StatusInv` says that the row has not moved since the daemon looked at it
  (`RowAwaits`) and that the registrations still to be confirmed are uncertain
  (`ToConfirm`). The proof reads all actions as twelve kinds of step on statuses and holders
  (`Kinds`), two of which leave the lock behind (`Killed`) or come from a request given up
  (`Belated`); `StatusInv` survives all of them, and is all that `SuccessKept` and
  `TerminalKept` need. `PendingKept` adds that a verdict of "not found" is right until it
  is recorded (`Refutation`).
- *Purchases.* `NoForgottenPurchase` speaks of rows, and what breaks it happens between
  sessions. `PurchaseInv` adds to `StatusInv` that only the daemon's row is registering
  (`OneLock`, for which locks must not be left behind), and what the daemon knows when it is
  about to send or has been refused (`Denial`). `AcquisitionImplemented` maps the same kinds
  to the steps of `Acquisition`.
- *No exception.* On top of `StatusInv` and `OneLock`: each `CanApply` that could raise is met with a status the table has a way
  out of, because `Order` says what a status tells of the window (a row whose window is to
  come is scheduled, only a row watched once expires) and that an available row is either a
  simulated registration, which recover and the expiry skip, or in the daemon's hands.

### The clock (`DailyWindow`, `TimedScheduler`)

| Theorem | States |
| --- | --- |
| `TimedTypeCorrect` | `TypeOK` |
| `ServedInTurn` | `BypassedAtMostOnce` |
| `SleepsInTime` | `NeverOversleeps` |
| `SelectionInWindow` | `SelectedInWindow` |
| `AllDayCovered` | `GapWithinRepeatedHour` |
| `NextWindowFirst` | `NextWindowIsNext` |
| `WindowsWatched` | `EveryWindowWatched` |
| `ChecksSpaced` | `NoCatchUp` |
| `DomainBotImplemented` | `ImplementsDomainBot` |

They hold for any rows and plans, any length of the day, any zone that changes its offset
once (short windows outside the hour it changes, `Steady`), any start `add` takes, and any
delays, sleeps and horizon. First comes the
arithmetic: a wall time outside the shifted hour is one instant and ordered like instants
(`Unshifted`), `next_daily_window_start` is the least start after now (`NextWall`,
`NextIsLeast`), and `current_or_next_daily_window_start` is not over and has begun but for
the repeated hour (`AllDayStart`). The invariant `TimedInv` then says that a row is due
within its window, a short daily window keeps its time of day and a longer one is not far
ahead unless it is the first one, of a date that was given (`Windows`, `Begun`), that the cycle
works with the present reading of the clock on a row that was due (`InCycle`), that the
daemon wakes before anything is due (`Asleep`), that a planned check keeps the interval
(`Planned`), and that the rows which were served before `d` come after it now (`InTurn`,
with the cardinality of `Ahead(d)`), which is what bounds `bypassed`.

`WindowsWatched` is the strongest of them: it follows a row through the checks of all the
others. Its invariant `OnTime` (in `EveryWindow_proofs`) says, part by part,

- `Punctual`: a check ends at most `LongestCheck` after its cycle began; `Left` is what it
  may still take, with the retries that are left (`Retrying`), and no step of a check lets
  `now + Left` grow (`CheckGoesOn`);
- `Prompt`: the daemon is done with a check less than `LongestCheck` after the end of any
  window, so a window is rolled over that soon;
- `Nearest`: a row never holds a window beyond one that is still to come, from the date it
  was given on (`NoneBetween`, `Offered`);
- `Untouched`: a row not searched in its window yet is due at its start;
- `InHand`: a row whose window has begun (`Waiting`) is reached by `Latest`. `Turns` counts
  the rows that may still go before it. The others are `Behind` it: they are expired, due
  after it, or served in a cycle that began in its window; each selection of another row
  puts one more behind (`SelectInHand`), and no step brings one back (`BehindStep`);
- `Kept`: the windows before the present one were searched.

A window that is past is then before the row's own (`Kept`), or is it (`InHand`: `Latest`
lies in the window, `LatestInWindow`), or would have begun after the row was rolled over
(`Prompt` with `StartsApart`: two starts are a day apart, but for an hour lost): that is
`PastWindows`. What a check takes is a sum over the delays. That a sum exists and grows
with its index would be an induction; it is proved by the least index for which it fails
(`TotalExists`, `UpTo`).

`DomainBotImplemented` needs one more invariant, `Meant`: what `next_check_at` stands for
and what a status says of the window. `Aligns` says that a realigned row has the status of
its new phase; `RolledMaps` that the window it rolls over to is among `RolledPhases`; then
each action maps to the one of the same name, `Wake`, `SearchRetry` and `SendAgain` stutter,
and a tick moves every window by one phase at most (`TickMaps`).

### The queue (`APIQueue`)

`QueueSafe` states `TypeOK`, `OneRequestAtATime`, `OvertakenAtMostOnce` and `CloseDrains`,
`SpacingKept` states `RequestsSpaced`, `SerialServerImplemented` states
`ImplementsSerialServer`, for any calls, priorities, interval and workers. `QueueInv` says
that no worker but `_worker_task` is at work (`SoleWorker`); that without a worker nothing
is queued and nobody is waited for, and that a closed queue nobody waits for has no worker
(`NothingIsLeft`); that a queued call has been passed at most once, and not yet while a
worker sleeps with a less urgent one (`Overtaking`); and that a worker's sleep and the time
since the last request together reach the interval (`SleepsLongEnough`). For the refinement
`OnePlace` adds that a call is in the queue or with a worker, once. `MostUrgentExists`,
`RemoveAtProperties`, `RemoveAtNoRepeat` and `AppendNoRepeat` are what the proofs need of
the queue.

### What the proofs found in the model

- *An all-day row has a gap.* A property that such a row is in its window at every
  selection held on the small instance only because its hour of daylight saving was one
  unit of time. On a day that repeats an hour, the window before today's candidate is taken
  to begin a fixed 24 hours earlier (`utils/time.py:80-82`), up to the repeated hour too
  late, although `tests/test_core.py:412` tests a rollover "without_midnight_gap".
  `GapWithinRepeatedHour` states the bound (once the date of the row has come), the clock run has a zone that gains two units,
  and `DomainBot` lets an all-day window roll over to one that lies ahead.
- *A row may have to wait again.* `BypassedAtMostOnce` counted across rollovers, where it
  is false for some plans: a rollover sets a new `next_check_at`, behind which other rows may
  go first once more. It now counts while the window lasts.
- *A window that begins when another ends.* `NextDailyWindowAfter` takes a start strictly
  after now. Where a window ends at the very instant the next one begins (its gap is the
  hour that is lost) and the row is rolled over at that instant, the one that begins is
  skipped. A gap that outlasts a check left this open for checks that take no time; the
  proof of `PastWindows` failed there, and TLC found the trace in an instance whose requests
  take none. `Watchable` now asks for a gap of at least one unit.

## 7. Only model-checked

- All liveness (`WindowCloses`, `OpenWindowIsSearched`, `LockReleased`, `CallsAreServed`,
  `CloseReturns`): TLAPS as used here has no ENABLED, which fairness needs.
- The seven refuted statements, which TLC's traces show.
- That `NothingUnhandled` needs the daemon to work alone: with any one command added to the
  `daemon` run's instance TLC finds `NoUnhandledError` violated. `pause` and `resume` come
  between the session that marks a row available and the price check; `run`, dry or not,
  watches a row whose window is to come, which the next recover cannot schedule.

## 8. Not modelled, and why

The history and attempt tables, which the program writes and prunes but never reads;
notifications, which swallow their errors and change nothing; configuration, parsing,
normalisation and log redaction, which are pure; the read-only commands; the installer.
`remove`, and `add` or `import` after the start: a row id stands for one name in the models,
so what a session in flight does to a deleted row, or to another name's row with the same
id, is a hazard without a property. A second Ctrl-C, which cancels the queue's worker while
the process ends. The queues of two processes together: each process spaces only its own
requests.

## 9. Plan

1. Done: `DomainStatus`, `DomainStore`, `DomainScheduler`, `RegistrationService`,
   `DomainBot`, `Acquisition`; `APIQueue`, `SerialServer`; `DailyWindow`,
   `TimedScheduler`; their runs and the theorems above.
2. Row identity: `remove` and `add` during a registration.
