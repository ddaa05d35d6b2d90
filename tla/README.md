# Ticket Sandbox in TLA+

The Ticket Sandbox is a Django platform for the training of support engineers.  Trainees solve
tickets in Docker environments; mentors review their answers; a diary follows the trainee
through the stages of the adaptation; exams, achievements and a roadmap are built on the same
evidence; and a *trusted checker* is being prepared that will observe environments from
outside.  Nearly every operation is a request that reads rows without a lock, a transaction
that takes some, and slow calls (Docker, Celery, Telegram) between or after them.  This
directory models that in TLA+, checks it with TLC on small instances, and proves the properties
of the core with TLAPS for instances of any size.

## 1. The system

| Component | State | Operations | Hard behaviour |
|---|---|---|---|
| Environment start and restart (`sandbox/services/environments.py`, views) | `environment_status`, container names, `restart_count` | request, dispatch, worker run, commit, error marking | guards read without a lock; copies held during Docker calls; redelivery; crash between Docker and commit |
| Technical check (`checks.py`) | `check_status`, `technical_passed_at`, `CheckRun` | request, run in the container, teardown, result | late results; restart under a running check |
| Evidence ledger (`ledger.py`, `ledger_execution.py`, `ledger_evidence.py`) | append-only events, submissions, reviews, manifests, gaps | request, begin, finish, interrupt, submit, review, report | admission of one operation at a time; reports from many queries |
| Watchdog and cleanup (two management commands) | the rows they selected | select, mark, remove, save | stale selections, two transactions with Docker between |
| Celery broker, Docker | messages, containers by name | deliver, redeliver, lose; create, exec, remove | late and early acknowledgement, a name in use |
| Broker mode (`terminal_lite.py`), terminal broker (`terminal/broker_v2.py`) | stage, generation, journal, sessions | run a stage, resume, take over, reap; connect, exec, relay, recover | crash between two stages, lost advisory lock, shells that outlive the broker |
| HTTP observations (`http_observations.py`, Docker pilot) | runs, pinned identity, verifier containers | request, dispatch, fences, probe, cleanup, commit | the target changes under the observation |
| Answers and reviews (views, `ledger.py`, `ai_reviewer.py`) | submissions, reviews, AI reviews | submit, review, AI review | repeated and concurrent forms |
| Attempt numbers, reruns, queue (`attempts.py`, `rerun_task`) | `attempt_number`, `is_current` | read, repair, create, rerun, announce | concurrent creation; order of commit callbacks |
| Program completion (`completions.py`) | completion snapshots | record after success, restore | two last successes at once; switched tasks |
| Achievements (`achievements/services`) | source events, awards, journal, receipts, notifications | publish, evaluate, grant, revoke, claim, acknowledge | two row locks in two orders, leases |
| Task synchronisation (`sync_training_tasks`) | `Task` rows, directories | dry run, strict run | two runs, unique orders |
| Assessment (`assessment/`) | exam attempts, snapshots, answers, bank | start, open, submit, complete, edit, compose, grade | two tabs and the clock, editors and starts at once |
| Trainee diary, roadmap (`traineediary/`, `roadmap/`) | card, visits, weekly metrics, schemes | create, move, rate, complete, edit, transfer, roll back | no row locks; two catalogs |
| Trusted checker (`trusted_checker_runtime`, `_live`, `_poc`, `_shadow`) | journals, leases, circuit | provision, create, start, observe, clean up, recover | deaths, lost answers, threads that outlive their calls |

How the core interacts: a view checks its guards on a row it read without a lock, then takes the
row lock of the attempt, registers the request in the ledger together with the change of
status, and sends a Celery message *after* the commit.  A worker asks the ledger for
admission, copies the row, calls Docker for minutes, and writes the result in a transaction
that first asks the ledger whether the operation is still open.  The watchdog (cron, every
five minutes) and the cleanup (cron, daily) close whatever is open in the ledger and repair
the row.  So correctness rests on three things: the ledger's admission, its "first close
stays" rule, and the second look each error handler takes at the locked row.  A passed check
records, in the same transaction, the completion of the program; completions, weekly metrics
and stage changes leave durable source events, from which the achievements are granted; the
roadmap and the readiness of a trainee are computed from card, history and completion whenever
they are read.

## 2. What is modelled

Modules of components, one for each row (or part of a row) above:

| Module | Models |
|---|---|
| `AttemptState`, `Environments`, `Checks`, `Maintenance`, `AttemptLifecycle` | one attempt: the row, the ledger, Docker, the broker queue and the memory of every process; requests, workers, watchdog, cleanup; their composition with delivery, redelivery, loss and crashes |
| `OperationLedger` | the abstract specification of the ledger of operations, implemented by `AttemptLifecycle`; it is checked as the refinement only, since its own properties follow from its guards |
| `WatchdogClock` | the watchdog against a clock: ages, threshold, cron period, the length of a run |
| `TerminalLite` | broker mode: persisted stages, generations, the advisory lock, cleanup, reconciliation and the reaper |
| `TerminalSession` | the terminal broker: connections, execs, the journal, recovery at a restart, revocation |
| `HttpObservations` | an observation from request to verdict with every fence of the adapter |
| `LedgerEvidence` | the writers of the ledger and the reports, query by query |
| `AnswerReview` | answers after the technical pass, mentor reviews, AI reviews |
| `TraineeAttempts` | `get_current_attempt`, reruns, availability, the dashboard's labels, the announcement to mentors |
| `ProgramCompletions` | the end of the success transaction, the restore command, administrators |
| `Achievements`, `AchievementNotifications` | source events, evaluation, grants and revocations; deliveries, claims and leases |
| `TaskSync` | `sync_training_tasks` beside a second run, an administrator and changing directories |
| `ExamAttempts` | exam attempts with row locks, deadlines and the deadlock of two lock orders |
| `QuestionRules`, `QuestionGrading` | validation, snapshots with every shuffle, grading, as operators over bounded questions |
| `QuestionBank` | requests of editors, the switches and moves of the bank, and the composition of an attempt query by query |
| `TraineeJourney`, `Roadmap`, `TraineeAssessment` | the card and its requests; the projection of the roadmap, with the accounts it asks for; progress, risk, attention and readiness day by day |
| `SchemeTransfer` | audit, transfer to the unified scheme, later work, changes of accounts, verification and rollback |
| `RuntimeAuthority`, `LiveRuntime` | the authority's journal and fences; the live runtime that uses them, check and call as two steps under the journal's lock |
| `PocBroker`, `ShadowRuns` | the proof-of-concept broker with its threads; shadow runs and their circuit |

**Transactions.** Where every writer takes the same row lock first (the attempt), a transaction
is one step; everything a process read before is kept in its own record and may be stale when
it is used.  Where the code takes no lock or several (diary, assessment, achievements,
completions, reports), a transaction is one step per statement, READ COMMITTED: a statement sees
what was committed when it starts and what its own transaction wrote.

**`AttemptLifecycle`.** `row` keeps the fields of `TaskAttempt` that decide anything: `status`,
`check`, `env`, `passed` (`technical_passed_at` is set), `started`, `container`, `attempts`,
`restarts`.  `docker` is the operation that created the container which now bears the attempt's
name.  `job[w]` is the task a worker executes, with the fields it copied; `tab[t]` an HTTP
request between its guards and its answer; `dog` and `sweep` the two commands between their
queries and their writes.  A request is three steps (guards, locked transaction, dispatch); an
environment operation is admission, removal, creation, terminal, commit, each Docker step with
a failing alternative, and three steps of error handling; a check is guard, admission, second
guard, execution, teardown, commit, and two steps of error handling.  `WorkerCrash`, `WebCrash`
and `SweepDies` may happen at any step, `Redeliver` puts the message of an environment task back
while it is being executed.  `TERMINAL_BROKER_ENABLED` is off (the default), HTTP observation
too; age is left to chance, which `WatchdogClock` makes up for.

**`AnswerReview`.** `subs` is the sequence of submissions with the verdict of their last review,
`reviewed` the review events, `ai` the AI reviews, `gaps` the recorded gaps, `form[t]` a request of
the trainee between its unlocked look-up, its draft, its submission and its clean-up.  A text is
a body and whether white space surrounds it, because the ledger, the row and the look-up of the
AI review compare it differently.

**`QuestionBank`.** `start_exam_attempt` counts the families of each quota (`CountFamilies`,
`ValidatePool`), runs one query per quota and loads `Question` objects (`Select`), and then reads
the rows of each loaded question (`SnapshotNext`); between any two of these an editor may save a
question, or an administrator switch or move a family.  The type is the one that was loaded, the
rows are those of the moment, and the snapshot is validated with both.  An element of `Editors` is
one request, from the page it was made from to its save.

**`LiveRuntime`.** A fence commits its dispatch, then opens a second transaction, looks at the
controls again (`PassCreate`, `PassStartTarget`, `PassStartRunner`) and makes the call while it
still holds SQLite's write lock (`CallCreate`, `StartTarget`, `StartRunner`).  The switch, the
approval and the binding are rows and wait for that lock; the stop is a file and the deadline a
time, so both may come between the two steps.  Who waits longer than a second gets an error
(`LockTimeout`).

**The others** keep, in the same way, one record for each row and each process at work, and one
action for each statement, call or callback.  A comment above each action names the function.
Faults (deaths, lost answers, lost sessions, lost callbacks, errors) are actions of their own,
counted against a named bound.  Row types carry the names of the models and their validators
(`ExamAttempt`, `AchievementEvent`, `Journey`, ...), and the type invariants use them.

**Data.** Names, ports, URLs, texts, digests, signatures, pages and logs are left out, or are
members of small sets where something compares them.

## 3. What TLC checks

Ten passing runs and two that refute a sentence of the documentation.  Models that share no
state are checked together in one *suite*: the suite's module extends one component's module
(whose variables are the suite's own), instantiates the others on variables it declares, and
chooses a `part` at first; a behaviour is one of that part, and the variables of the other parts
are `"off"`; `MCLedger` only instantiates.  A property of a suite is the conjunction of its parts' properties, each guarded by
its part; every conjunct is stated and explained in its own module.  Every conjunct has been
broken by at least one mutant of the code (`PROJECT.json`, several mutants for one property).

| Run | Parts and bounds | Distinct states | Properties |
|---|---|---|---|
| `attempt` | 1 tab, 2 workers, 3 operations | 755 000 | `TypeOK`, `OneAdmittedOperation`, `SingleExecutor`, `RestartCountMatches`, `ReadyHasContainer`, `ReadyNeverFails`, `LedgerImplemented` (refinement of `OperationLedger`) |
| `watchdog_liveness` | 1 tab, 1 worker, 2 operations, 1 check, with and without a review, fair watchdog | 277 000 | `EvidenceMatches`, `WatchdogEnds` |
| `ledger` | reports over 2 checks, 2 operations, 2 submissions with a review each (2 writes during the read), a program of 2 tasks, a past before the ledger, and a quiet mixture | 791 000 | `ReportsTrue` |
| `answers` | 2 texts, a blank one, 2 form keys, 2 review keys, AI context; one request at a time, and 2 that overlap while no AI review ends; 2 requests about 3 attempts of a task; a queue of 2 tasks with one request at a time and no deletions | 472 000 | `PassedIsSubmitted`, `DecisionProjected`, `AIReviewsOfVersions`, `AIDecisionInLedger`, `ResultsCounted`, `AttemptsKept` |
| `completions` | 2 users, 2 tasks, a rerun, a historic attempt, 2 switches; 2 tabs, 2 workers and 2 checks of one environment; 2 metrics, 2 evaluators, 2 staff operations, 1 error; 2 notifications, 2 tabs, 2 lost answers; 2 runs of `sync_training_tasks` over 2 directories | 1 042 000 | `CompletionProven`, `SnapshotIsComposition`, `SuccessesRecorded`, `RecordsTrue`, `GrantsJustified`, `SyncedCatalogue` |
| `terminal` | threshold, period and length of a run 2 up to time 9; a start, a reset, 2 workers, 2 cleanups, 1 fault, with 1 lost session and without; 3 connections for 2 slots, 3 broker restarts, 2 faults; 2 observations, 2 workers, 2 environments, 1 reboot, 1 crash | 1 943 000 | `BusyEnvironmentBounded`, `RunningCheckBounded`, `NothingLeftBehind`, `ShellsKept`, `VerdictsStand` |
| `assessment` | 2 tabs, 2 questions, 2 attempts; questions with 3 rows; 2 requests of editors during a start of 2 draws; a start of 2 draws over 4 questions of 3 families and 2 skills while 1 family and 1 question move and switches change; both entry types, 91 days | 1 397 000 | `ExamsFair`, `ExamsComposed`, `JudgementsAgree`, `TimeOnlyAdds` |
| `diary` | one request at a time with 4 visits and 2 weeks; 2 requests with 3 visits or 2 weeks; the roadmap with 4 visits, 2 confirmations and one account that loses its flag or is deleted; a transfer of 2 cards, one damaged, or of 1 card with one other change (an account, a metric) | 1 741 000 | `HistoryAgrees`, `TransferSafe`, `ProofsOnlyGrow` |
| `trusted` | 2 processes on one target and one run; 1 process on 2 targets and 2 runs without stops, revocations and deadlines; 2 broker runs on one target; 2 callers of 2 shadow runs with one payload, or with two and no deaths; 1 fault | 793 000 | `ContainersAccounted`, `ShadowKept`, `StopsAndResultsStand` |
| `progress` | broker mode, sessions, exams, sources, notifications, observations, fair | 78 000 | `WorkEnds` |
| `passed_reopened`, `repeated_answer` | 2 tabs and 2 workers; 2 requests | violated | sentences the code does not keep (section 5) |

All instances set `CHECK_DEADLOCK FALSE`: ids and faults are bounded, and a system whose users do
nothing more has nothing to do.

**Bounds.** Three operations are an interrupted one, its successor and a cleanup, which is the
longest chain in which one operation disturbs another; two workers give a repeated delivery
and two different operations at Docker at once; two checks give a late result of one after the
registration of the other.  Two requests and two form keys give a repeated form after a newer
version, two review keys a correction and the repetition of the form before it.  Three attempts
of a task are the current one, its rerun and the rerun's collision.  Two faults are a fault and
one in its repair.  Two actors suffice elsewhere, since no rule of the code counts beyond the
actor itself and "another one".  The values of quality, speed and days lie on both sides of each
target.  In a transfer, `MaxTogether` allows two cards, or one card and one change
of an account or of another row, since the fingerprints compare each table by itself.  The
roadmap has one account of the staff: what changes of it can undo is in bounds, a second one acts
by the same rules.  Symmetry permutes ids, workers, tabs, keys, texts and requests, and is not used with
liveness.

**Fairness.** `watchdog_liveness` takes only the four actions of the watchdog as fair: cron starts
it every five minutes, and it handles every row it selected.  Nothing is assumed of workers, the
broker, the web process or the cleanup.  The query skips an attempt with a technical pass and a
check on a failed environment, and the properties say so.  `progress` assumes what the operating
system, PostgreSQL and Celery give: a message that stays in the queue is delivered and a row lock
that is free again and again is granted (strong fairness of `Served`, weak fairness of `Locked`),
a process that runs takes its next step (`Proceeds`), timers, leases, weeks and commit callbacks
come (`Elapses`), and the broker's loop, Docker's restart policy, a writer that has its locks and
the repair command go on (`Continues`).  Workers may still die, where the code survives it, and
faults happen up to their bound; an observation whose worker dies is excepted, since nothing in
the code finishes it.

## 4. What is proved

TLAPS proves of the life of an attempt, for every finite set of operations and checks and any
sets of tabs and workers:

- `TypeCorrect`: `Spec => []TypeOK`.  `TypeOK` alone is not inductive, since the broker's queue
  receives ids from the processes: `TypeInv` adds that a process at a step that uses an
  operation (or a check) holds the id of one.
- `ImplementsLedger`: `Spec => LedgerImplemented`, the refinement, with `restarts` mapped to
  `row.restarts`.  It rests on two facts about any step of the ledger, `AppendOnly` (events are only
  added) and `AdmittedAlone` (whatever becomes admitted is the only open operation).
- `OneAdmitted` and `RestartCountCorrect`: `OneAdmittedOperation` and `RestartCountMatches` of the
  detailed model.
- `EvidenceCorrect` and `ExecutedOnce` (`AttemptProofs`): `EvidenceMatches` and `SingleExecutor`.
- `ReadyContainer` and `ReadyStays` (`AttemptProofs`): `ReadyHasContainer` and the action
  property `ReadyNeverFails`, from one description of what any step may do to the environment in
  the row (`RowMoves`).

The inductive invariant `OpInv` of the refinement and of the two theorems after it joins the
processes with the ledger: nobody holds the id of an operation that was not requested
(`KnownRequested`); a worker past admission has its started event (`WorkingStarted`); no two
workers are past the admission of one operation (`OneEnvWorker`); the copied `restart_count` of a
worker is current *while its operation is open* (`CopyCurrent`); the operation the cleanup closes
is its own (`SweepAdmitted`).  `CopyCurrent` is the heart of it: a worker writes `copy + 1` minutes
after it made the copy, and this is right only because nobody else can be admitted before its
operation is closed, and nothing is written once it is closed.  Each action is shown to be a
step of the ledger together with three small facts about what it does to ids, jobs and the
cleanup (`Moves`), and `MovesPreserve` derives the invariant from these facts alone.

`RunInv`, in the same module, does this for checks: a run somebody holds was
requested (`RunsRequested`), only a finished event points to a `CheckRun` row (`StoredClosed`), a
worker past `begin_check` has its started event and is the only one there (`CheckStarted`,
`OneCheckWorker`).  A commit is then the only step that stores anything, of a run that had
nothing stored, so counts and sets grow together; every other step is `RunsQuiet`.
`ExecutedOnce` needs both invariants, since operations and runs share the workers.

Of the reports on the ledger (`LedgerEvidenceProofs`), for any tasks, any numbers of executions,
operations, submissions, reviews and faults, and any number of writes that commit between the
SELECTs of one report:

- `FirstCheckIsTrue`, `ResetsAreTrue`, `ProgramResetsAreTrue`, `PastIsNotTrusted`, `QuietIsComplete`
  and, with the hypothesis below, `AnswersAreTrue`.  Two invariants carry all of them.  `Recorded`
  is about the writers: what really happened (`ran`, `remade`, `verdict`) is what the rows of the
  ledger say, unless a gap or an event without a result says otherwise (`ChecksRecorded`,
  `OpsRecorded`, `AnswersRecorded`); nothing is there before its attempt (`NothingBefore`); what is
  older than the ledger stays marked (`PastKept`); and without faults nothing speaks against an
  attempt (`QuietLedger`).  `Reading` is about a reader that has made some of its SELECTs: *for
  each answer it has so far, there is a moment of the read at which that was true* (`ChecksSeen`,
  `ResetsSeen`, `ProgramSeen`), or nothing was written since (`QuietSeen`).  A write adds a moment
  and takes none away, and only closes what was open; a SELECT has to find the moment again, which
  it can since the rows are append-only and since an open event selected earlier is a reason in the
  report, whatever became of it later.
- `AnswersTrue` itself carries a hypothesis, `FewWrites`: at most one write commits during the read,
  or nothing was written past the ledger.  It is needed: with three writes during the read and two
  submissions TLC finds the property without it violated.  An administrator changes the decision
  after the gaps were selected, then a submission and its review commit before the submissions
  are.  The report lists the new submission and not the gap, so the returns it gives are those of
  no moment.  (With two writes TLC finds it to hold also without the hypothesis, which is no
  theorem.)  `AnswersSeen` says how far it holds.  The other reports need no such bound.

Of the watchdog (`TerminalProofs`), for any set of attempts, threshold, cron period and length of
a run with `RunTime <= Period`:

- `ClockTypes`, `EnvironmentsBounded` and `ChecksBounded`: an environment is busy, and a check
  running, for no longer than the threshold, a period and the length of a run.  `ClockInv` says
  why: the command is punctual (`Punctual`), and a row that is old enough when a run begins is on
  the run's list or has moved on (`EnvironmentsSeen`, `ChecksSeen`), so that whoever exceeds the
  bound would have been seen by the run before.

Of completions (`CompletionProofs`), for any users, tasks, attempts and number of switches:

- `CompletionsProven`: a stored completion rests on evidence of every task of its snapshot; and
  `SnapshotsAreCompositions`: the snapshot is the composition of the active queue at the commit.
  `ProofInv` adds what a transaction knows between its reading and its commit: before it decided it
  holds no candidate (`UndecidedEmpty`), after that it holds the queue row, and its candidate is the
  composition, proven by what it sees (`DecidedHolds`), and the same for the restore command
  (`RestoreHolds`).

Of `AnswerReview`, for any sets of requests, keys, texts and notes (`AnswerReviewProofs`):

- `TypesCorrect`, `VersionsUnique`, `PassedText` and `DecisionInRow`.  With the types they are
  inductive together: a draft is only written while the status is neither on review nor passed,
  and a decision is only written for a text equal to the latest version, in the step that makes
  it that version's last verdict.
- `AIReviewsMatch` and `AIDecisionsRecorded`.  `AIInv` adds that the last verdict of a version is an
  event (`LastIsEvent`), needed because a repeated verdict makes no event and yet copies its
  decision, and that an event is about a version (`EventOfVersion`).  `WithDecision` chooses the
  newest AI review of a text; that there is one follows from the well-foundedness of the
  naturals (`LargestIndex`).

Of a trainee's queue of attempts (`AnswerReviewProofs`), for any length of the queue, tabs and
requests:

- `EndAnnounced` and `CurrentKept`.  `NumbersInv` says that at most one attempt of a task is current
  (`Tidy`, `RowsHold`), that requests and commit callbacks are about tasks of the queue
  (`RequestsHold`, `CallbacksHold`), and, when every credit attempt has passed and nothing was lost
  or deleted, that a callback of a credit attempt is under way until the mentors were told
  (`Announced`): the last callback to run counts the results of all.  Each action is shown to keep
  results and current attempts of every task (`RowsMove`, `Keeps`), and the rest follows from that.

Of the terminal broker (`TerminalProofs`), for any numbers of connections, slots and faults:

- `ShellsAccounted`.  `SessionInv` adds to the property that the process is in the journal before
  the bootstrap is acknowledged (`JournalAhead`), that recovery runs alone (`ThreadsServed`), and
  that a shell whose thread left keeps the place of its slot, since no thread is admitted any more
  (`SlotsKept`).

Of the HTTP observations (`TerminalProofs`), for any numbers of runs, workers, resets, restarts of
the target, faults and crashes:

- `SuiteVerdictsStand`.  `HttpInv`: the starts of containers only go forward, and a worker that has
  an answer has seen its target at or after the start the run pinned (`WorkerSaw`), so an inspection
  that finds the pinned start again after the probe vouches for the whole time between; a run has
  a verdict only at its end and with no verifier left (`RunKept`), and what a worker made and
  whether it may still come late is known at every one of its points (`WorkerMade`).

Of broker mode (`TerminalProofs`), for any finite set of operations and any numbers of workers,
containers, faults, lost sessions and cleanups:

- `SuiteNothingLeft`.  `LiteInv` follows the generations: what exists is of one that the row names
  (`Everything`), what is replaced is older and retired before it is forgotten, and a generation that
  is retired while it is current is being cleaned up, with nobody building it (`Generations`); the
  outcome in the ledger and the stage go together, and generations are never more than operations
  that have one (`LedgerBooks`).  A worker that lost its session still works for a known generation,
  and destroys none that anybody builds (`WorkerBooks`); what the holder of the lock has reached is
  what the stage says (`HolderBooks`).  `SoundInv` adds, where no session is lost, that nobody works
  without the lock and that what the holder made is still there when it publishes.  Most steps leave
  the operation of the row alone (`QuietStep`); those that do not are shown one by one (`Kept`).

Of exams (`ExamProofs`), for any number of tabs, questions and attempts, and any window and limits:

- `ExamFair` and `ClockStarted`.  Beside the types, `ExamInv` needs only that a request posts to a
  question of the attempt (`PostedQuestion`) and that an attempt in progress has no result
  (`ResultOnlyAtEnd`): the transactions look again at whatever the request read before them.

Of the card, its readiness and its attention (`ExamProofs`), for any days and any figures of the
weeks:

- `SuiteJudgementsAgree` and `SuiteTimeOnlyAdds`.  `CardInv` says what a card may hold: a stage of its
  program, two counters of days, the week's figures and an override.  The rest is arithmetic on
  the weights of the stages: a share of progress stays between the values at which its stage and
  the next one start (`FiguresRounded`), so progress does not fall when the stage changes either.

Of the composition of exams (`ExamProofs`), for any editors, questions, families, skills and quotas:

- `AttemptComposed` and `BreakdownComplete`.  A family may be moved to another skill, and a question
  to another family, between two draws of one start; the code does not compare what it drew for
  different quotas, and then the same family, or the same question, comes twice: TLC finds
  `ComposedAsPlanned` violated without its `~start.moved`.  `DrawInv` says of a start what it has
  drawn for the quotas that are done, in the state in which each was drawn (`Planned`), that its
  snapshots are copies of that, each valid with the loaded type (`Copied`), and, as long as nothing
  was moved between two draws, that what was drawn stays apart from what is drawn next (`Apart`,
  `Unmoved`).  `BreakdownComplete` needs that the slugs of the blueprint's skills differ.
- `LoneEditorValid`.  Requests overlap when one is saved after another request was, since it opened
  its page; `stale` records it, and `Overlapped` says that such a request was saved.  Requests one
  after the other, however many, are not excused.  `EditInv`: a page nothing was saved since shows
  what is stored, and what was posted from it was validated and compared with that (`Compared`).

Of the trusted checker (`TrustedProofs`), for any numbers of runs, callers, targets and faults:

- `ShadowSafe`, `KillFirst` and `ReportFinal`.  `ShadowInv` keeps the books of a run: no call is made
  twice or before its intent (`CallsBooked`); intents are unresolved while they are open and so is
  whatever may exist (`StageOrdered`).  A coordinator between an intent and its call is the only one
  there (`IntentsOwned`), one run at a time has anything left (`OneBusy`), and a verdict that is about
  to be written is of the enrolled target (`VerdictSame`).  Every action is shown to move one run
  and at most one coordinator (`StepAtOne`).
- `BrokerSafe` and `BrokerFinal`.  `BrokerInv` says of a run what its late thread may still do: a run
  that was not admitted has left no trace (`Untouched`); a container that exists or may still
  appear has its intent, and a thread on its way to the create call has made none
  (`ContainerBooked`); both hold the lease of their target (`Leased`); and a verdict on its way to
  the store is of a probe without a restart of the target (`VerdictBooked`).
- Of the live runtime, what a stop does (`LiveCalls`).  Nobody passes the last check once the runtime
  is stopped or the deadline has passed, so that the only call still to come is of the one process
  that had passed it and holds the lock (`Held`); and what that process was checked against in the
  journal, the switch, the approval, the binding and the phase, cannot have changed at the call.
  Nothing more is promised: the file of the stop does not wait for the lock, and a container may
  be created or started just after it.  The proof-of-concept broker likewise starts no runner of a
  finished run, but its thread may still create one.
- `LivePromises`: one create and one start of a container at most, nothing that may exist off the
  books, one target and one run at a time, and verdicts of the enrolled target. `LiveInv` has the
  books of an object (`LiveBooked`: a cleanup is owed from the dispatch on and confirmed only of a
  container that is gone; `Counted`: a call is dispatched, made, and then executed or lost, once;
  `Ordered`: which phases follow which documents); the recorded probe lies between the baselines
  and the present, and at the baselines once the observation after it agreed (`Measured`), since
  generations never go back; what a process at a point may rely on although others write between
  its transactions (`Vouches`), above all that nobody else is about to make its call
  (`OneCaller`); and that one admitted target and one admitted run may still have a container
  (`OnePending`), which is where the breaker and the rule of admission meet the books. `Stable`
  says once what any process keeps of its assurance when an object moves on as objects do
  (`LiveFollows`); each action then only shows that it moves its object so.

Of the synchronisation, awards and notifications (`CompletionProofs`):

- `SyncComplete`.  `CatalogueInv`: while a run is undisturbed, so is whoever is at work
  (`QuietTogether`), and an undisturbed run knows the directories, the order it is about to save and
  the rows of the directories it has visited (`Informed`), which nothing takes back (`RowsKept`).
- `AwardsTrue` and `GrantsFresh`.  `AwardsInv`: an evaluation that read the metrics under the lock of
  the journey still has them right (`JourneyHeld`), and the award is the fold of its journal, with
  one entry that granted it last (`Explained`).
- `NoticesTrue`.  `NoticesInv`: a row whose lease never ran out is bound to the tab that claimed it
  (`HeldByOne`), and a tab works on a row that exists and that it was shown (`Working`).

**Suites.**  `ShellsOfSuite`, `SuiteExamsFair`, `SuiteResultsCounted`, `SuiteAttemptsKept`,
`SuiteRecordsTrue`, `SuiteGrantsJustified`, `SuiteCatalogueSynced`, `SuiteShadowKept`,
`SuiteStopsStand`, `SuiteContainersAccounted`, `SuiteVerdictsStand`, `SuiteNothingLeft`,
`SuiteJudgementsAgree`, `SuiteTimeOnlyAdds` and `SuiteReportsTrue` state these results as the runs check them, of the suite's specification: a step of the suite while its part
is chosen is a step of the component (possibly restricted), so the component's invariant holds
while the part lasts.  `SuiteReportsTrue` (`LedgerSuiteProofs`) cites the theorem about any
bounds for each of the six readers of the suite, which `MCLedger` instantiates together with their
proofs; its part about answers has the hypothesis of `AnswersTrue`.

Assumptions on the constants: the id sets are finite and disjoint and do not contain `None`; the
blank text is a text and `HasContext` a Boolean, as are the review choices; attempts are numbered rows of users and tasks;
the claim of a provisioning is not that of a run; threshold, period and length of a run are positive and a run ends before the next is due; the
blueprint of an exam is one its validators accept (`ExamBlueprint`); a queue has at least one task;
metrics are a finite set of positive numbers; limits and bounds are natural numbers (the `Limits`
of each module); and the names of processes and tabs differ from those of nobody.

**Only model-checked.** The liveness properties `WatchdogEnds`, `SuccessesRecorded` and `WorkEnds`
(fairness is out of the prover's reach); the grading in `ExamsComposed`, which folds over the rows
of a question (induction over data is out of its reach too), while the other parts of that property
are proved; `TransferSafe`, whose audit asks whether a step is possible; and what the diary says of
its own history, `HistoryAgrees` and `ProofsOnlyGrow`, whose requests merge the fields they write
into the card and read the history with folds: the provers unfold neither.

## 5. Where the code and its documents disagree

Two runs show a sentence of the documentation violated:

- `passed_reopened` (`PassedNotReopened`): `models.py` says of `technical_locked` that ordinary start
  and restart must not return such an attempt to work.  The views test it on a row they read
  without a lock and nobody tests it again: a restart in flight while a check passes reopens the
  attempt.
- `repeated_answer` (`OnReviewShowsLatest`): `SANDBOX_EVIDENCE_LEDGER.md` (section 5) says that an old
  submission repeated after a return does not bring the old version back.  Two requests with one
  form can both find its key unused; if the second gets the row lock after the answer was
  returned, replaced by a new version and returned again, it puts the old text on review.  Nobody
  can then decide: the text is not the latest version, and the trainee cannot send an answer that
  is on review.

The modules state more of the kind, and none of them is part of a passing run.  Put as the only
property into a configuration of the module (with the bounds of its part in section 3), TLC
finds each violated:

| Property | Said | Done |
|---|---|---|
| `AttemptLifecycle!PassedNotReset` | `CHANGELOG.md:395`: the cleanup does not touch attempts with `technical_passed_at` | the cleanup decides on a copy refreshed before its lock; a pass in between is written back to NEW (`cleanup_task_containers.py:91`) |
| `AttemptLifecycle!LostCheckIsDetected` | `ARCHITECTURE.md:460`: the watchdog restores the database when a worker broke off | a check that loses its worker on a failed environment is selected by neither query |
| `AttemptLifecycle!RestartFindsNameFree` | `ARCHITECTURE.md:379`: a restart removes the old containers | it removes the ones the row names; a container whose creator failed before the commit keeps the name |
| `WatchdogClock!OnlyOldIsMarked` | `detect_stuck_attempts.py:40`: how old a state must be to count as stuck | under the lock only the status is tested: an operation admitted since the query is failed (`:161`) |
| `AnswerReview!AIReviewCarriesDecision` | `SANDBOX_EVIDENCE_LEDGER.md:126`: review, mentor fields and AI review are saved together | a draft that differs by white space passes the ledger's comparison and finds no AI review |
| `TerminalLite!ReadyIsLive` with a lost session | the header of `terminal_lite.py` | after its only fence a worker without the advisory lock removes the pair a redelivery published |
| `TerminalLite!ReaperReaches` | `terminal_lite.py:301`: late answers of the daemon are reconciled | a container created after the pinned one was removed has another id and is never found |
| `TraineeAttempts!RerunAfterFinish` | `test_rerun_attempt.py:189`: no rerun of an attempt that is not current | `rerun_task` reads its guards before its lock: two requests make two attempts |
| `TaskSync!DryRunPredicts` | `sync_training_tasks.py:203`: what would be done | the dry run does not compare orders; applying it ends in an `IntegrityError` |
| `ExamAttempts!ResultSaved` | `assessment/views.py:177`: "the result is saved" | an invalidated attempt counts and has no result |
| `ExamAttempts!AvailableStarts` | `assessment/views.py:193`: the test is ready to be taken | the card does not compare the level; the start does |
| `QuestionBank!BreakdownPerSkill` with a shared slug | `models.py:169`: a slug is unique within a topic | the breakdown is keyed by slug alone |
| `TraineeJourney!OneOpenVisit`, `ResultOnFinalStage`, `QualityFrozen` with two requests | messages of `integrity.py` and comments of `models.py` | two moves, a move and a completion, or a move and a rating overtake one another |
| `TraineeJourney!FinalStageHasResult`, `FirstVisitAtStart` | messages of `integrity.py` | the forms allow both |
| `LedgerEvidence!AnswersTrue` without `FewWrites`, 2 submissions and 3 writes during the read | `SANDBOX_EVIDENCE_LEDGER.md:69`: a change of protected facts by another writer leaves a gap, and makes no sending or decision up | the report selects the gaps before the submissions (`ledger_evidence.py:22`): a gap made in between is missed, and a submission and a review after it are not |
| `LiveRuntime!EndedNeverStarts` | `recovery.py:90`: a terminal state cannot start | the second transaction of `start_fence` does not test the phase |

## 6. Hazards without a property

`PROJECT.json` lists the hazards of the code with the properties that cover them.  Two of the
list are the first and the fourth row of the table above: the code loses there, and no passing
property can say otherwise.  Smaller ones are not listed: a successful check removes the
containers by name before it knows whether its result is accepted (`checks.py:205`; the containers
of a refused check go too, which the next start repairs), a crash skips the best-effort cleanup
after a submission (`views.py:668`; the daily cleanup collects the container), and a lost worker
leaves an AI review pending (`tasks.py:104`; the mentor decides without it).

## 7. Not modelled

- *Network and physical evidence of the trusted checker*: parsers and validators of captured
  packets, counters and netlink dumps, with fakes for the kernel.  Their subject is byte formats,
  not state that changes.
- *Frontend, deployment scripts, experiments, training tasks*: assets, one-shot scripts and
  exercise content.  The Docker adapter of the pilot, though under `experiments/`, is part of
  `HttpObservations`, and the audit of the transfer, though under `deploy/`, of `SchemeTransfer`.
- *Lists, filters, layouts and wording* of dashboards and administration; Telegram messages beyond
  the announcement that all tasks are done.
- *Details of Docker*: images, limits, ports, networks.
- *A start of an exam* while its blueprint or quotas are edited, or while a drawn question is
  deleted; the level of a question changes as its status does and is taken with it.
- *The accounts of trainees* stay; accounts of the staff come, change and go.
