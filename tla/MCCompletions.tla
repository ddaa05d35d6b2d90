---------------------------- MODULE MCCompletions ----------------------------
(***************************************************************************)
(* Long histories of one attempt and what the platform makes of evidence,  *)
(* in one instance for TLC: the completion of the program, achievements,   *)
(* their notifications, and the catalogue of tasks the program is made of. *)
(* A behaviour is one of the part that is chosen at first; in the other    *)
(* parts ProgramCompletions stays as it is and the variables that are      *)
(* declared here are off.                                                  *)
(***************************************************************************)
EXTENDS ProgramCompletions, TLC

CONSTANTS
  Parts,           \* "program", "grants", "sources", "notices", "runs",
                   \* "edits", "checks"
  u1, u2, t1, t2,  \* trainees and tasks
  Metrics, Percents, Procs, MaxWrites, MaxManual, MaxErrors,
  Events, Secret, MaxLost,
  Runs, Dirs, MaxOrder, MaxChanges,
  Tabs, Workers,   \* requests of one employee, Celery workers
  Checks,          \* run ids of the checks of one attempt
  None

\* u1 passes two tasks and a rerun of t2; u2 has t1 from before
\* technical_passed_at existed.
MCAttempts == {<<u1, t1, 1>>, <<u1, t2, 1>>, <<u1, t2, 2>>, <<u2, t1, 1>>}
MCHistoric == {<<u2, t1, 1>>}

VARIABLES
  part,
  percent, finished, source, award, journal, receipts, manual_ops, writing,
  job, user_lock, journey_lock, errors,
  granted, delivery, revoked, claim_token, leased, tab, shown, expired, lost,
  files, catalogue, run, clean, changes,
  row, ops, lastOp, runs, lastRun, checkRuns, docker, queue, work, request,
  dog, sweep

grantVars == <<percent, finished, source, award, journal, receipts, manual_ops,
               writing, job, user_lock, journey_lock, errors>>
noticeVars == <<granted, delivery, revoked, claim_token, leased, tab, shown,
                expired, lost>>
syncVars == <<files, catalogue, run, clean, changes>>
checkVars == <<row, ops, lastOp, runs, lastRun, checkRuns, docker, queue, work,
               request, dog, sweep>>

Awards == INSTANCE Achievements
Notices == INSTANCE AchievementNotifications
Sync == INSTANCE TaskSync WITH tasks <- catalogue

\* Two tabs check one environment twice.
Attempt == INSTANCE AttemptLifecycle WITH
  Ops <- {"start"}, Runs <- Checks, ReviewChoices <- {TRUE}, job <- work,
  tab <- request

Off(v) == v = "off"
GrantsOff ==
  /\ Off(percent) /\ Off(finished) /\ Off(source) /\ Off(award)
  /\ Off(journal) /\ Off(receipts) /\ Off(manual_ops) /\ Off(writing)
  /\ Off(job) /\ Off(user_lock) /\ Off(journey_lock) /\ Off(errors)
NoticesOff ==
  /\ Off(granted) /\ Off(delivery) /\ Off(revoked) /\ Off(claim_token)
  /\ Off(leased) /\ Off(tab) /\ Off(shown) /\ Off(expired) /\ Off(lost)
SyncOff == Off(files) /\ Off(catalogue) /\ Off(run) /\ Off(clean) /\ Off(changes)
ChecksOff ==
  /\ Off(row) /\ Off(ops) /\ Off(lastOp) /\ Off(runs) /\ Off(lastRun)
  /\ Off(checkRuns) /\ Off(docker) /\ Off(queue) /\ Off(work)
  /\ Off(request) /\ Off(dog) /\ Off(sweep)

SuiteInit ==
  /\ part \in Parts
  /\ Init
  /\ part # "program" => active = Tasks
  /\ part \notin {"grants", "sources"} => GrantsOff
  /\ part # "notices" => NoticesOff
  /\ part \notin {"runs", "edits"} => SyncOff
  /\ part # "checks" => ChecksOff
  /\ CASE part = "program" -> TRUE
       [] part = "grants" -> Awards!Init /\ finished \subseteq {1}
       [] part = "sources" -> Awards!Init
       [] part = "notices" -> Notices!Init
       [] part \in {"runs", "edits"} -> Sync!Init
       [] part = "checks" -> Attempt!Init

\* "grants": one metric corrected twice and staff operations.  "sources": two
\* weeks and no staff.
AwardsNext ==
  /\ Awards!Next
  /\ part = "grants" =>
       finished' \subseteq {1} /\ writing' \in {<<>>, <<1, 70>>, <<1, 96>>}
  /\ part = "sources" =>
       manual_ops' = 0 /\ \A m \in Metrics : writing' # <<m, 70>>

\* "runs": two runs of sync_tasks at a time.  "edits": one that authors disturb.
SyncNext ==
  /\ Sync!Next
  /\ part = "runs" => changes' = 0
  /\ part = "edits" => \A q, r \in Runs : "idle" \in {run'[q].pc, run'[r].pc} \/ q = r

SuiteNext ==
  /\ UNCHANGED part
  /\ part # "program" => UNCHANGED vars
  /\ part \notin {"grants", "sources"} => UNCHANGED grantVars
  /\ part # "notices" => UNCHANGED noticeVars
  /\ part \notin {"runs", "edits"} => UNCHANGED syncVars
  /\ part # "checks" => UNCHANGED checkVars
  /\ \/ part = "program" /\ Next
     \/ part \in {"grants", "sources"} /\ AwardsNext
     \/ part = "notices" /\ Notices!Next
     \/ part \in {"runs", "edits"} /\ SyncNext
     \/ part = "checks" /\ Attempt!Next

suiteVars == <<part, vars, grantVars, noticeVars, syncVars, checkVars>>
SuiteSpec == SuiteInit /\ [][SuiteNext]_suiteVars

Symmetry ==
  UNION {Permutations(S) : S \in {Tabs, Workers, Checks}}

-----------------------------------------------------------------------------
(* The properties of the parts, each stated in its module; those of the    *)
(* completions are the ones of ProgramCompletions themselves.              *)

\* An award is what its append-only journal makes of it, nothing automatic
\* grants again what staff revoked, and a superseded metric cannot hide behind
\* an award.  Two tabs show one notification only after the first one's lease
\* ran out, and a read one was shown by the tab it names.
RecordsTrue ==
  /\ part \in {"grants", "sources"} => Awards!RecordsTrue
  /\ part = "notices" => Notices!RecordsTrue

\* An automatic grant rests on the metric as it is when the grant commits, and
\* an operation writes the journal at most once, whatever is retried.
GrantsJustified ==
  [][(part \in {"grants", "sources"})
     => Awards!GrantIsFresh /\ Awards!OperationIsNew]_suiteVars

\* A strict run of sync_tasks that reports success leaves every directory with
\* its row, another run at the same time or not; an undisturbed run over
\* complete directories whose orders nobody else claims succeeds.
SyncedCatalogue ==
  part \in {"runs", "edits"} =>
    Sync!TypeOK /\ Sync!SyncedCatalogue /\ Sync!UncontestedSucceeds

\* What a success says is passed on: the last one completes the program, and
\* the attempt tells of its check what the ledger of the checks does, also
\* when a second check overtakes the first.
SuccessesRecorded ==
  /\ LastSuccessCompletes
  /\ [][part = "checks" => Attempt!EvidenceMatches']_suiteVars
==============================================================================
