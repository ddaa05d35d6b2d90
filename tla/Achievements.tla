---------------------------- MODULE Achievements ----------------------------
(***************************************************************************)
(* Grants of one weekly achievement (review_quality) to one employee:      *)
(* mentors who save weekly metrics, the durable source events, the         *)
(* processes that evaluate them (the wake after a commit, the management   *)
(* worker and reconcile_achievements), and staff who grant and revoke.     *)
(*                                                                         *)
(* Two row locks order them.  A writer of metrics holds the journey row    *)
(* and inserts a source event, which needs a KEY SHARE lock of the user    *)
(* row; an evaluation holds the user row (FOR NO KEY UPDATE) and then the  *)
(* journey row.  A grant or revoke by staff holds the user row.            *)
(***************************************************************************)
EXTENDS Naturals, Sequences, FiniteSets, FiniteSetsExt, SequencesExt

CONSTANTS
  Metrics,      \* WeeklyMetric rows of the journey, positive numbers
  Percents,     \* values of quality_percent mentors write
  Procs,        \* processes that evaluate
  MaxWrites,    \* bound on metric writes
  MaxManual,    \* bound on manual operations
  MaxErrors     \* bound on failed evaluations

Nobody == "nobody"
Writer == "writer"
NoMetric == 0

VARIABLES
  percent,      \* quality_percent of each metric, 0 when the row is missing
  finished,     \* metrics whose week is over
  source,       \* AchievementSourceEvent rows, in order of their id
  award,        \* UserAchievement
  journal,      \* AchievementEvent rows
  receipts,     \* keys of AchievementOperation and of disputes
  manual_ops,   \* manual operations requested so far
  writing,      \* the metric write in progress: <<metric, value>> or <<>>
  job,          \* what each process is doing
  user_lock,
  journey_lock,
  errors

metricVars == <<percent, finished, source, writing>>
grantVars == <<award, journal, receipts>>
vars == <<metricVars, grantVars, manual_ops, job, user_lock, journey_lock, errors>>

Idle == [stage |-> "idle", event |-> 0, metric |-> NoMetric, value |-> 0]

Init ==
  /\ percent = [m \in Metrics |-> 0]
  /\ finished \in SUBSET Metrics
  /\ source = <<>>
  /\ award = [rank |-> 0, auto_grant_blocked |-> FALSE, evidence_disputed |-> FALSE,
              revision |-> 0]
  /\ journal = <<>>
  /\ receipts = {}
  /\ manual_ops = 0
  /\ writing = <<>>
  /\ job = [p \in Procs |-> Idle]
  /\ user_lock = Nobody
  /\ journey_lock = Nobody
  /\ errors = 0

-----------------------------------------------------------------------------
(* save_metric_with_event: the journey row, the metric and its source      *)
(* event in one transaction.                                               *)
LockJourney(m, v) ==
  /\ Len(source) < MaxWrites
  /\ writing = <<>>
  /\ journey_lock = Nobody
  /\ percent[m] # v
  /\ writing' = <<m, v>>
  /\ journey_lock' = Writer
  /\ UNCHANGED <<percent, finished, source, grantVars, manual_ops, job, user_lock,
                 errors>>

(* The KEY SHARE lock of a foreign key conflicts with FOR UPDATE and not   *)
(* with the FOR NO KEY UPDATE of lock_user.                                *)
KeyShareBlockedMutant == user_lock # Nobody
KeyShareBlocked == FALSE

Publish ==
  /\ writing # <<>>
  /\ ~KeyShareBlocked
  /\ LET m == writing[1] IN
       /\ source' = Append(source,
            [metric |-> m, status |-> "pending", waits |-> percent[m] = 0])
       /\ percent' = [percent EXCEPT ![m] = writing[2]]
  /\ writing' = <<>>
  /\ journey_lock' = Nobody
  /\ UNCHANGED <<finished, grantVars, manual_ops, job, user_lock, errors>>

WeekEnds(m) ==
  /\ m \notin finished
  /\ finished' = finished \cup {m}
  /\ UNCHANGED <<percent, source, writing, grantVars, manual_ops, job, user_lock,
                 journey_lock, errors>>

-----------------------------------------------------------------------------
(* weekly: the highest tier any finished week reaches; among its weeks the *)
(* best value.  Bronze, silver and gold of review_quality.                 *)
Tier(v) == IF v > 95 THEN 3 ELSE IF v >= 90 THEN 2 ELSE IF v >= 80 THEN 1 ELSE 0

Qualifying == {m \in finished : Tier(percent[m]) > 0}

Best ==
  IF Qualifying = {} THEN NoMetric
  ELSE CHOOSE m \in Qualifying : \A n \in Qualifying :
         \/ percent[n] < percent[m]
         \/ percent[n] = percent[m] /\ m <= n

-----------------------------------------------------------------------------
IsProof(e) == e.action \in {"grant", "upgrade"}

(* The last grant or upgrade: the proof of the active award.               *)
LastProof(j) ==
  LET n == Max({i \in DOMAIN j : IsProof(j[i])}) IN j[n]

(* current_metric_problem: the proof of an automatic award no longer       *)
(* agrees with its metric.                                                 *)
MetricProblem ==
  /\ award.rank > 0
  /\ LET proof == LastProof(journal) IN
       proof.metric # NoMetric /\ percent[proof.metric] # proof.value

DisputesMutant(m, key) ==
  /\ award.rank > 0 /\ Best = NoMetric
  /\ LastProof(journal).metric = m
  /\ key \notin receipts

(* flag_disputed: once per source, never of a manual grant.                *)
Disputes(m, key) ==
  /\ MetricProblem
  /\ LastProof(journal).metric = m
  /\ key \notin receipts

GrantLowerMutant(a, j, r, rank, m, v, key) ==
  IF key \in r THEN <<a, j, r>>
  ELSE IF m # NoMetric /\ a.auto_grant_blocked
         THEN <<a, j, r \cup {key}>>
  ELSE <<[a EXCEPT !.rank = rank, !.revision = @ + 1],
         Append(j, [action |-> IF a.rank > 0 THEN "upgrade" ELSE "grant",
                    from |-> a.rank, to |-> rank, metric |-> m, value |-> v,
                    key |-> key]),
         r \cup {key}>>

GrantRepeatMutant(a, j, r, rank, m, v, key) ==
  IF (m # NoMetric /\ a.auto_grant_blocked) \/ rank <= a.rank
    THEN <<a, j, r \cup {key}>>
  ELSE <<[a EXCEPT !.rank = rank, !.revision = @ + 1],
         Append(j, [action |-> IF a.rank > 0 THEN "upgrade" ELSE "grant",
                    from |-> a.rank, to |-> rank, metric |-> m, value |-> v,
                    key |-> key]),
         r \cup {key}>>

(* grant, with the lock of the user held: the award, its journal and       *)
(* receipts after the operation.                                           *)
Grant(a, j, r, rank, m, v, key) ==
  IF key \in r THEN <<a, j, r>>                               \* duplicate
  ELSE IF m # NoMetric /\ a.auto_grant_blocked
         THEN <<a, j, r \cup {key}>>                          \* suppressed
  ELSE IF rank <= a.rank THEN <<a, j, r \cup {key}>>          \* no_op
  ELSE <<[a EXCEPT !.rank = rank, !.revision = @ + 1],
         Append(j, [action |-> IF a.rank > 0 THEN "upgrade" ELSE "grant",
                    from |-> a.rank, to |-> rank, metric |-> m, value |-> v,
                    key |-> key]),
         r \cup {key}>>

Key(kind, n, m, v) == [kind |-> kind, n |-> n, metric |-> m, value |-> v]

-----------------------------------------------------------------------------
(* A process takes a source that is not processed, or a reconciliation of  *)
(* the user (event 0), and locks the user row.                             *)
Due(e) == source[e].waits => source[e].metric \in finished

LockUser(p, e) ==
  /\ job[p].stage = "idle"
  /\ user_lock = Nobody
  /\ e > 0 => source[e].status # "processed" /\ Due(e)
  /\ user_lock' = p
  /\ job' = [job EXCEPT ![p] = [Idle EXCEPT !.stage = "user", !.event = e]]
  /\ UNCHANGED <<metricVars, grantVars, manual_ops, journey_lock, errors>>

EvaluateMutant(p) ==
  /\ job[p].stage = "user"
  /\ job' = [job EXCEPT ![p].stage = "journey", ![p].metric = Best,
             ![p].value = IF Best = NoMetric THEN 0 ELSE percent[Best]]
  /\ UNCHANGED <<metricVars, grantVars, manual_ops, user_lock, journey_lock, errors>>

(* The journey row is locked before the metrics are read.                  *)
Evaluate(p) ==
  /\ job[p].stage = "user"
  /\ journey_lock = Nobody
  /\ journey_lock' = p
  /\ job' = [job EXCEPT ![p].stage = "journey", ![p].metric = Best,
             ![p].value = IF Best = NoMetric THEN 0 ELSE percent[Best]]
  /\ UNCHANGED <<metricVars, grantVars, manual_ops, user_lock, errors>>

Release(p) ==
  /\ user_lock' = IF user_lock = p THEN Nobody ELSE user_lock
  /\ journey_lock' = IF journey_lock = p THEN Nobody ELSE journey_lock
  /\ job' = [job EXCEPT ![p] = Idle]

(* The rest of _process, or of a reconciliation with --apply: the changed  *)
(* proof is disputed, an eligible result is granted, and a source whose    *)
(* week is over is processed.                                              *)
Finish(p) ==
  /\ job[p].stage = "journey"
  /\ LET e == job[p].event
         m == job[p].metric
         about == IF e > 0 THEN source[e].metric
                  ELSE IF award.rank > 0 THEN LastProof(journal).metric
                  ELSE NoMetric
         flag == IF e > 0 THEN Key("dispute", e, about, 0)
                 ELSE Key("drift", 0, about,
                          IF about = NoMetric THEN 0 ELSE percent[about])
         disputed == Disputes(about, flag)
         held == IF disputed
                   THEN [award EXCEPT !.evidence_disputed = TRUE,
                                      !.revision = @ + 1]
                   ELSE award
         noted == IF disputed
                    THEN Append(journal, [action |-> "evidence_disputed",
                           from |-> award.rank, to |-> award.rank,
                           metric |-> about, value |-> 0, key |-> flag])
                    ELSE journal
         told == IF disputed THEN receipts \cup {flag} ELSE receipts
         outcome == IF m = NoMetric THEN <<held, noted, told>>
                    ELSE Grant(held, noted, told, Tier(job[p].value), m,
                               job[p].value,
                               Key(IF e > 0 THEN "source" ELSE "reconcile", e, m,
                                   job[p].value))
     IN /\ award' = outcome[1]
        /\ journal' = outcome[2]
        /\ receipts' = outcome[3]
        /\ source' = IF e = 0 THEN source
                     ELSE IF about \in finished
                       THEN [source EXCEPT ![e].status = "processed"]
                       ELSE [source EXCEPT ![e].status = "pending",
                                           ![e].waits = TRUE]
  /\ Release(p)
  /\ UNCHANGED <<percent, finished, writing, manual_ops, errors>>

(* The evaluation raises, or its process dies: the transaction is rolled   *)
(* back; process_source_event notes the error when it still can.           *)
Fail(p) ==
  /\ job[p].stage # "idle"
  /\ errors < MaxErrors
  /\ errors' = errors + 1
  /\ LET e == job[p].event IN
       \/ UNCHANGED source
       \/ e > 0 /\ source' = [source EXCEPT ![e].status = "error"]
  /\ Release(p)
  /\ UNCHANGED <<percent, finished, writing, grantVars, manual_ops>>

-----------------------------------------------------------------------------
(* Staff: an operation id may be new or the repetition of an earlier       *)
(* request, whose receipt answers it.                                      *)
ManualGrant(op, rank) ==
  /\ op <= manual_ops + 1 /\ op <= MaxManual
  /\ user_lock = Nobody
  /\ LET outcome == Grant(award, journal, receipts, rank, NoMetric, 0,
                          Key("manual", op, NoMetric, 0))
     IN award' = outcome[1] /\ journal' = outcome[2] /\ receipts' = outcome[3]
  /\ manual_ops' = Max({manual_ops, op})
  /\ UNCHANGED <<metricVars, job, user_lock, journey_lock, errors>>

RevokedSilentMutant == [award EXCEPT !.rank = 0, !.auto_grant_blocked = TRUE]
RevokedMutant == [award EXCEPT !.rank = 0, !.revision = @ + 1]
Revoked == [award EXCEPT !.rank = 0, !.auto_grant_blocked = TRUE,
                         !.revision = @ + 1]

ManualRevoke(op) ==
  /\ op <= manual_ops + 1 /\ op <= MaxManual
  /\ user_lock = Nobody
  /\ journal # <<>>
  /\ LET key == Key("revoke", op, NoMetric, 0) IN
       IF key \in receipts THEN UNCHANGED grantVars
       ELSE /\ receipts' = receipts \cup {key}
            /\ IF award.rank = 0 THEN UNCHANGED <<award, journal>>
               ELSE /\ award' = Revoked
                    /\ journal' = Append(journal,
                         [action |-> "revoke", from |-> award.rank, to |-> 0,
                          metric |-> NoMetric, value |-> 0, key |-> key])
  /\ manual_ops' = Max({manual_ops, op})
  /\ UNCHANGED <<metricVars, job, user_lock, journey_lock, errors>>

-----------------------------------------------------------------------------
Next ==
  \/ \E m \in Metrics, v \in Percents : LockJourney(m, v)
  \/ Publish
  \/ \E m \in Metrics : WeekEnds(m)
  \/ \E p \in Procs : \E e \in 0..Len(source) : LockUser(p, e)
  \/ \E p \in Procs : Evaluate(p) \/ Finish(p) \/ Fail(p)
  \/ \E op \in 1..MaxManual : ManualRevoke(op)
  \/ \E op \in 1..MaxManual, rank \in 1..3 : ManualGrant(op, rank)

Spec == Init /\ [][Next]_vars

(* The management worker runs again and again over the sources that are    *)
(* not processed, weeks end, a transaction that has its locks goes on, and *)
(* PostgreSQL queues the waiters of a row lock; one process at most waits  *)
(* for the journey row, since it holds the user row.                       *)
Fairness ==
  /\ WF_vars(Publish)
  /\ \A m \in Metrics : WF_vars(WeekEnds(m))
  /\ SF_vars(\E p \in Procs : Evaluate(p))
  /\ \A p \in Procs : WF_vars(Finish(p))
  /\ \A e \in 1..MaxWrites :
       SF_vars(e \in DOMAIN source /\ \E p \in Procs : LockUser(p, e))

FairSpec == Spec /\ Fairness

-----------------------------------------------------------------------------
(* The rows, and what constraints and clean() of the models demand of them *)
AchievementSourceEvent ==
  [metric : Metrics, status : {"pending", "error", "processed"}, waits : BOOLEAN]
UserAchievement ==
  [rank : 0..3, auto_grant_blocked : BOOLEAN, evidence_disputed : BOOLEAN,
   revision : Nat]
AchievementEvent(e) ==
  /\ e.action = "grant" => e.from = 0 /\ e.to > 0
  /\ e.action = "upgrade" => e.from > 0 /\ e.to > e.from
  /\ e.action = "revoke" => e.from > 0 /\ e.to = 0 /\ e.metric = NoMetric
\* A receipt for every operation that left an event.
AchievementOperation == {e.key : e \in Range(journal)} \subseteq receipts

\* Ids and percentages are numbers; nobody's row lock is mistaken for a process.
Limits ==
  /\ Metrics \subseteq Nat \ {NoMetric} /\ IsFiniteSet(Metrics)
  /\ Percents \subseteq Nat /\ {MaxWrites, MaxManual, MaxErrors} \subseteq Nat
  /\ Procs \cap {Nobody, Writer} = {}

(* The rows and the work in progress have their types.                     *)
TypeOK ==
  /\ Limits
  /\ percent \in [Metrics -> Percents \cup {0}]
  /\ finished \subseteq Metrics
  /\ Range(source) \subseteq AchievementSourceEvent
  /\ award \in UserAchievement /\ award.revision = Len(journal)
  /\ \A i \in DOMAIN journal : AchievementEvent(journal[i])
  /\ AchievementOperation
  /\ user_lock \in Procs \cup {Nobody}
  /\ journey_lock \in Procs \cup {Nobody, Writer}

(* A superseded metric cannot hide behind an award: while the proof of an  *)
(* active automatic award disagrees with its metric, the award is marked   *)
(* disputed or a source that will dispute it waits (save_metric_with_event *)
(* and flag_disputed).                                                     *)
NoStaleAward ==
  MetricProblem =>
    \/ award.evidence_disputed
    \/ \E i \in DOMAIN source : source[i].status # "processed"
                                /\ source[i].metric = LastProof(journal).metric

(* An automatic grant rests on the metric as it is when the grant commits: *)
(* a mentor's correction cannot slip in between the evaluation and the     *)
(* grant (the journey lock of _process and reconcile).                     *)
GrantIsFresh ==
  \A i \in DOMAIN journal' \ DOMAIN journal :
    IsProof(journal'[i]) /\ journal'[i].metric # NoMetric
      => percent[journal'[i].metric] = journal'[i].value
(* The projection is what its append-only journal says: each entry starts  *)
(* from the tier the entry before it left, an upgrade or grant rises, and  *)
(* the active tier is where the last one ended (grant, revoke,             *)
(* flag_disputed).                                                         *)
JournalExplains ==
  /\ \A i \in DOMAIN journal :
       /\ journal[i].from = IF i = 1 THEN 0 ELSE journal[i - 1].to
       /\ IsProof(journal[i]) => journal[i].to > journal[i].from
  /\ award.rank = IF journal = <<>> THEN 0 ELSE Last(journal).to

(* After staff revoked the award nothing automatic grants it again: not a  *)
(* late source, a retry, or a reconciliation with a new proof              *)
(* (auto_grant_blocked).                                                   *)
NoAutomaticRegrant ==
  \A i, k \in DOMAIN journal :
    i < k /\ journal[i].action = "revoke" /\ IsProof(journal[k])
      => journal[k].metric = NoMetric

(* An operation writes the journal at most once, whatever is retried after *)
(* a crash, an error or a lost answer; a request that was once answered    *)
(* with no change never grants later (AchievementOperation).               *)
OperationIsNew ==
  \A i \in DOMAIN journal' \ DOMAIN journal : journal'[i].key \notin receipts

(* Every automatic grant is fresh and every operation new.                 *)
GrantsJustified == [][GrantIsFresh /\ OperationIsNew]_vars

(* An award is what its journal makes of it, nothing automatic grants      *)
(* again what staff revoked, and a superseded metric cannot hide behind an *)
(* award.                                                                  *)
RecordsTrue == TypeOK /\ JournalExplains /\ NoAutomaticRegrant /\ NoStaleAward

(* Every source event ends processed: a failed wake, an error and a week   *)
(* that was not over yet are retried by the worker, and the user row's     *)
(* lock mode keeps a writer of metrics and an evaluation from waiting for  *)
(* each other.                                                             *)
SourcesProcessed ==
  \A i \in 1..MaxWrites :
    (i \in DOMAIN source) ~> (i \in DOMAIN source /\ source[i].status = "processed")
=============================================================================
