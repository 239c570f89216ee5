------------------------------ MODULE Evaluation -------------------------------
(***************************************************************************)
(* The jobs that score the system on regenerated data and leave files      *)
(* beside the database: run_evaluation (evaluation/runner.py), called by   *)
(* the API and by the CLI, and train_models (ml/training.py).  A job is one*)
(* transaction; its files are outside of it.  Jobs run in the threads of   *)
(* the API and in processes of the CLI, and share the clock, the report    *)
(* files, the model files and the database.                                *)
(*                                                                         *)
(* A job regenerates the data set from its beginning to its end, so what   *)
(* keeps two jobs apart is Regeneration, which IncidentStore implements.   *)
(***************************************************************************)
EXTENDS Naturals

CONSTANTS
  Jobs,            \* calls of run_evaluation and train_models
  Kinds,           \* what a job may be: "api", "cli", "empty" (--per-type 0), "train"
  None,            \* no job
  Torn,            \* the content of a file whose writing failed
  Setup,           \* the transaction that generated the first data set
  TicksPerSecond,  \* ticks of the clock in one second
  MinDuration,     \* ticks from the first wipe of an evaluation to its end, at least
  MaxTime          \* bound on the clock

ASSUME JobsAssumption == None \notin Jobs /\ Torn \notin Jobs /\ Setup \notin Jobs /\ None # Torn
ASSUME KindsAssumption == Kinds \subseteq {"api", "cli", "empty", "train"}
ASSUME TimeAssumption == TicksPerSecond \in Nat \ {0} /\ MinDuration \in Nat /\ MaxTime \in Nat

\* An evaluation regenerates the data set once for every manifest, and more than that.
ASSUME DurationAssumption == MinDuration >= TicksPerSecond

VARIABLES
  kind,      \* what each job is
  pc,        \* where it is
  now,       \* the clock
  holder,    \* the job that regenerates the data set
  data,      \* the transaction that generated the committed data set
  seen,      \* data when the job's wipe chose its rows
  tookAt,    \* when the job got the data set
  namedAt,   \* when it made its run id
  startedAt, \* started_at of its EvaluationRun row
  rows,      \* jobs whose EvaluationRun row is committed
  json,      \* run id -> job whose results are in the JSON file, None or Torn
  csv,       \* the same for the CSV file
  latest,    \* the same for latest_report.md
  bundle,    \* the same for model_bundle.joblib
  metrics,   \* the same for metrics.json
  answer     \* the job whose row the API returns

vars == <<kind, pc, now, holder, data, seen, tookAt, namedAt, startedAt, rows, json, csv,
          latest, bundle, metrics, answer>>
clocks == <<now, tookAt, namedAt, startedAt>>
files == <<json, csv, latest, bundle, metrics>>

DataSet == INSTANCE Regeneration WITH Requests <- Jobs, Nobody <- None

Writing == {"json", "csv", "summary", "bundle", "metrics"}
Holding == {"scoring", "naming", "inserting", "committing"} \cup Writing
Stored == {"answering", "done"}
Stages == {"idle", "restoring", "failed"} \cup Holding \cup Stored

Time == 0..MaxTime
Contents == Jobs \cup {None, Torn}

\* Mutant: an id without its seconds.
RunIdByMinute(t) == t \div (60 * TicksPerSecond)

\* EVAL-%Y%m%d%H%M%S
RunId(t) == t \div TicksPerSecond

RunIds == {RunId(t) : t \in Time}

Init ==
  /\ kind \in [Jobs -> Kinds]
  /\ pc = [j \in Jobs |-> "idle"]
  /\ now = 0
  /\ holder = None
  /\ data = Setup
  /\ seen = [j \in Jobs |-> Setup]
  /\ tookAt = [j \in Jobs |-> 0]
  /\ namedAt = [j \in Jobs |-> 0]
  /\ startedAt = [j \in Jobs |-> 0]
  /\ rows = {}
  /\ json = [i \in RunIds |-> None]
  /\ csv = [i \in RunIds |-> None]
  /\ latest = None
  /\ bundle = None
  /\ metrics = None
  /\ answer = [j \in Jobs |-> None]

-------------------------------------------------------------------------------

At(j, stage) == pc[j] = stage
Go(j, stage) == pc' = [pc EXCEPT ![j] = stage]

Tick ==
  /\ now < MaxTime
  /\ now' = now + 1
  /\ UNCHANGED <<kind, pc, holder, data, seen, tookAt, namedAt, startedAt, rows, files, answer>>

\* restore_clean_baseline: the wipe chooses the rows it will delete.
Begin(j) ==
  /\ At(j, "idle")
  /\ Go(j, "restoring")
  /\ seen' = [seen EXCEPT ![j] = data]
  /\ UNCHANGED <<kind, clocks, holder, data, rows, files, answer>>

\* Mutant: a wipe that does not wait for the one under way.
TakeWithoutWaiting(j) ==
  /\ At(j, "restoring")
  /\ seen[j] = data
  /\ holder' = j /\ UNCHANGED data
  /\ Go(j, "scoring")
  /\ tookAt' = [tookAt EXCEPT ![j] = now]
  /\ UNCHANGED <<kind, now, seen, namedAt, startedAt, rows, files, answer>>

\* Mutant: the reload does not collide with what was committed meanwhile.
TakeWithoutCollision(j) ==
  /\ At(j, "restoring")
  /\ DataSet!Take(j)
  /\ Go(j, "scoring")
  /\ tookAt' = [tookAt EXCEPT ![j] = now]
  /\ UNCHANGED <<kind, now, seen, namedAt, startedAt, rows, files, answer>>

\* The wipe has its locks, and the reload goes through.
Take(j) ==
  /\ At(j, "restoring")
  /\ seen[j] = data
  /\ DataSet!Take(j)
  /\ Go(j, "scoring")
  /\ tookAt' = [tookAt EXCEPT ![j] = now]
  /\ UNCHANGED <<kind, now, seen, namedAt, startedAt, rows, files, answer>>

\* The transaction is rolled back: because the reload collides with a generation that
\* was committed meanwhile, because a statement fails, or because the process dies.
Fail(j) ==
  /\ pc[j] \in {"restoring"} \cup Holding
  /\ Go(j, "failed")
  /\ holder' = IF holder = j THEN None ELSE holder
  /\ UNCHANGED <<kind, clocks, data, seen, rows, answer>>

\* inject, detect and investigate for every manifest, or the training; without a
\* manifest it takes no time.
Score(j) ==
  /\ At(j, "scoring")
  /\ kind[j] \in {"api", "cli"} => now >= tookAt[j] + MinDuration
  /\ Go(j, IF kind[j] = "train" THEN "bundle" ELSE "naming")
  /\ UNCHANGED <<kind, clocks, holder, data, seen, rows, files, answer>>

\* run_id, from the clock.
Name(j) ==
  /\ At(j, "naming")
  /\ Go(j, "json")
  /\ namedAt' = [namedAt EXCEPT ![j] = now]
  /\ UNCHANGED <<kind, now, tookAt, startedAt, holder, data, seen, rows, files, answer>>

IdOf(j) == RunId(namedAt[j])

-------------------------------------------------------------------------------
(* _write_reports and the files of a training, each write done or torn.    *)

WriteJson(j, content) ==
  /\ At(j, "json")
  /\ json' = [json EXCEPT ![IdOf(j)] = content]
  /\ UNCHANGED <<csv, latest, bundle, metrics>>

\* Without a result there is no CSV file.
WriteCsv(j, content) ==
  /\ At(j, "csv")
  /\ csv' = IF kind[j] = "empty" THEN csv ELSE [csv EXCEPT ![IdOf(j)] = content]
  /\ UNCHANGED <<json, latest, bundle, metrics>>

\* Mutant: a summary that is there is kept.
WriteSummaryOnce(j, content) ==
  /\ At(j, "summary")
  /\ kind[j] # "empty"
  /\ latest' = IF latest = None THEN content ELSE latest
  /\ UNCHANGED <<json, csv, bundle, metrics>>

\* Without a result there are no metrics to put into the summary: KeyError.
WriteSummary(j, content) ==
  /\ At(j, "summary")
  /\ kind[j] # "empty"
  /\ latest' = content
  /\ UNCHANGED <<json, csv, bundle, metrics>>

WriteBundle(j, content) ==
  /\ At(j, "bundle")
  /\ bundle' = content
  /\ UNCHANGED <<json, csv, latest, metrics>>

WriteMetrics(j, content) ==
  /\ At(j, "metrics")
  /\ metrics' = content
  /\ UNCHANGED <<json, csv, latest, bundle>>

WriteFile(j, content) ==
  \/ WriteJson(j, content) \/ WriteCsv(j, content) \/ WriteSummary(j, content)
  \/ WriteBundle(j, content) \/ WriteMetrics(j, content)

AfterWriting ==
  [json |-> "csv", csv |-> "summary", summary |-> "inserting",
   bundle |-> "metrics", metrics |-> "committing"]

\* Mutant: the file of the data set that the job has found.
WriteWhatItFound(j) ==
  /\ pc[j] \in Writing
  /\ WriteFile(j, seen[j])
  /\ Go(j, AfterWriting[pc[j]])
  /\ UNCHANGED <<kind, clocks, holder, data, seen, rows, answer>>

Write(j) ==
  /\ pc[j] \in Writing
  /\ WriteFile(j, j)
  /\ Go(j, AfterWriting[pc[j]])
  /\ UNCHANGED <<kind, clocks, holder, data, seen, rows, answer>>

WriteFails(j) == WriteFile(j, Torn) /\ Fail(j)

-------------------------------------------------------------------------------

\* After another restore the row is added and flushed; a second row with the same
\* id is a unique violation, which fails.
InsertRow(j) ==
  /\ At(j, "inserting")
  /\ \A i \in rows : IdOf(i) # IdOf(j)
  /\ Go(j, "committing")
  /\ startedAt' = [startedAt EXCEPT ![j] = now]
  /\ UNCHANGED <<kind, now, tookAt, namedAt, holder, data, seen, rows, files, answer>>

\* session_scope commits.
Commit(j) ==
  /\ At(j, "committing")
  /\ DataSet!Publish(j)
  /\ rows' = IF kind[j] = "train" THEN rows ELSE rows \cup {j}
  /\ Go(j, IF kind[j] = "api" THEN "answering" ELSE "done")
  /\ UNCHANGED <<kind, clocks, seen, files, answer>>

\* Mutant: the oldest row comes first.
AnswerWithOldest(j) ==
  /\ At(j, "answering")
  /\ \E i \in rows :
       /\ \A k \in rows : startedAt[i] <= startedAt[k]
       /\ answer' = [answer EXCEPT ![j] = i]
  /\ Go(j, "done")
  /\ UNCHANGED <<kind, clocks, holder, data, seen, rows, files>>

\* The route returns the latest run, which it reads in a session of its own.
Answer(j) ==
  /\ At(j, "answering")
  /\ \E i \in rows :
       /\ \A k \in rows : startedAt[k] <= startedAt[i]
       /\ answer' = [answer EXCEPT ![j] = i]
  /\ Go(j, "done")
  /\ UNCHANGED <<kind, clocks, holder, data, seen, rows, files>>

Next ==
  \/ Tick
  \/ \E j \in Jobs :
       \/ Begin(j) \/ Take(j) \/ Score(j) \/ Name(j) \/ Write(j) \/ WriteFails(j)
       \/ InsertRow(j) \/ Commit(j) \/ Answer(j)
       \/ Fail(j) /\ UNCHANGED files

Spec == Init /\ [][Next]_vars

-------------------------------------------------------------------------------
(* Properties.                                                             *)

\* Every variable stays within its type.
TypeOK ==
  /\ kind \in [Jobs -> Kinds]
  /\ pc \in [Jobs -> Stages]
  /\ now \in Time
  /\ holder \in Jobs \cup {None}
  /\ data \in Jobs \cup {Setup}
  /\ seen \in [Jobs -> Jobs \cup {Setup}]
  /\ tookAt \in [Jobs -> Time]
  /\ namedAt \in [Jobs -> Time]
  /\ startedAt \in [Jobs -> Time]
  /\ rows \subseteq Jobs
  /\ json \in [RunIds -> Contents]
  /\ csv \in [RunIds -> Contents]
  /\ latest \in Contents
  /\ bundle \in Contents
  /\ metrics \in Contents
  /\ answer \in [Jobs -> Jobs \cup {None}]

\* The report files that a stored evaluation run points at hold its own results, although
\* the id of a run only counts seconds: no later evaluation, not even one that fails,
\* writes under the same id, except one that had no manifest and so took no time, which
\* can overwrite the JSON file.
StoredRunHasItsReport ==
  \A j \in rows :
    /\ csv[IdOf(j)] = j
    /\ \/ json[IdOf(j)] = j
       \/ \E i \in Jobs :
            /\ kind[i] = "empty" /\ pc[i] \in {"csv", "summary", "failed"}
            /\ IdOf(i) = IdOf(j) /\ json[IdOf(j)] \in {i, Torn}

\* latest_report.md is never older than a stored run: what is in it is of that run, of a
\* later evaluation, or torn by one.
LatestReportIsNotOutdated ==
  \A j \in rows : latest # None /\ (latest \in Jobs => namedAt[j] <= namedAt[latest])

\* model_bundle.joblib and metrics.json are of one training, but for the time between
\* the two writes and after a training that failed between them.
ArtifactsOfOneTraining ==
  bundle # metrics /\ bundle \in Jobs => pc[bundle] \in {"metrics", "failed"}

\* The caller of POST /evaluations/run gets a stored run that is not older than its own,
\* although the route looks for the latest one in a second transaction.
AnswerIsNotOlder ==
  \A j \in Jobs : kind[j] = "api" /\ At(j, "done") =>
    answer[j] \in rows /\ startedAt[j] <= startedAt[answer[j]]

\* A data set that is replaced has been wiped by the job that replaces it: a wipe chooses
\* its rows before it waits for the job under way, and what that job commits is never
\* overwritten, or scored, by one that has not seen it.
NothingReplacedUnseen == [][\A j \in Jobs : data' = j /\ data # j => seen[j] = data]_vars

-------------------------------------------------------------------------------
(* The inductive invariant of the proofs.                                  *)

Evaluating(j) == kind[j] \in {"api", "cli"}

\* The stages of a job that has the data set are those of the holder.
HolderInv == \A j \in Jobs : holder = j <=> pc[j] \in Holding

\* The committed data set is the one that the holder has wiped.
SeenInv == \A j \in Jobs : pc[j] \in Holding => seen[j] = data

\* Which kind of job comes to which stage, and who has a row.
StageInv(j) ==
  /\ pc[j] \in {"naming", "json", "csv", "summary"} => kind[j] # "train"
  /\ pc[j] \in {"bundle", "metrics"} => kind[j] = "train"
  /\ pc[j] = "inserting" => Evaluating(j)
  /\ pc[j] = "answering" => kind[j] = "api"
  /\ pc[j] \in {"committing"} \cup Stored => kind[j] # "empty"
  /\ j \in rows <=> Evaluating(j) /\ pc[j] \in Stored

\* The times that an evaluation notes are in order.
TimeInv(j) ==
  /\ tookAt[j] <= now
  /\ Evaluating(j) /\ pc[j] = "naming" => tookAt[j] + MinDuration <= now
  /\ Evaluating(j) /\ pc[j] \in (Writing \cup {"inserting", "committing"}) =>
       tookAt[j] + MinDuration <= namedAt[j]
  /\ namedAt[j] <= now
  /\ startedAt[j] <= now

\* What is stored was named and started before the holder took the data set.
OrderInv ==
  \A i \in rows, j \in Jobs :
    pc[j] \in Holding => namedAt[i] <= tookAt[j] /\ startedAt[i] <= tookAt[j]

\* Files already written hold the holder's content.
FileInv(j) ==
  /\ pc[j] = "csv" => json[IdOf(j)] = j
  /\ Evaluating(j) /\ pc[j] \in {"summary", "inserting", "committing"} =>
       json[IdOf(j)] = j /\ csv[IdOf(j)] = j
  /\ Evaluating(j) /\ pc[j] \in {"inserting", "committing"} => latest = j
  /\ pc[j] = "metrics" => bundle = j

\* The summary is of an evaluation that has gone on.
SummaryInv ==
  latest \in Jobs => pc[latest] \in {"inserting", "committing", "failed"} \cup Stored

IInv ==
  /\ TypeOK
  /\ HolderInv
  /\ \A j \in Jobs : StageInv(j) /\ TimeInv(j) /\ FileInv(j)
  /\ OrderInv
  /\ SummaryInv
  /\ StoredRunHasItsReport
  /\ LatestReportIsNotOutdated
  /\ ArtifactsOfOneTraining
  /\ AnswerIsNotOlder

===============================================================================
