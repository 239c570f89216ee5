--------------------------- MODULE EvaluationProofs ----------------------------
(***************************************************************************)
(* Proofs about Evaluation for any set and kind of jobs, any length of a   *)
(* second and any bound on the clock.                                      *)
(***************************************************************************)
EXTENDS Evaluation, TLAPS

\* Two moments that lie an evaluation apart have different run ids (the id counts seconds).
LEMMA RunIdsDiffer ==
  ASSUME NEW t \in Time, NEW u \in Time, t + MinDuration <= u
  PROVE  RunId(t) # RunId(u)
  <1> DEFINE S == TicksPerSecond
  <1>1. S \in Nat \ {0} /\ MinDuration \in Nat /\ MinDuration >= S /\ t \in Nat /\ u \in Nat
    BY TimeAssumption, DurationAssumption DEF Time
  <1> HIDE DEF S
  <1>2. t = S * (t \div S) + (t % S) /\ t % S \in 0..S - 1
    BY <1>1
  <1>3. u = S * (u \div S) + (u % S) /\ u % S \in 0..S - 1
    BY <1>1
  <1>4. SUFFICES ASSUME t \div S = u \div S PROVE FALSE
    BY DEF RunId, S
  <1>5. u - t = (u % S) - (t % S)
    BY <1>1, <1>2, <1>3, <1>4
  <1> QED
    BY <1>1, <1>2, <1>3, <1>5

\* The id of a run is one of the ids (run_id).
LEMMA RunIdType == ASSUME NEW t \in Time PROVE RunId(t) \in RunIds
  BY DEF RunIds

-------------------------------------------------------------------------------

\* Before any job nothing is stored and no file is written.
LEMMA InitInv == Init => IInv
  <1> SUFFICES ASSUME Init PROVE IInv
    OBVIOUS
  <1>1. 0 \in Time
    BY TimeAssumption DEF Time
  <1>2. TypeOK
    BY <1>1, JobsAssumption DEF Init, TypeOK, Contents, Stages
  <1>3. HolderInv /\ OrderInv /\ SummaryInv
    BY JobsAssumption DEF Init, HolderInv, OrderInv, SummaryInv, Holding, Writing
  <1>4. \A j \in Jobs : StageInv(j) /\ TimeInv(j) /\ FileInv(j)
    <2> SUFFICES ASSUME NEW j \in Jobs PROVE StageInv(j) /\ TimeInv(j) /\ FileInv(j)
      OBVIOUS
    <2>1. pc[j] = "idle" /\ rows = {}
      BY DEF Init
    <2>2. now = 0 /\ tookAt[j] = 0 /\ namedAt[j] = 0 /\ startedAt[j] = 0
      BY DEF Init
    <2> QED
      BY <2>1, <2>2 DEF StageInv, TimeInv, FileInv, Evaluating, Writing, Stored
  <1>5. /\ StoredRunHasItsReport /\ LatestReportIsNotOutdated
        /\ ArtifactsOfOneTraining /\ AnswerIsNotOlder
    BY DEF Init, StoredRunHasItsReport, LatestReportIsNotOutdated, ArtifactsOfOneTraining,
           AnswerIsNotOlder, At
  <1> QED
    BY <1>2, <1>3, <1>4, <1>5 DEF IInv

\* Time passes.
LEMMA TickInv == ASSUME IInv, Tick PROVE IInv'
  <1> USE DEF IInv, Tick, clocks, files
  <1>1. now \in Nat /\ now' = now + 1 /\ now' \in Time
    BY TimeAssumption DEF TypeOK, Time
  <1>2. TypeOK'
    BY <1>1 DEF TypeOK
  <1>3. HolderInv' /\ OrderInv' /\ SummaryInv'
    BY DEF HolderInv, OrderInv, SummaryInv
  <1>4. \A j \in Jobs : StageInv(j)' /\ FileInv(j)'
    BY DEF StageInv, FileInv, Evaluating, IdOf
  <1>5. \A j \in Jobs : TimeInv(j)'
    BY <1>1, TimeAssumption DEF TimeInv, Evaluating, TypeOK, Time
  <1>6. /\ StoredRunHasItsReport' /\ LatestReportIsNotOutdated'
        /\ ArtifactsOfOneTraining' /\ AnswerIsNotOlder'
    BY DEF StoredRunHasItsReport, LatestReportIsNotOutdated, ArtifactsOfOneTraining,
           AnswerIsNotOlder, At, IdOf
  <1> QED
    BY <1>2, <1>3, <1>4, <1>5, <1>6

\* A wipe chooses its rows.
LEMMA BeginInv == ASSUME IInv, NEW j \in Jobs, Begin(j) PROVE IInv'
  <1> USE DEF IInv, Begin, At, Go, clocks, files
  <1>1. TypeOK'
    BY DEF TypeOK, Stages
  <1>2. HolderInv' /\ OrderInv' /\ SummaryInv'
    BY DEF TypeOK, HolderInv, OrderInv, SummaryInv, Holding, Writing, Stored
  <1>3. \A i \in Jobs : StageInv(i)' /\ TimeInv(i)' /\ FileInv(i)'
    BY DEF TypeOK, StageInv, TimeInv, FileInv, Evaluating, IdOf, Writing, Stored
  <1>4. /\ StoredRunHasItsReport' /\ LatestReportIsNotOutdated'
        /\ ArtifactsOfOneTraining' /\ AnswerIsNotOlder'
    BY DEF TypeOK, StoredRunHasItsReport, LatestReportIsNotOutdated, ArtifactsOfOneTraining,
           AnswerIsNotOlder, IdOf
  <1> QED
    BY <1>1, <1>2, <1>3, <1>4

\* A wipe gets its locks: what is stored is older.
LEMMA TakeInv == ASSUME IInv, NEW j \in Jobs, Take(j) PROVE IInv'
  <1> USE DEF IInv, Take, DataSet!Take, At, Go, files
  <1>1. TypeOK'
    BY DEF TypeOK, Stages, Holding
  <1>2. HolderInv' /\ SummaryInv'
    BY JobsAssumption DEF TypeOK, HolderInv, SummaryInv, Holding, Writing, Stored
  <1>3. OrderInv'
    <2>1. \A i \in Jobs : i # j => pc'[i] \notin Holding
      BY JobsAssumption DEF TypeOK, HolderInv
    <2>2. \A i \in rows : namedAt[i] <= now /\ startedAt[i] <= now
      BY DEF TimeInv, TypeOK
    <2> QED
      BY <2>1, <2>2 DEF OrderInv, TypeOK
  <1>4. \A i \in Jobs : StageInv(i)' /\ TimeInv(i)' /\ FileInv(i)'
    BY DEF TypeOK, StageInv, TimeInv, FileInv, Evaluating, IdOf, Writing, Stored, Time
  <1>5. /\ StoredRunHasItsReport' /\ LatestReportIsNotOutdated'
        /\ ArtifactsOfOneTraining' /\ AnswerIsNotOlder'
    BY DEF TypeOK, StoredRunHasItsReport, LatestReportIsNotOutdated, ArtifactsOfOneTraining,
           AnswerIsNotOlder, IdOf
  <1> QED
    BY <1>1, <1>2, <1>3, <1>4, <1>5

\* The scores are there, not before an evaluation's time.
LEMMA ScoreInv == ASSUME IInv, NEW j \in Jobs, Score(j) PROVE IInv'
  <1> USE DEF IInv, Score, At, Go, clocks, files
  <1>1. TypeOK'
    BY DEF TypeOK, Stages, Holding, Writing
  <1>2. HolderInv' /\ OrderInv' /\ SummaryInv'
    BY DEF TypeOK, HolderInv, OrderInv, SummaryInv, Holding, Writing, Stored
  <1>3. \A i \in Jobs : StageInv(i)' /\ TimeInv(i)' /\ FileInv(i)'
    BY DEF TypeOK, StageInv, TimeInv, FileInv, Evaluating, IdOf, Writing, Stored, Time
  <1>4. /\ StoredRunHasItsReport' /\ LatestReportIsNotOutdated'
        /\ ArtifactsOfOneTraining' /\ AnswerIsNotOlder'
    BY DEF TypeOK, StoredRunHasItsReport, LatestReportIsNotOutdated, ArtifactsOfOneTraining,
           AnswerIsNotOlder, IdOf
  <1> QED
    BY <1>1, <1>2, <1>3, <1>4

\* A run id is made: nothing refers to it yet.
LEMMA NameInv == ASSUME IInv, NEW j \in Jobs, Name(j) PROVE IInv'
  <1> USE DEF IInv, Name, At, Go, files
  <1>1. TypeOK'
    BY DEF TypeOK, Stages, Holding, Writing
  <1>2. HolderInv' /\ SummaryInv'
    BY DEF TypeOK, HolderInv, SummaryInv, Holding, Writing, Stored
  <1>3. j \notin rows
    BY DEF StageInv, Stored
  <1>4. OrderInv'
    BY <1>3 DEF TypeOK, OrderInv, Holding, Writing
  <1>5. \A i \in Jobs : StageInv(i)' /\ TimeInv(i)' /\ FileInv(i)'
    BY DEF TypeOK, StageInv, TimeInv, FileInv, Evaluating, IdOf, Writing, Stored, Time
  <1>6. StoredRunHasItsReport'
    BY <1>3 DEF TypeOK, StoredRunHasItsReport, IdOf
  <1>7. LatestReportIsNotOutdated' /\ ArtifactsOfOneTraining' /\ AnswerIsNotOlder'
    BY <1>3 DEF TypeOK, LatestReportIsNotOutdated, SummaryInv, ArtifactsOfOneTraining,
           AnswerIsNotOlder, Stored
  <1> QED
    BY <1>1, <1>2, <1>4, <1>5, <1>6, <1>7


-------------------------------------------------------------------------------

\* A rollback, the files being what they were.
LEMMA FailInv == ASSUME IInv, NEW j \in Jobs, Fail(j), UNCHANGED files PROVE IInv'
  <1> USE DEF IInv, Fail, Go, clocks, files
  <1>1. TypeOK'
    BY DEF TypeOK, Stages
  <1>2. HolderInv' /\ OrderInv' /\ SummaryInv'
    BY JobsAssumption DEF TypeOK, HolderInv, OrderInv, SummaryInv, Holding, Writing, Stored
  <1>3. \A i \in Jobs : StageInv(i)' /\ TimeInv(i)' /\ FileInv(i)'
    BY DEF TypeOK, StageInv, TimeInv, FileInv, Evaluating, IdOf, Holding, Writing, Stored
  <1>4. /\ StoredRunHasItsReport' /\ LatestReportIsNotOutdated'
        /\ ArtifactsOfOneTraining' /\ AnswerIsNotOlder'
    BY DEF TypeOK, StoredRunHasItsReport, LatestReportIsNotOutdated, ArtifactsOfOneTraining,
           AnswerIsNotOlder, IdOf, At
  <1> QED
    BY <1>1, <1>2, <1>3, <1>4

\* What every write has in common: content of the job or torn, the job goes on or fails,
\* and nothing but files changes.
Writes(j) ==
  \E content \in {j, Torn} :
    /\ WriteFile(j, content)
    /\ pc[j] \in Writing
    /\ \/ content = j /\ Go(j, AfterWriting[pc[j]]) /\ UNCHANGED holder
       \/ content = Torn /\ Go(j, "failed") /\ holder' = IF holder = j THEN None ELSE holder
    /\ UNCHANGED <<kind, clocks, data, seen, rows, answer>>

\* Write and WriteFails are such writes.
LEMMA WritesAre ==
  ASSUME NEW j \in Jobs, Write(j) \/ WriteFails(j)
  PROVE  Writes(j)
  <1>1. ASSUME NEW content, WriteFile(j, content) PROVE pc[j] \in Writing
    BY <1>1 DEF WriteFile, WriteJson, WriteCsv, WriteSummary, WriteBundle, WriteMetrics, At,
                Writing
  <1> QED
    BY <1>1 DEF Write, WriteFails, Fail, Writes

\* Where a write leads.
LEMMA WritesGo ==
  ASSUME TypeOK, NEW j \in Jobs, Writes(j)
  PROVE  /\ pc'[j] \in {"csv", "summary", "inserting", "metrics", "committing", "failed"}
         /\ pc' = [pc EXCEPT ![j] = pc'[j]]
         /\ pc'[j] = "csv" => pc[j] = "json"
         /\ pc'[j] = "summary" => pc[j] = "csv"
         /\ pc'[j] = "inserting" => pc[j] = "summary"
         /\ pc'[j] = "metrics" => pc[j] = "bundle"
         /\ pc'[j] = "committing" => pc[j] = "metrics"
         /\ pc'[j] = "failed" => holder' = IF holder = j THEN None ELSE holder
         /\ pc'[j] # "failed" => UNCHANGED holder
  BY DEF Writes, Go, AfterWriting, TypeOK, Writing

\* No write touches a report of a stored run, but an empty evaluation's that of its JSON file.
LEMMA WritesInv == ASSUME IInv, NEW j \in Jobs, Writes(j) PROVE IInv'
  <1> USE DEF IInv
  <1> PICK content \in {j, Torn} :
         /\ WriteFile(j, content)
         /\ content = Torn => pc'[j] = "failed"
         /\ content = j => pc'[j] = AfterWriting[pc[j]]
    BY JobsAssumption DEF Writes, Go, TypeOK
  <1>1. UNCHANGED <<kind, clocks, data, seen, rows, answer>> /\ pc[j] \in Writing
    BY DEF Writes
  <1>2. j \notin rows
    BY <1>1 DEF StageInv, Writing, Stored
  <1>3. namedAt[j] \in Time /\ IdOf(j) \in RunIds
    BY RunIdType DEF TypeOK, IdOf
  <1>4. \A i \in Jobs : IdOf(i)' = IdOf(i) /\ Evaluating(i)' = Evaluating(i)
    BY <1>1 DEF IdOf, Evaluating, clocks
  <1>5. TypeOK'
    <2>1. pc' \in [Jobs -> Stages] /\ holder' \in Jobs \cup {None}
      BY WritesGo DEF TypeOK, Stages, Holding, Writing
    <2>2. files' \in [RunIds -> Contents] \X [RunIds -> Contents] \X Contents \X Contents \X Contents
      BY <1>3 DEF TypeOK, files, Contents, WriteFile, WriteJson, WriteCsv, WriteSummary,
                  WriteBundle, WriteMetrics
    <2> QED
      BY <1>1, <2>1, <2>2 DEF TypeOK, clocks, files
  <1>6. HolderInv'
    BY <1>1, WritesGo, JobsAssumption DEF HolderInv, Holding, Writing, TypeOK
  <1>7. OrderInv'
    BY <1>1, WritesGo DEF OrderInv, Holding, Writing, TypeOK, clocks
  <1>8. \A i \in Jobs \ {j} : pc'[i] = pc[i] /\ pc[i] \notin Holding
    BY <1>1, WritesGo DEF HolderInv, Holding, TypeOK
  <1>9. Evaluating(j) \/ kind[j] \in {"empty", "train"}
    BY KindsAssumption DEF Evaluating, TypeOK
  <1>10. \A i \in Jobs : StageInv(i)'
    <2>1. StageInv(j)'
      BY <1>1, <1>2, <1>4, <1>9, WritesGo DEF StageInv, Writing, Stored, Evaluating, WriteFile,
             WriteJson, WriteCsv, WriteSummary, WriteBundle, WriteMetrics, At
    <2>2. \A i \in Jobs \ {j} : StageInv(i)'
      BY <1>1, <1>4, <1>8 DEF StageInv, Evaluating
    <2> QED
      BY <2>1, <2>2
  <1>11. \A i \in Jobs : TimeInv(i)'
    BY <1>1, <1>4, WritesGo DEF TimeInv, Writing, TypeOK, clocks
  <1>12. FileInv(j)'
    BY <1>1, <1>3, <1>4, <1>9, WritesGo DEF FileInv, StageInv, Evaluating, TypeOK, WriteFile,
           WriteJson, WriteCsv, WriteSummary, WriteBundle, WriteMetrics, At, Writing
  <1>13. \A i \in Jobs \ {j} : FileInv(i)'
    BY <1>8, <1>4 DEF FileInv, Holding, Writing
  <1>14. SummaryInv'
    <2>1. \/ latest' = latest
          \/ latest' = Torn
          \/ latest' = j /\ pc'[j] = "inserting"
      BY DEF WriteFile, WriteJson, WriteCsv, WriteSummary, WriteBundle, WriteMetrics, At,
             AfterWriting
    <2> QED
      BY <1>1, <1>8, <2>1, JobsAssumption DEF SummaryInv, Writing, Stored
  <1>15. ASSUME NEW i \in rows, Evaluating(j) PROVE IdOf(i) # IdOf(j)
    <2>1. i \in Jobs /\ namedAt[i] \in Time /\ namedAt[j] \in Time /\ tookAt[j] \in Time
      BY DEF TypeOK
    <2>2. namedAt[i] <= tookAt[j] /\ tookAt[j] + MinDuration <= namedAt[j]
      BY <1>1, <1>15, <2>1 DEF OrderInv, TimeInv, Holding
    <2>3. namedAt[i] + MinDuration <= namedAt[j]
      BY <2>1, <2>2, TimeAssumption DEF Time
    <2> QED
      BY <2>1, <2>3, RunIdsDiffer DEF IdOf
  <1>16. StoredRunHasItsReport'
    <2> SUFFICES ASSUME NEW i \in rows
                 PROVE  /\ csv'[IdOf(i)] = i
                        /\ \/ json'[IdOf(i)] = i
                           \/ \E e \in Jobs :
                                /\ kind[e] = "empty" /\ pc'[e] \in {"csv", "summary", "failed"}
                                /\ IdOf(e) = IdOf(i) /\ json'[IdOf(i)] \in {e, Torn}
      BY <1>1, <1>4 DEF StoredRunHasItsReport, TypeOK
    <2>1. csv'[IdOf(i)] = i
      <3>1. csv[IdOf(i)] = i /\ IdOf(i) \in RunIds
        BY RunIdType DEF StoredRunHasItsReport, TypeOK, IdOf
      <3>2. \/ csv' = csv
            \/ csv' = [csv EXCEPT ![IdOf(j)] = content] /\ kind[j] \notin {"empty", "train"}
        BY DEF StageInv, WriteFile, WriteJson, WriteCsv, WriteSummary, WriteBundle,
               WriteMetrics, At
      <3> QED
        BY <1>9, <1>15, <3>1, <3>2 DEF TypeOK
    <2>2. CASE json' = json
      <3>1. ASSUME NEW e \in Jobs, kind[e] = "empty", pc[e] \in {"csv", "summary", "failed"}
            PROVE  pc'[e] \in {"csv", "summary", "failed"}
        <4>1. CASE e = j
          BY <3>1, <4>1, <1>1, <1>2, <1>10, WritesGo DEF StageInv, Evaluating, WriteFile, WriteJson,
             WriteCsv, WriteSummary, WriteBundle, WriteMetrics, At, AfterWriting
        <4>2. CASE e # j
          BY <1>8, <3>1, <4>2
        <4> QED
          BY <4>1, <4>2
      <3> QED
        BY <2>1, <2>2, <3>1 DEF StoredRunHasItsReport
    <2>3. CASE json' # json
      <3>1. pc[j] = "json" /\ json' = [json EXCEPT ![IdOf(j)] = content] /\ kind[j] # "train"
        BY <2>3 DEF StageInv, WriteFile, WriteJson, WriteCsv, WriteSummary, WriteBundle,
               WriteMetrics, At
      <3>2. CASE IdOf(i) # IdOf(j)
        <4>1. json'[IdOf(i)] = json[IdOf(i)]
          BY <3>1, <3>2, RunIdType DEF TypeOK, IdOf
        <4>2. \A e \in Jobs : pc[e] \in {"csv", "summary", "failed"} => pc'[e] = pc[e]
          BY <1>8, <3>1
        <4> QED
          BY <2>1, <4>1, <4>2 DEF StoredRunHasItsReport
      <3>3. CASE IdOf(i) = IdOf(j)
        <4>1. kind[j] = "empty"
          BY <1>9, <1>15, <3>1, <3>3
        <4>2. pc'[j] \in {"csv", "failed"}
          BY <3>1, WritesGo
        <4>3. json'[IdOf(i)] \in {j, Torn}
          BY <1>3, <3>1, <3>3 DEF TypeOK
        <4> QED
          BY <2>1, <3>3, <4>1, <4>2, <4>3
      <3> QED
        BY <3>2, <3>3
    <2> QED
      BY <2>1, <2>2, <2>3
  <1>17. LatestReportIsNotOutdated'
    <2>1. CASE latest' = latest
      BY <1>1, <2>1 DEF LatestReportIsNotOutdated, clocks
    <2>2. CASE latest' # latest
      <3>1. Evaluating(j) /\ latest' = content
        BY <1>9, <2>2 DEF StageInv, WriteFile, WriteJson, WriteCsv, WriteSummary, WriteBundle,
               WriteMetrics, At
      <3>2. \A i \in rows : namedAt[i] <= namedAt[j]
        <4> SUFFICES ASSUME NEW i \in rows PROVE namedAt[i] <= namedAt[j]
          OBVIOUS
        <4>1. i \in Jobs /\ namedAt[i] \in Nat /\ namedAt[j] \in Nat /\ tookAt[j] \in Nat
          BY DEF TypeOK, Time
        <4>2. namedAt[i] <= tookAt[j] /\ tookAt[j] + MinDuration <= namedAt[j]
          BY <1>1, <3>1, <4>1 DEF OrderInv, TimeInv, Holding
        <4> QED
          BY <4>1, <4>2, TimeAssumption
      <3> QED
        BY <1>1, <3>1, <3>2, JobsAssumption DEF LatestReportIsNotOutdated, clocks
    <2> QED
      BY <2>1, <2>2
  <1>18. ArtifactsOfOneTraining'
    BY <1>1, <1>8, WritesGo, JobsAssumption DEF ArtifactsOfOneTraining, FileInv, Writing,
           WriteFile, WriteJson, WriteCsv, WriteSummary, WriteBundle, WriteMetrics, At,
           AfterWriting
  <1>19. AnswerIsNotOlder'
    BY <1>1, <1>8, WritesGo DEF AnswerIsNotOlder, At, clocks
  <1> QED
    BY <1>5, <1>6, <1>7, <1>10, <1>11, <1>12, <1>13, <1>14, <1>16, <1>17, <1>18, <1>19

-------------------------------------------------------------------------------

\* The row is flushed.
LEMMA InsertRowInv == ASSUME IInv, NEW j \in Jobs, InsertRow(j) PROVE IInv'
  <1> USE DEF IInv, InsertRow, At, Go, files
  <1>1. TypeOK'
    BY DEF TypeOK, Stages, Holding, Writing
  <1>2. j \notin rows /\ Evaluating(j)
    BY DEF StageInv, Stored
  <1>3. HolderInv' /\ OrderInv' /\ SummaryInv'
    BY <1>2 DEF TypeOK, HolderInv, OrderInv, SummaryInv, Holding, Writing, Stored
  <1>4. \A i \in Jobs : StageInv(i)' /\ TimeInv(i)' /\ FileInv(i)'
    BY <1>2 DEF TypeOK, StageInv, TimeInv, FileInv, Evaluating, IdOf, Writing, Stored, Time
  <1>5. /\ StoredRunHasItsReport' /\ LatestReportIsNotOutdated'
        /\ ArtifactsOfOneTraining' /\ AnswerIsNotOlder'
    BY <1>2 DEF TypeOK, StoredRunHasItsReport, LatestReportIsNotOutdated,
           ArtifactsOfOneTraining, AnswerIsNotOlder, IdOf
  <1> QED
    BY <1>1, <1>3, <1>4, <1>5

\* Row and data set become visible; the files of the run are its own.
LEMMA CommitInv == ASSUME IInv, NEW j \in Jobs, Commit(j) PROVE IInv'
  <1> USE DEF IInv, Commit, DataSet!Publish, At, Go, clocks, files
  <1>1. TypeOK'
    BY JobsAssumption DEF TypeOK, Stages, Stored
  <1>2. \A i \in Jobs : pc'[i] \notin Holding
    BY DEF TypeOK, HolderInv, Holding, Writing
  <1>3. HolderInv' /\ OrderInv' /\ SummaryInv'
    BY <1>2, JobsAssumption DEF TypeOK, HolderInv, OrderInv, SummaryInv, Stored
  <1>4. kind[j] # "train" <=> Evaluating(j)
    BY KindsAssumption DEF StageInv, Evaluating, TypeOK
  <1>5. \A i \in Jobs : StageInv(i)' /\ TimeInv(i)' /\ FileInv(i)'
    BY <1>4 DEF TypeOK, StageInv, TimeInv, FileInv, Evaluating, IdOf, Writing, Stored
  <1>6. Evaluating(j) => /\ json[IdOf(j)] = j /\ csv[IdOf(j)] = j /\ latest = j
    BY DEF FileInv
  <1>7. StoredRunHasItsReport'
    BY <1>4, <1>6 DEF TypeOK, StoredRunHasItsReport, IdOf
  <1>8. LatestReportIsNotOutdated'
    BY <1>4, <1>6, JobsAssumption DEF TypeOK, LatestReportIsNotOutdated, Time
  <1>9. ArtifactsOfOneTraining'
    BY DEF TypeOK, ArtifactsOfOneTraining
  <1>10. AnswerIsNotOlder'
    BY DEF TypeOK, AnswerIsNotOlder
  <1> QED
    BY <1>1, <1>3, <1>5, <1>7, <1>8, <1>9, <1>10

\* The latest row is at least as new as the caller's own.
LEMMA AnswerInv == ASSUME IInv, NEW j \in Jobs, Answer(j) PROVE IInv'
  <1> USE DEF IInv, Answer, At, Go, clocks, files
  <1>1. TypeOK'
    BY DEF TypeOK, Stages, Stored
  <1>2. HolderInv' /\ OrderInv' /\ SummaryInv'
    BY DEF TypeOK, HolderInv, OrderInv, SummaryInv, Holding, Writing, Stored
  <1>3. \A i \in Jobs : StageInv(i)' /\ TimeInv(i)' /\ FileInv(i)'
    BY DEF TypeOK, StageInv, TimeInv, FileInv, Evaluating, IdOf, Writing, Stored
  <1>4. StoredRunHasItsReport' /\ LatestReportIsNotOutdated' /\ ArtifactsOfOneTraining'
    BY DEF TypeOK, StoredRunHasItsReport, LatestReportIsNotOutdated, ArtifactsOfOneTraining, IdOf
  <1>5. j \in rows
    BY DEF StageInv, Evaluating, Stored
  <1>6. AnswerIsNotOlder'
    BY <1>5 DEF TypeOK, AnswerIsNotOlder
  <1> QED
    BY <1>1, <1>2, <1>3, <1>4, <1>6

\* A step in which nothing happens.
LEMMA StutterInv == ASSUME IInv, UNCHANGED vars PROVE IInv'
  BY DEF IInv, vars, clocks, files, TypeOK, HolderInv, OrderInv, SummaryInv, StageInv, TimeInv,
         FileInv, StoredRunHasItsReport, LatestReportIsNotOutdated, ArtifactsOfOneTraining,
         AnswerIsNotOlder, IdOf, Evaluating, At

-------------------------------------------------------------------------------

\* Every reachable state of the jobs satisfies the inductive invariant.
THEOREM JobsConsistent == Spec => []IInv
  <1>1. IInv /\ [Next]_vars => IInv'
    <2> SUFFICES ASSUME IInv, Next PROVE IInv'
      BY StutterInv
    <2>1. CASE Tick
      BY <2>1, TickInv
    <2>2. ASSUME NEW j \in Jobs, Write(j) \/ WriteFails(j) PROVE IInv'
      BY <2>2, WritesAre, WritesInv
    <2>3. ASSUME NEW j \in Jobs, Begin(j) \/ Take(j) \/ Score(j) \/ Name(j) PROVE IInv'
      BY <2>3, BeginInv, TakeInv, ScoreInv, NameInv
    <2>4. ASSUME NEW j \in Jobs,
                 InsertRow(j) \/ Commit(j) \/ Answer(j) \/ (Fail(j) /\ UNCHANGED files)
          PROVE  IInv'
      BY <2>4, InsertRowInv, CommitInv, AnswerInv, FailInv
    <2> QED
      BY <2>1, <2>2, <2>3, <2>4 DEF Next
  <1> QED
    BY InitInv, <1>1, PTL DEF Spec

\* Every variable of the jobs keeps its type.
THEOREM JobsTyped == Spec => []TypeOK
  <1>1. IInv => TypeOK
    BY DEF IInv
  <1> QED
    BY <1>1, JobsConsistent, PTL

\* The report files that a stored run points at are its own, for any number of jobs.
THEOREM ReportsAreOwn == Spec => []StoredRunHasItsReport
  <1>1. IInv => StoredRunHasItsReport
    BY DEF IInv
  <1> QED
    BY <1>1, JobsConsistent, PTL

\* latest_report.md is never older than a stored run.
THEOREM SummaryIsCurrent == Spec => []LatestReportIsNotOutdated
  <1>1. IInv => LatestReportIsNotOutdated
    BY DEF IInv
  <1> QED
    BY <1>1, JobsConsistent, PTL

\* The two files of a training belong together.
THEOREM BundleIsWhole == Spec => []ArtifactsOfOneTraining
  <1>1. IInv => ArtifactsOfOneTraining
    BY DEF IInv
  <1> QED
    BY <1>1, JobsConsistent, PTL

\* The API answers with a run that is not older than the caller's own.
THEOREM AnswersAreCurrent == Spec => []AnswerIsNotOlder
  <1>1. IInv => AnswerIsNotOlder
    BY DEF IInv
  <1> QED
    BY <1>1, JobsConsistent, PTL

-------------------------------------------------------------------------------
(* The data set.                                                           *)

\* What a step makes of the data set: a wipe gets it, a commit publishes it, a rollback gives
\* it back, and every other step leaves it alone.
LEMMA DataSetStep ==
  ASSUME IInv, Next
  PROVE  \/ \E j \in Jobs : DataSet!Take(j) \/ DataSet!Publish(j) \/ DataSet!Release(j)
         \/ UNCHANGED <<holder, data>>
  <1>1. ASSUME NEW j \in Jobs, Fail(j)
        PROVE  DataSet!Release(j) \/ UNCHANGED <<holder, data>>
    <2>1. CASE holder = j
      BY <1>1, <2>1 DEF Fail, DataSet!Release
    <2>2. CASE holder # j
      BY <1>1, <2>2 DEF Fail
    <2> QED
      BY <2>1, <2>2
  <1>2. ASSUME NEW j \in Jobs, Take(j) PROVE DataSet!Take(j)
    BY <1>2 DEF Take
  <1>3. ASSUME NEW j \in Jobs, Commit(j) PROVE DataSet!Publish(j)
    BY <1>3 DEF Commit
  <1>4. ASSUME NEW j \in Jobs, Begin(j) \/ Score(j) \/ Name(j) \/ Write(j) \/ InsertRow(j) \/ Answer(j)
        PROVE  UNCHANGED <<holder, data>>
    BY <1>4 DEF Begin, Score, Name, Write, InsertRow, Answer
  <1>5. Tick => UNCHANGED <<holder, data>>
    BY DEF Tick
  <1> QED
    BY <1>1, <1>2, <1>3, <1>4, <1>5 DEF Next, WriteFails

\* The jobs take the data set as Regeneration allows, which IncidentStore implements: they
\* have it to themselves from their first wipe to the end of their transaction
\* (evaluation/runner.py, ml/training.py).
THEOREM JobsRegenerateInTurn == Spec => DataSet!Spec
  <1>1. Init => DataSet!Init
    BY JobsAssumption DEF Init, DataSet!Init
  <1>2. IInv /\ [Next]_vars => [DataSet!Next]_(DataSet!vars)
    <2> SUFFICES ASSUME IInv, [Next]_vars PROVE [DataSet!Next]_(DataSet!vars)
      OBVIOUS
    <2>1. CASE UNCHANGED vars
      BY <2>1 DEF vars, DataSet!vars
    <2>2. CASE Next
      BY <2>2, DataSetStep DEF DataSet!Next, DataSet!vars
    <2> QED
      BY <2>1, <2>2
  <1> QED
    BY <1>1, <1>2, JobsConsistent, PTL DEF Spec, DataSet!Spec

\* The holder has wiped what is committed, as nothing is committed while it holds the data set.
LEMMA HolderHasSeen == Spec => []SeenInv
  <1>1. Init => SeenInv
    BY DEF Init, SeenInv, Holding, Writing
  <1>2. IInv /\ IInv' /\ SeenInv /\ [Next]_vars => SeenInv'
    <2> SUFFICES ASSUME IInv, IInv', SeenInv, [Next]_vars, NEW j \in Jobs, pc'[j] \in Holding
                 PROVE  seen'[j] = data'
      BY DEF SeenInv
    <2>1. CASE UNCHANGED vars
      BY <2>1 DEF vars, SeenInv
    <2>2. CASE Tick
      BY <2>2 DEF Tick, SeenInv
    <2>3. ASSUME NEW i \in Jobs, Commit(i) PROVE FALSE
      <3>1. holder' = None /\ None \notin Jobs
        BY <2>3, JobsAssumption DEF Commit, DataSet!Publish
      <3> QED
        BY <3>1 DEF IInv, HolderInv
    <2>4. ASSUME NEW i \in Jobs, Take(i) PROVE seen'[j] = data'
      <3>1. pc' = [pc EXCEPT ![i] = "scoring"] /\ seen' = seen /\ data' = data /\ seen[i] = data
        BY <2>4 DEF Take, DataSet!Take, Go
      <3> QED
        BY <3>1 DEF SeenInv, IInv, TypeOK
    <2>5. ASSUME NEW i \in Jobs, Begin(i) PROVE seen'[j] = data'
      <3>1. /\ pc' = [pc EXCEPT ![i] = "restoring"] /\ data' = data
            /\ seen' = [seen EXCEPT ![i] = data]
        BY <2>5 DEF Begin, Go
      <3>2. j # i
        BY <3>1 DEF IInv, TypeOK, Holding, Writing
      <3> QED
        BY <3>1, <3>2 DEF SeenInv, IInv, TypeOK
    <2>6. ASSUME NEW i \in Jobs, NEW stage, pc[i] \in Holding \/ stage \notin Holding,
                 pc' = [pc EXCEPT ![i] = stage], seen' = seen, data' = data
          PROVE  seen'[j] = data'
      BY <2>6 DEF SeenInv, IInv, TypeOK
    <2>7. ASSUME NEW i \in Jobs, Score(i) \/ Name(i) \/ InsertRow(i) PROVE seen'[j] = data'
      <3>1. \E stage : /\ pc[i] \in Holding /\ pc' = [pc EXCEPT ![i] = stage]
                       /\ seen' = seen /\ data' = data
        BY <2>7 DEF Score, Name, InsertRow, At, Go, Holding
      <3> QED
        BY <3>1, <2>6
    <2>8. ASSUME NEW i \in Jobs, Write(i) PROVE seen'[j] = data'
      <3>1. \E stage : /\ pc[i] \in Holding /\ pc' = [pc EXCEPT ![i] = stage]
                       /\ seen' = seen /\ data' = data
        BY <2>8 DEF Write, Go, Holding
      <3> QED
        BY <3>1, <2>6
    <2>9. ASSUME NEW i \in Jobs, Fail(i) \/ Answer(i) PROVE seen'[j] = data'
      <3>1. \E stage : /\ stage \notin Holding /\ pc' = [pc EXCEPT ![i] = stage]
                       /\ seen' = seen /\ data' = data
        BY <2>9 DEF Fail, Answer, Go, Holding, Writing
      <3> QED
        BY <3>1, <2>6
    <2> QED
      BY <2>1, <2>2, <2>3, <2>4, <2>5, <2>7, <2>8, <2>9 DEF Next, WriteFails
  <1> QED
    BY <1>1, <1>2, JobsConsistent, PTL DEF Spec

\* What a job commits replaces the data set that it has wiped.
THEOREM ReplacedIsSeen == Spec => NothingReplacedUnseen
  <1>1. IInv /\ SeenInv /\ [Next]_vars => [\A j \in Jobs : data' = j /\ data # j => seen[j] = data]_vars
    <2> SUFFICES ASSUME IInv, SeenInv, Next, NEW j \in Jobs, data' = j, data # j PROVE seen[j] = data
      OBVIOUS
    <2>1. \E i \in Jobs : DataSet!Publish(i)
      BY DataSetStep DEF DataSet!Take, DataSet!Release
    <2>2. holder = j
      BY <2>1 DEF DataSet!Publish
    <2> QED
      BY <2>2 DEF IInv, HolderInv, SeenInv
  <1> QED
    BY <1>1, JobsConsistent, HolderHasSeen, PTL DEF Spec, NothingReplacedUnseen
===============================================================================
