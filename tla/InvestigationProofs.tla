------------------------- MODULE InvestigationProofs --------------------------
(***************************************************************************)
(* Proofs about Investigation for every set of runs, incidents, alerts and *)
(* budgets.                                                                *)
(***************************************************************************)
EXTENDS Investigation, FiniteSetTheorems, TLAPS

-------------------------------------------------------------------------------
(* The tables.                                                             *)

\* Every step of every playbook names a tool (build_playbook).
LEMMA PlanType == ASSUME NEW c \in RootCauses PROVE Plan(c) \in Seq(ToolTypes)
  <1>1. /\ <<"sql", "pipeline", "log", "lineage", "historical">> \in Seq(ToolTypes)
        /\ <<"sql", "log", "lineage", "historical">> \in Seq(ToolTypes)
        /\ <<"sql", "pipeline", "lineage", "historical">> \in Seq(ToolTypes)
    BY DEF ToolTypes
  <1>2. /\ <<"schema", "pipeline", "log", "lineage", "historical">> \in Seq(ToolTypes)
        /\ <<"pipeline", "log", "lineage", "historical">> \in Seq(ToolTypes)
        /\ <<"log", "schema", "lineage", "historical">> \in Seq(ToolTypes)
    BY DEF ToolTypes
  <1>3. /\ <<"log", "pipeline", "lineage", "historical">> \in Seq(ToolTypes)
        /\ <<"sql", "lineage", "historical">> \in Seq(ToolTypes)
    BY DEF ToolTypes
  <1> QED
    BY <1>1, <1>2, <1>3 DEF Plan

\* Every confidence FakeLLM reports is a percentage (_confidence_for).
LEMMA ConfidenceType == ASSUME NEW n PROVE ConfidenceFor(n) \in 0..100
  BY DEF ConfidenceFor

\* The tool about to be called is a tool (FakeLLM.decide).
LEMMA NextToolType ==
  ASSUME TypeOK, NEW r \in Runs, PlanLeft(r)
  PROVE  NextTool(r) \in ToolTypes
  <1>1. leading[r] \in RootCauses /\ Len(collected[r]) \in Nat
    BY DEF TypeOK
  <1>2. Plan(leading[r]) \in Seq(ToolTypes)
    BY <1>1, PlanType
  <1>3. Len(collected[r]) + 1 \in 1..Len(Plan(leading[r]))
    BY <1>1, <1>2 DEF PlanLeft
  <1> QED
    BY <1>2, <1>3 DEF NextTool

\* The leading cause is one of the taxonomy (build_context).
LEMMA LeadingType ==
  ASSUME NEW i \in Incidents PROVE LeadingCauses(i) \subseteq RootCauses
  BY DEF LeadingCauses, NamedCauses, RootCauses

\* Detection stored well-formed alert evidence (create_incident_from_alerts).
LEMMA AlertRowsType ==
  ASSUME NEW i \in Incidents PROVE AlertRows(i) \subseteq Rows
  <1> SUFFICES ASSUME NEW k \in DOMAIN AlertCauses[i]
               PROVE [id |-> <<i, k>>, incident |-> i, type |-> "alert"] \in Rows
    BY DEF AlertRows
  <1>1. k \in Nat
    BY AlertsAssumption
  <1> QED
    BY <1>1 DEF Rows, EvidenceIds

-------------------------------------------------------------------------------
(* Type correctness.                                                       *)

\* Before any request every variable has its type.
LEMMA InitTypeOK == Init => TypeOK
  <1> SUFFICES ASSUME Init PROVE TypeOK
    OBVIOUS
  <1>1. EmptyReport \in Reports
    BY DEF EmptyReport, Reports, RootCauses
  <1>2. evidence \subseteq Rows
    BY AlertRowsType DEF Init
  <1> QED
    BY <1>1, <1>2, BudgetAssumption DEF Init, TypeOK, Stages, RootCauses, RunStatuses

\* Appending an item to the log keeps the types of everything Collect touches.
LEMMA CollectType ==
  ASSUME TypeOK, NEW r \in Runs, NEW id \in EvidenceIds \cup {NoEvidence},
         NEW type \in ToolTypes \cup {"error"}, Collect(r, id, type)
  PROVE  collected' \in [Runs -> Seq(Items)]
  <1>1. [id |-> id, type |-> type] \in Items
    BY DEF Items
  <1>2. Append(collected[r], [id |-> id, type |-> type]) \in Seq(Items)
    BY <1>1 DEF TypeOK
  <1> QED
    BY <1>2 DEF Collect, TypeOK

\* The id of a run's next evidence row.
LEMMA NextIdType ==
  ASSUME TypeOK, NEW r \in Runs
  PROVE  <<r, Len(collected[r]) + 1>> \in EvidenceIds
  BY DEF TypeOK, EvidenceIds

\* A tool call, however it ends, keeps the types (the try block of the loop).
LEMMA CallToolTypeOK ==
  ASSUME TypeOK, NEW r \in Runs, CallTool(r)
  PROVE  TypeOK'
  <1>1. PlanLeft(r)
    BY DEF CallTool, ToolSucceeds, SelectFails, FlushFails, ToolOnPoisonedSession, Calling
  <1>2. NextTool(r) \in ToolTypes
    BY <1>1, NextToolType
  <1>3. collected' \in [Runs -> Seq(Items)]
    BY <1>2, CollectType, NextIdType
       DEF CallTool, ToolSucceeds, SelectFails, FlushFails, ToolOnPoisonedSession
  <1>4. pending' \in [Runs -> SUBSET Rows]
    <2>1. EvidenceRow(r, Len(collected[r]) + 1, NextTool(r)) \in Rows
      BY <1>2, NextIdType DEF EvidenceRow, Rows, TypeOK
    <2> QED
      <3>1. CASE ToolSucceeds(r)
        BY <2>1, <3>1 DEF ToolSucceeds, TypeOK
      <3>2. CASE pending' = pending \/ pending' = [pending EXCEPT ![r] = {}]
        BY <3>2 DEF TypeOK
      <3> QED
        BY <3>1, <3>2 DEF CallTool, SelectFails, FlushFails, ToolOnPoisonedSession, Poison
  <1>5. tx' \in [Runs -> {"none", "open", "poisoned"}]
    BY DEF CallTool, ToolSucceeds, SelectFails, FlushFails, ToolOnPoisonedSession,
           Poison, TypeOK
  <1>6. UNCHANGED <<dialect, pc, incident, leading, elapsed, exhausted, report, status,
                    evidence, agentRuns>>
    BY DEF CallTool, ToolSucceeds, SelectFails, FlushFails, ToolOnPoisonedSession, Collect
  <1> QED
    BY <1>3, <1>4, <1>5, <1>6 DEF TypeOK

\* A synthesized report is a report (FakeLLM.synthesize).
LEMMA SynthesizedType ==
  ASSUME NEW cited \in SUBSET (EvidenceIds \cup {NoEvidence}), NEW cause \in RootCauses,
         NEW confidence \in 0..100
  PROVE  [EmptyReport EXCEPT !.cited = cited, !.cause = cause, !.confidence = confidence]
           \in Reports
  BY DEF Reports, EmptyReport

\* The verdict of the validator leaves a report (validate_report).
LEMMA ValidatedType ==
  ASSUME NEW rep \in Reports, NEW u \in BOOLEAN, NEW p \in BOOLEAN
  PROVE  [rep EXCEPT !.unsupported = u, !.passed = p] \in Reports
  BY DEF Reports

\* The verdict of the policy leaves a report (evaluate_human_review).
LEMMA ReviewedType ==
  ASSUME NEW rep \in Reports, NEW v \in BOOLEAN
  PROVE  [rep EXCEPT !.review = v] \in Reports
  BY DEF Reports

\* Synthesis keeps the types: the cited ids are ids or "".
LEMMA SynthesizeTypeOK ==
  ASSUME TypeOK, NEW r \in Runs, Synthesize(r)
  PROVE  TypeOK'
  <1>1. {e.id : e \in AlertRows(incident[r])} \subseteq EvidenceIds
    BY AlertRowsType DEF TypeOK, Rows
  <1>2. {collected[r][k].id : k \in DOMAIN collected[r]} \subseteq EvidenceIds \cup {NoEvidence}
    <2>1. ASSUME NEW k \in DOMAIN collected[r] PROVE collected[r][k] \in Items
      BY DEF TypeOK
    <2> QED
      BY <2>1 DEF Items
  <1>3. leading[r] \in RootCauses
    BY DEF TypeOK
  <1>4. ConfidenceFor(Cardinality(Types(r))) \in 0..100
    BY ConfidenceType
  <1>5. report' \in [Runs -> Reports]
    <2> DEFINE cited == {e.id : e \in AlertRows(incident[r])}
                          \cup {collected[r][k].id : k \in DOMAIN collected[r]}
               confidence == ConfidenceFor(Cardinality(Types(r)))
               new == [EmptyReport EXCEPT !.cited = cited, !.cause = leading[r],
                                          !.confidence = confidence]
    <2>1. cited \in SUBSET (EvidenceIds \cup {NoEvidence}) /\ confidence \in 0..100
      BY <1>1, <1>2, <1>4
    <2>2. report' = [report EXCEPT ![r] = new]
      BY DEF Synthesize
    <2>3. new \in Reports
      <3> HIDE DEF cited, confidence
      <3> QED
        BY <2>1, <1>3, SynthesizedType
    <2> HIDE DEF new
    <2> QED
      BY <2>2, <2>3 DEF TypeOK
  <1> QED
    BY <1>5 DEF Synthesize, TypeOK, Stages

\* Validation keeps the types.
LEMMA ValidateTypeOK ==
  ASSUME TypeOK, NEW r \in Runs, Validate(r)
  PROVE  TypeOK'
  <1>1. report[r] \in Reports
    BY DEF TypeOK
  <1>2. PICK rep \in Reports : report' = [report EXCEPT ![r] = rep]
    BY <1>1, ValidatedType DEF Validate, TypeOK
  <1>3. report' \in [Runs -> Reports]
    BY <1>2 DEF TypeOK
  <1> QED
    BY <1>3 DEF Validate, TypeOK, Stages

\* The review and the last flush keep the types.
LEMMA ConcludeTypeOK ==
  ASSUME TypeOK, NEW r \in Runs, Conclude(r)
  PROVE  TypeOK'
  <1>1. report[r] \in Reports
    BY DEF TypeOK
  <1>2. PICK rep \in Reports : report' = [report EXCEPT ![r] = rep]
    BY <1>1, ReviewedType DEF Conclude, TypeOK
  <1>3. report' \in [Runs -> Reports]
    BY <1>2 DEF TypeOK
  <1> QED
    BY <1>3 DEF Conclude, TypeOK, Stages, RunStatuses

\* The number of calls that succeeded is counted over a finite log.
LEMMA ToolCallCountType ==
  ASSUME TypeOK, NEW r \in Runs
  PROVE  ToolCallCount(r) \in Nat
  <1>1. IsFiniteSet(DOMAIN collected[r])
    <2>1. DOMAIN collected[r] = 1..Len(collected[r]) /\ Len(collected[r]) \in Nat
      BY DEF TypeOK
    <2> QED
      BY <2>1, FS_Interval
  <1>2. IsFiniteSet({k \in DOMAIN collected[r] : collected[r][k].type # "error"})
    BY <1>1, FS_Subset
  <1> QED
    BY <1>2, FS_CardinalityType DEF ToolCallCount

\* The commit stores well-formed rows (session_scope).
LEMMA CommitTypeOK ==
  ASSUME TypeOK, NEW r \in Runs, Commit(r)
  PROVE  TypeOK'
  <1>1. RunRow(r) \in RunRows
    BY ToolCallCountType DEF TypeOK, RunRow, RunRows
  <1>2. evidence' \subseteq Rows /\ agentRuns' \subseteq RunRows
    BY <1>1 DEF Commit, TypeOK
  <1> QED
    BY <1>2 DEF Commit, Leave, TypeOK, Stages, RunStatuses

\* The steps that only move a run, give up or wait.
LEMMA ControlTypeOK ==
  ASSUME TypeOK, NEW r \in Runs,
         \/ Start(r) \/ StopOnBudget(r) \/ Finalize(r) \/ Tick(r)
         \/ StatementFails(r) \/ Rollback(r) \/ Crash(r)
  PROVE  TypeOK'
  <1>1. CASE Start(r)
    <2>1. LeadingCauses(incident[r]) \subseteq RootCauses
      BY LeadingType DEF TypeOK
    <2> QED
      BY <1>1, <2>1 DEF Start, TypeOK, Stages, RunStatuses
  <1>2. CASE StopOnBudget(r) \/ Finalize(r) \/ StatementFails(r)
    BY <1>2 DEF StopOnBudget, Finalize, StatementFails, TypeOK, Stages
  <1>3. CASE Tick(r)
    <2>1. elapsed[r] + 1 \in 0..MaxDuration + 1
      BY <1>3, BudgetAssumption DEF Tick, TypeOK
    <2> QED
      BY <1>3, <2>1 DEF Tick, TypeOK
  <1>4. CASE Rollback(r) \/ Crash(r)
    BY <1>4 DEF Rollback, Crash, Leave, TypeOK, Stages
  <1> QED
    BY <1>1, <1>2, <1>3, <1>4

\* Every step keeps the types.
LEMMA NextTypeOK == TypeOK /\ [Next]_vars => TypeOK'
  <1> SUFFICES ASSUME TypeOK, [Next]_vars PROVE TypeOK'
    OBVIOUS
  <1>1. CASE UNCHANGED vars
    BY <1>1 DEF vars, TypeOK
  <1>2. ASSUME NEW r \in Runs,
               Start(r) \/ Advance(r) \/ Tick(r) \/ Crash(r) \/ StatementFails(r)
        PROVE  TypeOK'
    BY <1>2, CallToolTypeOK, SynthesizeTypeOK, ValidateTypeOK, ConcludeTypeOK,
       CommitTypeOK, ControlTypeOK DEF Advance
  <1> QED
    BY <1>1, <1>2 DEF Next

\* Type correctness of every investigation (orchestrator.py, session.py).
THEOREM TypeCorrect == Spec => []TypeOK
  <1> QED
    BY InitTypeOK, NextTypeOK, PTL DEF Spec

-------------------------------------------------------------------------------
(* The inductive invariant.  A step of one run leaves every other run's    *)
(* part of the state alone, so each conjunct is shown for the run that     *)
(* moves, and once and for all for the others.                             *)

Step(r) == Start(r) \/ Advance(r) \/ Tick(r) \/ Crash(r) \/ StatementFails(r)

\* What no step of r touches: the other runs, and the incident of every run.
Local(r) ==
  /\ incident' = incident
  /\ \A q \in Runs \ {r} :
       /\ pc'[q] = pc[q]
       /\ collected'[q] = collected[q]
       /\ report'[q] = report[q]
       /\ status'[q] = status[q]
       /\ tx'[q] = tx[q]
       /\ pending'[q] = pending[q]

\* The state is one of sessions and contexts private to each run.
LEMMA StepIsLocal ==
  ASSUME TypeOK, NEW r \in Runs, Step(r)
  PROVE  Local(r)
  <1>1. CASE CallTool(r)
    BY <1>1 DEF CallTool, ToolSucceeds, SelectFails, FlushFails, ToolOnPoisonedSession,
                Poison, Collect, TypeOK, Local
  <1>2. CASE Start(r) \/ StopOnBudget(r) \/ Finalize(r) \/ Tick(r) \/ StatementFails(r)
    BY <1>2 DEF Start, StopOnBudget, Finalize, Tick, StatementFails, TypeOK, Local
  <1>3. CASE Synthesize(r) \/ Validate(r) \/ Conclude(r)
    BY <1>3 DEF Synthesize, Validate, Conclude, TypeOK, Local
  <1>4. CASE Commit(r) \/ Rollback(r) \/ Crash(r)
    BY <1>4 DEF Commit, Rollback, Crash, Leave, TypeOK, Local
  <1> QED
    BY <1>1, <1>2, <1>3, <1>4 DEF Step, Advance

\* The rows a run left depend on its own log and incident alone.
LEMMA RowsAreLocal ==
  ASSUME NEW q \in Runs, incident' = incident, collected'[q] = collected[q]
  PROVE  /\ CollectedRows(q)' = CollectedRows(q)
         /\ CollectedIds(q)' = CollectedIds(q)
         /\ ToolCallCount(q)' = ToolCallCount(q)
  BY DEF CollectedRows, CollectedIds, ToolCallCount, Calls, EvidenceRow

\* The part of the invariant that speaks of one run.
RunInv(r) == CollectedIsNumbered(r) /\ SessionMatchesMemory(r) /\ StageInv(r)

\* A run whose part of the state is left alone keeps its invariant.
LEMMA OthersKeepRunInv ==
  ASSUME NEW r \in Runs, Local(r), NEW q \in Runs \ {r}, RunInv(q)
  PROVE  RunInv(q)'
  <1>1. /\ CollectedRows(q)' = CollectedRows(q)
        /\ CollectedIds(q)' = CollectedIds(q)
    BY RowsAreLocal DEF Local
  <1> QED
    BY <1>1 DEF Local, RunInv, CollectedIsNumbered, SessionMatchesMemory, StageInv

\* A tool that persisted its evidence has logged the row it flushed.
LEMMA ToolSucceedsRunInv ==
  ASSUME TypeOK, NEW r \in Runs, RunInv(r), ToolSucceeds(r)
  PROVE  RunInv(r)'
  <1> DEFINE n == Len(collected[r]) + 1
             item == [id |-> <<r, n>>, type |-> NextTool(r)]
             row == EvidenceRow(r, n, NextTool(r))
  <1>1. /\ collected'[r] = Append(collected[r], item)
        /\ pending'[r] = pending[r] \cup {row}
        /\ tx'[r] = "open" /\ tx[r] = "open"
        /\ pc'[r] = "deciding" /\ incident' = incident
    BY DEF ToolSucceeds, Collect, TypeOK, Calling
  <1>2. NextTool(r) # "error"
    BY NextToolType DEF ToolSucceeds, Calling, ToolTypes
  <1>3. /\ collected[r] \in Seq(Items) /\ n \in Nat \ {0}
        /\ DOMAIN collected[r] = 1..(n - 1)
    BY DEF TypeOK
  <1>4. /\ DOMAIN collected'[r] = 1..n
        /\ \A k \in 1..(n - 1) : collected'[r][k] = collected[r][k]
        /\ collected'[r][n] = item
    BY <1>1, <1>3
  <1>5. CollectedIsNumbered(r)'
    <2> SUFFICES ASSUME NEW k \in 1..n
                 PROVE  collected'[r][k].id
                          = IF collected'[r][k].type = "error" THEN NoEvidence ELSE <<r, k>>
      BY <1>4 DEF CollectedIsNumbered
    <2>1. CASE k = n
      BY <2>1, <1>2, <1>4
    <2>2. CASE k \in 1..(n - 1)
      BY <2>2, <1>3, <1>4 DEF RunInv, CollectedIsNumbered
    <2> QED
      BY <2>1, <2>2, <1>3
  <1>6. CollectedRows(r)' = CollectedRows(r) \cup {row}
    <2> DEFINE Row(k) == [id |-> <<r, k>>, incident |-> incident'[r],
                          type |-> collected'[r][k].type]
    <2>1. Calls(r)' = Calls(r) \cup {n}
      BY <1>2, <1>3, <1>4 DEF Calls
    <2>2. \A k \in Calls(r) : Row(k) = EvidenceRow(r, k, collected[r][k].type)
      BY <1>1, <1>3, <1>4 DEF Calls, EvidenceRow
    <2>3. Row(n) = row
      BY <1>1, <1>4 DEF EvidenceRow
    <2>4. CollectedRows(r)' = {Row(k) : k \in Calls(r)'}
      BY DEF CollectedRows, EvidenceRow
    <2> HIDE DEF n, row, Row
    <2> QED
      BY <2>1, <2>2, <2>3, <2>4 DEF CollectedRows
  <1> HIDE DEF n, item, row
  <1> QED
    BY <1>1, <1>5, <1>6 DEF RunInv, SessionMatchesMemory, StageInv

\* A failed call is logged without an id and adds no row; where it poisons the
\* session nothing flushed is left.
LEMMA ToolFailsRunInv ==
  ASSUME TypeOK, NEW r \in Runs, RunInv(r),
         SelectFails(r) \/ FlushFails(r) \/ ToolOnPoisonedSession(r)
  PROVE  RunInv(r)'
  <1> DEFINE n == Len(collected[r]) + 1
             item == [id |-> NoEvidence, type |-> "error"]
  <1>1. /\ collected'[r] = Append(collected[r], item)
        /\ \/ tx'[r] = "poisoned"
           \/ tx'[r] = tx[r] /\ pending'[r] = pending[r]
        /\ pc'[r] = "deciding" /\ incident' = incident
    BY DEF SelectFails, FlushFails, ToolOnPoisonedSession, Poison, Collect, TypeOK, Calling
  <1>2. /\ collected[r] \in Seq(Items) /\ n \in Nat \ {0}
        /\ DOMAIN collected[r] = 1..(n - 1)
    BY DEF TypeOK
  <1>3. /\ DOMAIN collected'[r] = 1..n
        /\ \A k \in 1..(n - 1) : collected'[r][k] = collected[r][k]
        /\ collected'[r][n] = item
    BY <1>1, <1>2
  <1>4. CollectedIsNumbered(r)'
    <2> SUFFICES ASSUME NEW k \in 1..n
                 PROVE  collected'[r][k].id
                          = IF collected'[r][k].type = "error" THEN NoEvidence ELSE <<r, k>>
      BY <1>3 DEF CollectedIsNumbered
    <2>1. CASE k = n
      BY <2>1, <1>3
    <2>2. CASE k \in 1..(n - 1)
      BY <2>2, <1>2, <1>3 DEF RunInv, CollectedIsNumbered
    <2> QED
      BY <2>1, <2>2, <1>2
  <1>5. CollectedRows(r)' = CollectedRows(r)
    <2>1. Calls(r)' = Calls(r)
      BY <1>2, <1>3 DEF Calls
    <2>2. \A k \in Calls(r) :
            EvidenceRow(r, k, collected[r][k].type)' = EvidenceRow(r, k, collected[r][k].type)
      BY <1>1, <1>2, <1>3 DEF Calls, EvidenceRow
    <2> QED
      BY <2>1, <2>2 DEF CollectedRows
  <1> HIDE DEF n, item
  <1> QED
    BY <1>1, <1>4, <1>5 DEF RunInv, SessionMatchesMemory, StageInv

\* The steps that leave the log alone: they touch the session only by opening
\* or closing it, and the report only on the way to the next stage.
LEMMA QuietStepRunInv ==
  ASSUME TypeOK, NEW r \in Runs, RunInv(r), Step(r), ~CallTool(r)
  PROVE  RunInv(r)'
  <1>1. incident' = incident /\ collected' = collected
    BY DEF Step, Advance, Start, StopOnBudget, Finalize, Tick, StatementFails, Synthesize,
           Validate, Conclude, Commit, Rollback, Crash, Leave
  <1>2. /\ CollectedRows(r)' = CollectedRows(r)
        /\ CollectedIds(r)' = CollectedIds(r)
    BY <1>1, RowsAreLocal
  <1>3. CollectedIsNumbered(r)'
    BY <1>1 DEF RunInv, CollectedIsNumbered
  <1>4. SessionMatchesMemory(r)'
    <2>1. CASE Start(r)
      <3>1. CollectedRows(r) = {} /\ pending'[r] = {}
        BY <2>1 DEF Start, RunInv, StageInv, CollectedRows, Calls
      <3> QED
        BY <3>1, <1>2 DEF SessionMatchesMemory
    <2>2. CASE tx'[r] = "none"
      BY <2>2 DEF SessionMatchesMemory
    <2>3. CASE tx' = tx /\ pending' = pending
      BY <2>3, <1>2 DEF RunInv, SessionMatchesMemory
    <2> QED
      BY <2>1, <2>2, <2>3
         DEF Step, Advance, StopOnBudget, Finalize, Tick, StatementFails, Synthesize,
             Validate, Conclude, Commit, Rollback, Crash, Leave, TypeOK
  <1>5. StageInv(r)'
    <2>1. CASE Start(r) \/ StopOnBudget(r) \/ Finalize(r) \/ Tick(r) \/ StatementFails(r)
      BY <2>1, <1>1, <1>2
         DEF Start, StopOnBudget, Finalize, Tick, StatementFails, StageInv, RunInv, TypeOK
    <2>2. CASE Synthesize(r)
      <3>1. pc'[r] = "validating"
        BY <2>2 DEF Synthesize, TypeOK
      <3>2. report'[r].cited = AlertIds(incident[r]) \cup CollectedIds(r)
        BY <2>2 DEF Synthesize, TypeOK, EmptyReport, AlertIds, CollectedIds
      <3> QED
        BY <3>1, <3>2, <1>1, <1>2 DEF StageInv
    <2>3. CASE Validate(r)
      <3>1. pc[r] = "validating" /\ pc'[r] = "concluding"
        BY <2>3 DEF Validate, TypeOK
      <3>2. report[r] \in Reports
        BY DEF TypeOK
      <3>3. report'[r].cited = report[r].cited
        BY <2>3, <3>2 DEF Validate, TypeOK, Reports
      <3> QED
        BY <3>1, <3>3, <1>1, <1>2 DEF StageInv, RunInv
    <2>4. CASE Conclude(r)
      <3>1. pc[r] = "concluding" /\ pc'[r] = "committing" /\ status'[r] = "completed"
        BY <2>4 DEF Conclude, TypeOK
      <3>2. report[r] \in Reports
        BY DEF TypeOK
      <3>3. report'[r].cited = report[r].cited
        BY <2>4, <3>2 DEF Conclude, TypeOK, Reports
      <3> QED
        BY <3>1, <3>3, <1>1, <1>2 DEF StageInv, RunInv
    <2>5. CASE Commit(r) \/ Rollback(r) \/ Crash(r)
      BY <2>5, <1>1, <1>2 DEF Commit, Rollback, Crash, Leave, StageInv, RunInv, TypeOK
    <2> QED
      BY <2>1, <2>2, <2>3, <2>4, <2>5 DEF Step, Advance
  <1> QED
    BY <1>3, <1>4, <1>5 DEF RunInv

\* A step that stores nothing, of a run that neither was nor becomes recorded,
\* leaves the store as consistent as it was.
LEMMA StoreKept ==
  ASSUME TypeOK, NEW r \in Runs, Local(r), StoreInv,
         evidence' = evidence, agentRuns' = agentRuns,
         pc[r] # "recorded", pc'[r] # "recorded"
  PROVE  StoreInv'
  <1>1. \A q \in Runs \ {r} :
          CollectedRows(q)' = CollectedRows(q) /\ RunRow(q)' = RunRow(q)
    BY RowsAreLocal DEF Local, RunRow
  <1>2. \A q \in Runs \ {r} : pc'[q] = pc[q]
    BY DEF Local
  <1>3. \A i \in Incidents : AlertRows(i)' = AlertRows(i)
    BY DEF AlertRows
  <1>4. \A a \in agentRuns : a.run \in Runs
    BY DEF TypeOK, RunRows
  <1>5. (\A i \in Incidents : AlertRows(i) \subseteq evidence)'
    BY <1>3 DEF StoreInv
  <1>6. (\A a \in agentRuns : pc[a.run] = "recorded" /\ a = RunRow(a.run))'
    BY <1>1, <1>2, <1>4 DEF StoreInv
  <1>7. (\A q \in Runs : pc[q] = "recorded" =>
           RunRow(q) \in agentRuns /\ CollectedRows(q) \subseteq evidence)'
    BY <1>1, <1>2 DEF StoreInv
  <1>8. (\A e \in evidence :
           \/ \E i \in Incidents : e \in AlertRows(i)
           \/ \E q \in Runs : pc[q] = "recorded" /\ e \in CollectedRows(q))'
    <2> SUFFICES ASSUME NEW e \in evidence
                 PROVE  \/ \E i \in Incidents : e \in AlertRows(i)'
                        \/ \E q \in Runs : pc'[q] = "recorded" /\ e \in CollectedRows(q)'
      OBVIOUS
    <2>1. CASE \E i \in Incidents : e \in AlertRows(i)
      BY <2>1, <1>3
    <2>2. CASE \E q \in Runs : pc[q] = "recorded" /\ e \in CollectedRows(q)
      BY <2>2, <1>1, <1>2
    <2> QED
      BY <2>1, <2>2 DEF StoreInv
  <1> QED
    BY <1>5, <1>6, <1>7, <1>8 DEF StoreInv

\* The commit stores the AgentRun row and, because the session is in step with
\* the log, exactly the rows the log names.
LEMMA CommitStoreInv ==
  ASSUME TypeOK, NEW r \in Runs, Local(r), StoreInv, RunInv(r), Commit(r)
  PROVE  StoreInv'
  <1>1. /\ evidence' = evidence \cup CollectedRows(r)
        /\ agentRuns' = agentRuns \cup {RunRow(r)}
        /\ pc[r] = "committing" /\ pc'[r] = "recorded"
    BY DEF Commit, Leave, TypeOK, RunInv, SessionMatchesMemory
  <1>2. \A q \in Runs : CollectedRows(q)' = CollectedRows(q)
    BY RowsAreLocal DEF Commit, Leave
  <1>3. \A q \in Runs : RunRow(q)' = RunRow(q)
    BY RowsAreLocal DEF Commit, Leave, RunRow
  <1>4. \A q \in Runs \ {r} : pc'[q] = pc[q]
    BY DEF Local
  <1>5. \A i \in Incidents : AlertRows(i)' = AlertRows(i)
    BY DEF AlertRows
  <1>6. \A a \in agentRuns : a.run \in Runs /\ a.run # r
    BY <1>1 DEF TypeOK, RunRows, StoreInv
  <1>7. RunRow(r).run = r
    BY DEF RunRow
  <1>8. (\A i \in Incidents : AlertRows(i) \subseteq evidence)'
    BY <1>1, <1>5 DEF StoreInv
  <1>9. (\A a \in agentRuns : pc[a.run] = "recorded" /\ a = RunRow(a.run))'
    BY <1>1, <1>3, <1>4, <1>6, <1>7 DEF StoreInv
  <1>10. (\A q \in Runs : pc[q] = "recorded" =>
            RunRow(q) \in agentRuns /\ CollectedRows(q) \subseteq evidence)'
    BY <1>1, <1>2, <1>3, <1>4 DEF StoreInv
  <1>11. (\A e \in evidence :
            \/ \E i \in Incidents : e \in AlertRows(i)
            \/ \E q \in Runs : pc[q] = "recorded" /\ e \in CollectedRows(q))'
    <2> SUFFICES ASSUME NEW e \in evidence'
                 PROVE  \/ \E i \in Incidents : e \in AlertRows(i)'
                        \/ \E q \in Runs : pc'[q] = "recorded" /\ e \in CollectedRows(q)'
      OBVIOUS
    <2>1. CASE e \in CollectedRows(r)
      BY <2>1, <1>1, <1>2
    <2>2. CASE \E i \in Incidents : e \in AlertRows(i)
      BY <2>2, <1>5
    <2>3. CASE \E q \in Runs : pc[q] = "recorded" /\ e \in CollectedRows(q)
      BY <2>3, <1>1, <1>2, <1>4
    <2> QED
      BY <2>1, <2>2, <2>3, <1>1 DEF StoreInv
  <1> QED
    BY <1>8, <1>9, <1>10, <1>11 DEF StoreInv

\* Every step of a run keeps the store consistent.
LEMMA StepStoreInv ==
  ASSUME TypeOK, NEW r \in Runs, StoreInv, RunInv(r), Step(r)
  PROVE  StoreInv'
  <1>1. Local(r)
    BY StepIsLocal
  <1>2. CASE Commit(r)
    BY <1>1, <1>2, CommitStoreInv
  <1>3. CASE ~Commit(r)
    <2>1. evidence' = evidence /\ agentRuns' = agentRuns
      BY <1>3 DEF Step, Advance, CallTool, ToolSucceeds, SelectFails, FlushFails,
                  ToolOnPoisonedSession, Collect, Start, StopOnBudget, Finalize, Tick,
                  StatementFails, Synthesize, Validate, Conclude, Rollback, Crash
    <2>2. pc[r] # "recorded" /\ pc'[r] # "recorded"
      BY <1>3 DEF Step, Advance, CallTool, ToolSucceeds, SelectFails, FlushFails,
                  ToolOnPoisonedSession, Calling, Collect, Start, StopOnBudget, Finalize,
                  Tick, StatementFails, Synthesize, Validate, Conclude, Rollback, Crash,
                  Leave, Finished, TypeOK
    <2> QED
      BY <2>1, <2>2, <1>1, StoreKept
  <1> QED
    BY <1>2, <1>3

\* Before any request the store holds the alert evidence and nothing else.
LEMMA InitIInv == Init => IInv
  <1> SUFFICES ASSUME Init PROVE IInv
    OBVIOUS
  <1>1. TypeOK
    BY InitTypeOK
  <1>2. \A r \in Runs : CollectedIsNumbered(r) /\ SessionMatchesMemory(r) /\ StageInv(r)
    BY DEF Init, CollectedIsNumbered, SessionMatchesMemory, StageInv
  <1>3. StoreInv
    BY DEF Init, StoreInv
  <1> QED
    BY <1>1, <1>2, <1>3 DEF IInv

\* The invariant is inductive.
LEMMA NextIInv == IInv /\ [Next]_vars => IInv'
  <1> SUFFICES ASSUME IInv, [Next]_vars PROVE IInv'
    OBVIOUS
  <1>1. TypeOK /\ TypeOK' /\ StoreInv /\ \A r \in Runs : RunInv(r)
    BY NextTypeOK DEF IInv, RunInv
  <1>2. CASE UNCHANGED vars
    <2>1. \A r \in Runs : RunInv(r)'
      BY <1>1, <1>2, RowsAreLocal
         DEF vars, RunInv, CollectedIsNumbered, SessionMatchesMemory, StageInv
    <2>2. StoreInv'
      <3>1. \A q \in Runs : CollectedRows(q)' = CollectedRows(q) /\ RunRow(q)' = RunRow(q)
        BY <1>2, RowsAreLocal DEF vars, RunRow
      <3>2. \A a \in agentRuns : a.run \in Runs
        BY <1>1 DEF TypeOK, RunRows
      <3>3. evidence' = evidence /\ agentRuns' = agentRuns /\ pc' = pc
        BY <1>2 DEF vars
      <3>4. \A i \in Incidents : AlertRows(i)' = AlertRows(i)
        BY DEF AlertRows
      <3> QED
        BY <1>1, <3>1, <3>2, <3>3, <3>4 DEF StoreInv
    <2> QED
      BY <1>1, <2>1, <2>2 DEF IInv, RunInv
  <1>3. ASSUME NEW r \in Runs, Step(r) PROVE IInv'
    <2>1. Local(r)
      BY <1>1, <1>3, StepIsLocal
    <2>2. RunInv(r)'
      BY <1>1, <1>3, ToolSucceedsRunInv, ToolFailsRunInv, QuietStepRunInv DEF CallTool
    <2>3. \A q \in Runs \ {r} : RunInv(q)'
      BY <1>1, <2>1, OthersKeepRunInv
    <2>4. StoreInv'
      BY <1>1, <1>3, StepStoreInv
    <2> QED
      BY <1>1, <2>2, <2>3, <2>4 DEF IInv, RunInv
  <1> QED
    BY <1>2, <1>3 DEF Next, Step

\* Sessions, logs and store agree in every reachable state.
THEOREM Consistent == Spec => []IInv
  <1> QED
    BY InitIInv, NextIInv, PTL DEF Spec

-------------------------------------------------------------------------------
(* What the invariant says of the store.                                   *)

\* A recorded run's row is the AgentRun object of a run that has committed.
LEMMA RecordedRun ==
  ASSUME IInv, NEW a \in agentRuns
  PROVE  /\ a.run \in Runs /\ pc[a.run] = "recorded" /\ incident[a.run] \in Incidents
         /\ a.incident = incident[a.run]
         /\ a.status = "completed"
         /\ a.calls = ToolCallCount(a.run)
         /\ a.report.cited = AlertIds(a.incident) \cup CollectedIds(a.run)
         /\ CollectedRows(a.run) \subseteq evidence
  <1>1. a.run \in Runs /\ incident[a.run] \in Incidents
    BY DEF IInv, TypeOK, RunRows
  <1>2. pc[a.run] = "recorded" /\ a = RunRow(a.run)
    BY DEF IInv, StoreInv
  <1>3. StageInv(a.run) /\ CollectedRows(a.run) \subseteq evidence
    BY <1>1, <1>2 DEF IInv, StoreInv
  <1>4. /\ RunRow(a.run).incident = incident[a.run]
        /\ RunRow(a.run).status = status[a.run]
        /\ RunRow(a.run).calls = ToolCallCount(a.run)
        /\ RunRow(a.run).report = report[a.run]
    BY DEF RunRow
  <1> QED
    BY <1>1, <1>2, <1>3, <1>4 DEF StageInv

\* Nothing of a run is stored in part (session_scope).
THEOREM StoredWhole == Spec => []AllOrNothing
  <1>1. ASSUME IInv PROVE AllOrNothing
    <2>1. \A a \in agentRuns : a.status = "completed"
      BY <1>1, RecordedRun
    <2>2. ASSUME NEW e \in evidence, e.type # "alert"
          PROVE  \E a \in agentRuns : a.run = e.id[1] /\ a.incident = e.incident
      <3>1. \A i \in Incidents : e \notin AlertRows(i)
        BY <2>2 DEF AlertRows
      <3>2. PICK r \in Runs : pc[r] = "recorded" /\ e \in CollectedRows(r)
        BY <1>1, <3>1 DEF IInv, StoreInv
      <3>3. e.id[1] = r /\ e.incident = incident[r]
        BY <3>2 DEF CollectedRows, EvidenceRow
      <3>4. RunRow(r) \in agentRuns
        BY <1>1, <3>2 DEF IInv, StoreInv
      <3> QED
        BY <3>3, <3>4 DEF RunRow
    <2> QED
      BY <2>1, <2>2 DEF AllOrNothing
  <1> QED
    BY <1>1, Consistent, PTL

\* Behind every id that a report cites there is a row of its incident.
LEMMA CitedRows ==
  ASSUME IInv, NEW r \in Runs,
         NEW id \in (AlertIds(incident[r]) \cup CollectedIds(r)) \ {NoEvidence}
  PROVE  \E e \in AlertRows(incident[r]) \cup CollectedRows(r) :
           e.id = id /\ e.incident = incident[r]
  <1>1. CASE id \in AlertIds(incident[r])
    BY <1>1 DEF AlertIds, AlertRows
  <1>2. CASE id \in CollectedIds(r)
    <2>1. PICK k \in DOMAIN collected[r] : collected[r][k].id = id
      BY <1>2 DEF CollectedIds
    <2>2. collected[r][k].type # "error" /\ id = <<r, k>>
      BY <2>1 DEF IInv, CollectedIsNumbered
    <2>3. EvidenceRow(r, k, collected[r][k].type) \in CollectedRows(r)
      BY <2>2 DEF CollectedRows, Calls
    <2> QED
      BY <2>2, <2>3 DEF EvidenceRow
  <1> QED
    BY <1>1, <1>2

\* What a recorded report cites is stored (validate_report, session_scope).
THEOREM CitationsPersist == Spec => []CitedEvidencePersisted
  <1>1. ASSUME IInv PROVE CitedEvidencePersisted
    <2> SUFFICES ASSUME NEW a \in agentRuns, NEW id \in a.report.cited \ {NoEvidence}
                 PROVE  \E e \in evidence : e.id = id /\ e.incident = a.incident
      BY DEF CitedEvidencePersisted
    <2>1. /\ a.run \in Runs /\ a.incident = incident[a.run] /\ incident[a.run] \in Incidents
          /\ id \in (AlertIds(incident[a.run]) \cup CollectedIds(a.run)) \ {NoEvidence}
          /\ CollectedRows(a.run) \subseteq evidence
      BY <1>1, RecordedRun
    <2>2. AlertRows(incident[a.run]) \subseteq evidence
      BY <1>1, <2>1 DEF IInv, StoreInv
    <2> QED
      BY <1>1, <2>1, <2>2, CitedRows
  <1> QED
    BY <1>1, Consistent, PTL

\* The successful calls of a run and the rows they flushed are equally many.
LEMMA CallsAreRows ==
  ASSUME TypeOK, NEW r \in Runs
  PROVE  ToolCallCount(r) = Cardinality(CollectedRows(r))
  <1> DEFINE Row(k) == EvidenceRow(r, k, collected[r][k].type)
  <1>1. IsFiniteSet(Calls(r))
    <2>1. DOMAIN collected[r] = 1..Len(collected[r]) /\ Len(collected[r]) \in Nat
      BY DEF TypeOK
    <2>2. IsFiniteSet(DOMAIN collected[r])
      BY <2>1, FS_Interval
    <2> QED
      BY <2>2, FS_Subset DEF Calls
  <1>2. [k \in Calls(r) |-> Row(k)] \in Bijection(Calls(r), CollectedRows(r))
    <2>1. \A k, m \in Calls(r) : Row(k) = Row(m) => k = m
      <3>1. \A k \in Calls(r) : Row(k).id = <<r, k>>
        BY DEF EvidenceRow
      <3> HIDE DEF Row
      <3> QED
        BY <3>1
    <2>2. CollectedRows(r) = {Row(k) : k \in Calls(r)}
      BY DEF CollectedRows
    <2> HIDE DEF Row
    <2> QED
      BY <2>1, <2>2 DEF Bijection, Injection, Surjection, IsInjective
  <1> HIDE DEF Row
  <1> QED
    BY <1>1, <1>2, FS_Bijection DEF ExistsBijection, ToolCallCount, Calls

\* tool_call_count is the number of evidence rows (orchestrator.py, tools/base.py).
THEOREM CountsMatch == Spec => []ToolCountMatchesEvidence
  <1>1. ASSUME IInv PROVE ToolCountMatchesEvidence
    <2> SUFFICES ASSUME NEW a \in agentRuns
                 PROVE  a.calls = Cardinality(EvidenceOf(a.run))
      BY DEF ToolCountMatchesEvidence
    <2>1. /\ a.run \in Runs
          /\ a.calls = ToolCallCount(a.run)
          /\ CollectedRows(a.run) \subseteq evidence
      BY <1>1, RecordedRun
    <2>2. EvidenceOf(a.run) = CollectedRows(a.run)
      <3>1. \A e \in CollectedRows(a.run) : e \in evidence /\ e.id[1] = a.run
        BY <2>1 DEF CollectedRows, EvidenceRow
      <3>2. ASSUME NEW e \in evidence, e.id[1] = a.run PROVE e \in CollectedRows(a.run)
        <4>1. \A i \in Incidents : e \notin AlertRows(i)
          BY <2>1, <3>2, RunsAssumption DEF AlertRows
        <4>2. PICK q \in Runs : e \in CollectedRows(q)
          BY <1>1, <4>1 DEF IInv, StoreInv
        <4>3. q = a.run
          BY <3>2, <4>2 DEF CollectedRows, EvidenceRow
        <4> QED
          BY <4>2, <4>3
      <3> QED
        BY <3>1, <3>2 DEF EvidenceOf
    <2> QED
      BY <1>1, <2>1, <2>2, CallsAreRows DEF IInv
  <1> QED
    BY <1>1, Consistent, PTL

-------------------------------------------------------------------------------
(* Why a report that nobody reviews is grounded.  What the policy looked   *)
(* at is carried along to the commit: the log and the plan, the confidence *)
(* and the verdicts.                                                       *)

\* What a run knows of its plan and its report at each stage.
GroundInv(r) ==
  /\ pc[r] \in {"idle", "deciding"} => exhausted[r] = FALSE
  /\ Len(collected[r]) <= Len(Plan(leading[r]))
  /\ pc[r] \in {"synthesizing", "validating", "concluding", "committing", "recorded"} =>
       exhausted[r] \/ Len(collected[r]) = Len(Plan(leading[r]))
  /\ pc[r] \in {"validating", "concluding", "committing", "recorded"} =>
       /\ report[r].cause = leading[r]
       /\ report[r].confidence = ConfidenceFor(Cardinality(Types(r)))
  /\ pc[r] \in {"concluding", "committing", "recorded"} => report[r].passed
  /\ pc[r] \in {"committing", "recorded"} =>
       report[r].review \/ ~RequiresHumanReview(report[r].confidence,
                             Cardinality(SourceTypes(r)), SeverityOf[incident[r]],
                             exhausted[r], report[r].cause)

\* What no step of r touches besides.
LEMMA StepIsLocalToo ==
  ASSUME TypeOK, NEW r \in Runs, Step(r)
  PROVE  \A q \in Runs \ {r} : leading'[q] = leading[q] /\ exhausted'[q] = exhausted[q]
  BY DEF Step, Advance, CallTool, ToolSucceeds, SelectFails, FlushFails,
         ToolOnPoisonedSession, Collect, Start, StopOnBudget, Finalize, Tick,
         StatementFails, Synthesize, Validate, Conclude, Commit, Rollback, Crash, Leave, TypeOK

\* The kinds of evidence of a run depend on its own log alone.
LEMMA TypesAreLocal ==
  ASSUME NEW q \in Runs, collected'[q] = collected[q]
  PROVE  Types(q)' = Types(q) /\ SourceTypes(q)' = SourceTypes(q)
  BY DEF Types, SourceTypes

\* A run whose part of the state is left alone keeps what it knows.
LEMMA OthersKeepGroundInv ==
  ASSUME TypeOK, NEW r \in Runs, Step(r), NEW q \in Runs \ {r}, GroundInv(q)
  PROVE  GroundInv(q)'
  <1>1. /\ pc'[q] = pc[q] /\ collected'[q] = collected[q] /\ report'[q] = report[q]
        /\ incident' = incident
    BY StepIsLocal DEF Local
  <1>2. leading'[q] = leading[q] /\ exhausted'[q] = exhausted[q]
    BY StepIsLocalToo
  <1>3. Types(q)' = Types(q) /\ SourceTypes(q)' = SourceTypes(q)
    BY <1>1, TypesAreLocal
  <1> QED
    BY <1>1, <1>2, <1>3 DEF GroundInv

\* A tool call, successful or not, is one step of the plan (orchestrator.py, the loop).
LEMMA CallToolGroundInv ==
  ASSUME TypeOK, NEW r \in Runs, GroundInv(r), CallTool(r)
  PROVE  GroundInv(r)'
  <1>1. /\ pc[r] = "deciding" /\ pc' = pc /\ exhausted' = exhausted /\ leading' = leading
        /\ Len(collected[r]) < Len(Plan(leading[r]))
    BY DEF CallTool, ToolSucceeds, SelectFails, FlushFails, ToolOnPoisonedSession, Calling,
           PlanLeft, Collect
  <1>2. \E item : collected'[r] = Append(collected[r], item)
    BY DEF CallTool, ToolSucceeds, SelectFails, FlushFails, ToolOnPoisonedSession, Collect,
           TypeOK
  <1>3. Plan(leading[r]) \in Seq(ToolTypes) /\ collected[r] \in Seq(Items)
    BY PlanType DEF TypeOK
  <1>4. Len(collected'[r]) = Len(collected[r]) + 1
    BY <1>2, <1>3
  <1>5. Len(Plan(leading[r])) \in Nat /\ Len(collected[r]) \in Nat
    BY <1>3
  <1>6. Len(collected'[r]) <= Len(Plan(leading[r]))
    BY <1>1, <1>4, <1>5
  <1> QED
    BY <1>1, <1>6 DEF GroundInv

\* With an intact session all rows of the log are visible to the validator, so it finds
\* every id, or there was no successful call and no alert, and then one kind of evidence,
\* "error", at most (validate_report, _confidence_for).
LEMMA ValidateAccepts ==
  ASSUME TypeOK, StoreInv, NEW r \in Runs, RunInv(r), GroundInv(r), Validate(r)
  PROVE  report'[r].passed
  <1> DEFINE visible == {e.id : e \in Visible(r)}
             cited == report[r].cited
  <1>1. /\ pc[r] = "validating" /\ tx[r] = "open"
        /\ report[r] \in Reports /\ incident[r] \in Incidents
    BY DEF Validate, TypeOK
  <1>2. /\ cited = AlertIds(incident[r]) \cup CollectedIds(r)
        /\ pending[r] = CollectedRows(r)
        /\ AlertRows(incident[r]) \subseteq evidence
        /\ report[r].confidence = ConfidenceFor(Cardinality(Types(r)))
    BY <1>1 DEF RunInv, StageInv, SessionMatchesMemory, StoreInv, GroundInv
  <1>3. AlertIds(incident[r]) \subseteq visible
    BY <1>2 DEF AlertIds, AlertRows, Visible
  <1>4. CollectedIds(r) \ {NoEvidence} \subseteq visible
    <2> SUFFICES ASSUME NEW k \in DOMAIN collected[r], collected[r][k].id # NoEvidence
                 PROVE  collected[r][k].id \in visible
      BY DEF CollectedIds
    <2>1. collected[r][k].type # "error" /\ collected[r][k].id = <<r, k>>
      BY DEF RunInv, CollectedIsNumbered
    <2>2. EvidenceRow(r, k, collected[r][k].type) \in Visible(r)
      BY <1>2, <2>1 DEF CollectedRows, Calls, EvidenceRow, Visible
    <2> QED
      BY <2>1, <2>2 DEF EvidenceRow
  <1>5. cited \ {NoEvidence} \subseteq visible
    BY <1>2, <1>3, <1>4
  <1>6. ASSUME cited \cap visible = {} PROVE report[r].confidence < ConfidenceThreshold
    <2>1. CollectedIds(r) \subseteq {NoEvidence}
      BY <1>2, <1>4, <1>6
    <2>2. Types(r) \subseteq {"error"}
      <3> SUFFICES ASSUME NEW k \in DOMAIN collected[r] PROVE collected[r][k].type = "error"
        BY DEF Types
      <3>1. collected[r][k].id = NoEvidence
        BY <2>1 DEF CollectedIds
      <3>2. k \in Nat
        BY DEF TypeOK
      <3>3. <<r, k>> # NoEvidence
        BY <3>2, NoEvidenceAssumption DEF EvidenceIds
      <3> QED
        BY <3>1, <3>3 DEF RunInv, CollectedIsNumbered
    <2>3. Types(r) = {} \/ Types(r) = {"error"}
      BY <2>2
    <2>4. Cardinality(Types(r)) \in {0, 1}
      BY <2>3, FS_EmptySet, FS_Singleton
    <2> QED
      BY <1>2, <2>4 DEF ConfidenceFor, ConfidenceThreshold
  <1>7. report'[r].passed = (/\ cited \ {NoEvidence} \subseteq visible
                             /\ cited \cap visible = {} =>
                                  report[r].confidence < ConfidenceThreshold)
    BY <1>1 DEF Validate, TypeOK, Reports
  <1> QED
    BY <1>5, <1>6, <1>7

\* The steps that leave the log alone.
LEMMA QuietStepGroundInv ==
  ASSUME TypeOK, StoreInv, NEW r \in Runs, RunInv(r), GroundInv(r), Step(r), ~CallTool(r)
  PROVE  GroundInv(r)'
  <1>1. incident' = incident /\ collected' = collected
    BY DEF Step, Advance, Start, StopOnBudget, Finalize, Tick, StatementFails, Synthesize,
           Validate, Conclude, Commit, Rollback, Crash, Leave
  <1>2. Types(r)' = Types(r) /\ SourceTypes(r)' = SourceTypes(r)
    BY <1>1, TypesAreLocal
  <1>3. /\ Plan(leading[r]) \in Seq(ToolTypes) /\ collected[r] \in Seq(Items)
        /\ report[r] \in Reports
    BY PlanType DEF TypeOK
  <1>4. Len(Plan(leading[r])) \in Nat /\ Len(collected[r]) \in Nat
    BY <1>3
  <1>5. CASE Start(r)
    <2>1. PICK c \in RootCauses : leading'[r] = c
      BY <1>5, LeadingType DEF Start, TypeOK
    <2>2. Len(collected[r]) = 0 /\ Plan(c) \in Seq(ToolTypes)
      BY <1>5, PlanType DEF Start, RunInv, StageInv
    <2>3. Len(collected[r]) <= Len(Plan(c))
      BY <2>2
    <2> QED
      BY <1>1, <1>5, <2>1, <2>3 DEF Start, GroundInv, TypeOK
  <1>6. CASE StopOnBudget(r) \/ Finalize(r)
    BY <1>1, <1>4, <1>6 DEF StopOnBudget, Finalize, PlanLeft, GroundInv, TypeOK
  <1>7. CASE Tick(r) \/ StatementFails(r)
    BY <1>1, <1>2, <1>7 DEF Tick, StatementFails, GroundInv, TypeOK
  <1>8. CASE Synthesize(r)
    <2>1. /\ report'[r].cause = leading[r]
          /\ report'[r].confidence = ConfidenceFor(Cardinality(Types(r)))
      BY <1>8 DEF Synthesize, TypeOK, EmptyReport
    <2> QED
      BY <1>1, <1>2, <1>8, <2>1 DEF Synthesize, GroundInv, TypeOK
  <1>9. CASE Validate(r)
    <2>1. report'[r].cause = report[r].cause /\ report'[r].confidence = report[r].confidence
      BY <1>3, <1>9 DEF Validate, TypeOK, Reports
    <2>2. report'[r].passed
      BY <1>9, ValidateAccepts
    <2> QED
      BY <1>1, <1>2, <1>9, <2>1, <2>2 DEF Validate, GroundInv, TypeOK
  <1>10. CASE Conclude(r)
    <2> DEFINE verdict == RequiresHumanReview(report[r].confidence,
                            Cardinality(SourceTypes(r)), SeverityOf[incident[r]],
                            exhausted[r], report[r].cause)
    <2>1. /\ report'[r].cause = report[r].cause /\ report'[r].confidence = report[r].confidence
          /\ report'[r].passed = report[r].passed
          /\ report'[r].review = (verdict \/ ~report[r].passed)
      BY <1>3, <1>10 DEF Conclude, TypeOK, Reports
    <2>2. /\ pc[r] = "concluding" /\ pc'[r] = "committing"
          /\ leading' = leading /\ exhausted' = exhausted
      BY <1>10 DEF Conclude, TypeOK
    <2>3. verdict' = verdict
      BY <1>1, <1>2, <2>1, <2>2
    <2> HIDE DEF verdict
    <2>4. report'[r].review \/ ~verdict
      BY <2>1
    <2> QED
      BY <1>1, <1>2, <2>1, <2>2, <2>3, <2>4 DEF GroundInv, verdict
  <1>11. CASE Commit(r) \/ Rollback(r) \/ Crash(r)
    BY <1>1, <1>2, <1>11 DEF Commit, Rollback, Crash, Leave, GroundInv, TypeOK
  <1> QED
    BY <1>5, <1>6, <1>7, <1>8, <1>9, <1>10, <1>11 DEF Step, Advance

\* What every run knows of its plan and report (orchestrator.py, validation.py, policy.py).
THEOREM Grounded == Spec => [](\A r \in Runs : GroundInv(r))
  <1>1. Init => \A r \in Runs : GroundInv(r)
    <2> SUFFICES ASSUME Init, NEW r \in Runs PROVE GroundInv(r)
      OBVIOUS
    <2>1. Len(collected[r]) = 0 /\ pc[r] = "idle" /\ ~exhausted[r] /\ exhausted[r] \in BOOLEAN
      BY DEF Init
    <2>2. Plan(leading[r]) \in Seq(ToolTypes)
      BY PlanType DEF Init, RootCauses
    <2> QED
      BY <2>1, <2>2 DEF GroundInv
  <1>2. IInv /\ (\A r \in Runs : GroundInv(r)) /\ [Next]_vars => (\A r \in Runs : GroundInv(r))'
    <2> SUFFICES ASSUME IInv, \A r \in Runs : GroundInv(r), [Next]_vars, NEW q \in Runs
                 PROVE  GroundInv(q)'
      OBVIOUS
    <2>1. TypeOK /\ StoreInv /\ \A r \in Runs : RunInv(r)
      BY DEF IInv, RunInv
    <2>2. CASE UNCHANGED vars
      BY <2>2, TypesAreLocal DEF vars, GroundInv
    <2>3. ASSUME NEW r \in Runs, Step(r) PROVE GroundInv(q)'
      BY <2>1, <2>3, CallToolGroundInv, QuietStepGroundInv, OthersKeepGroundInv
    <2> QED
      BY <2>2, <2>3 DEF Next, Step
  <1> QED
    BY <1>1, <1>2, Consistent, PTL DEF Spec

\* The validator never rejects what the deterministic model writes.
THEOREM NeverSelfRejected == Spec => []NoSelfRejection
  <1>1. ASSUME IInv, \A r \in Runs : GroundInv(r) PROVE NoSelfRejection
    <2> SUFFICES ASSUME NEW a \in agentRuns PROVE a.report.passed
      BY DEF NoSelfRejection
    <2>1. a.run \in Runs /\ pc[a.run] = "recorded" /\ a = RunRow(a.run)
      BY <1>1, RecordedRun DEF IInv, StoreInv
    <2>2. a.report = report[a.run]
      BY <2>1 DEF RunRow
    <2> QED
      BY <1>1, <2>1, <2>2 DEF GroundInv
  <1> QED
    BY <1>1, Consistent, Grounded, PTL

\* Two kinds of sources are two different ones.
LEMMA TwoSources ==
  ASSUME NEW S, ~(Cardinality(S) < 2)
  PROVE  \E x, y \in S : x # y
  <1> SUFFICES ASSUME \A x, y \in S : x = y PROVE FALSE
    OBVIOUS
  <1>1. CASE S = {}
    BY <1>1, FS_EmptySet
  <1>2. CASE \E x \in S : S = {x}
    BY <1>2, FS_Singleton
  <1> QED
    BY <1>1, <1>2

\* A report that nobody reviews is grounded (policy.py, orchestrator.py, tools/base.py).
THEOREM UnreviewedGrounded == Spec => []UnreviewedIsGrounded
  <1>1. ASSUME IInv, \A r \in Runs : GroundInv(r) PROVE UnreviewedIsGrounded
    <2> SUFFICES ASSUME NEW a \in agentRuns, ~a.report.review
                 PROVE  /\ Len(collected[a.run]) = Len(Plan(a.report.cause))
                        /\ \E d, e \in EvidenceOf(a.run) : d.type # e.type
                        /\ a.report.cause # "UNKNOWN"
                        /\ Risk(a.report.cause) # "high"
                        /\ SeverityOf[a.incident] # "critical"
      BY DEF UnreviewedIsGrounded
    <2> DEFINE r == a.run
    <2>1. /\ r \in Runs /\ pc[r] = "recorded" /\ a = RunRow(r)
          /\ a.incident = incident[r] /\ CollectedRows(r) \subseteq evidence
      BY <1>1, RecordedRun DEF IInv, StoreInv
    <2> HIDE DEF r
    <2>2. a.report = report[r]
      BY <2>1 DEF RunRow
    <2>3. /\ ~RequiresHumanReview(report[r].confidence, Cardinality(SourceTypes(r)),
                SeverityOf[incident[r]], exhausted[r], report[r].cause)
          /\ report[r].cause = leading[r]
          /\ exhausted[r] \/ Len(collected[r]) = Len(Plan(leading[r]))
      BY <1>1, <2>1, <2>2 DEF GroundInv
    <2>4. /\ ~(Cardinality(SourceTypes(r)) < 2) /\ ~exhausted[r]
          /\ SeverityOf[incident[r]] # "critical" /\ report[r].cause # "UNKNOWN"
          /\ Risk(report[r].cause) # "high"
      BY <2>3 DEF RequiresHumanReview
    <2>5. PICK s, t \in SourceTypes(r) : s # t
      BY <2>4, TwoSources
    <2>6. ASSUME NEW x \in SourceTypes(r) PROVE \E e \in EvidenceOf(r) : e.type = x
      <3>1. PICK k \in Calls(r) : collected[r][k].type = x
        BY DEF SourceTypes, Types, Calls
      <3>2. EvidenceRow(r, k, x) \in evidence
        BY <2>1, <3>1 DEF CollectedRows
      <3> QED
        BY <3>2 DEF EvidenceRow, EvidenceOf
    <2>7. \E d, e \in EvidenceOf(r) : d.type # e.type
      BY <2>5, <2>6
    <2> QED
      BY <2>1, <2>2, <2>3, <2>4, <2>7 DEF r
  <1> QED
    BY <1>1, Consistent, Grounded, PTL

-------------------------------------------------------------------------------
(* The refinement: to the readers of the store a run is one step.          *)

\* AtomicInvestigation counts as Investigation does.
LEMMA SameCardinality == ASSUME NEW S PROVE Abstract!Cardinality(S) = Cardinality(S)
  BY DEF Cardinality, Abstract!Cardinality

\* A run that begins or ends, to the readers of the store.
LEMMA Moves ==
  ASSUME TypeOK, NEW r \in Runs, NEW from, NEW to, NEW stage,
         pc' = [pc EXCEPT ![r] = stage],
         from = IF pc[r] \in {"idle"} \cup Finished THEN pc[r] ELSE "running",
         to = IF stage \in {"idle"} \cup Finished THEN stage ELSE "running"
  PROVE  Abstract!Move(r, from, to)
  BY DEF Abstract!Move, TypeOK

\* What the commit stores is what AtomicInvestigation lets a run store.
LEMMA CommitIsRecord ==
  ASSUME IInv, NEW r \in Runs, GroundInv(r), Commit(r)
  PROVE  Abstract!Record(r)
  <1> DEFINE new == evidence' \ evidence
             a == RunRow(r)
  <1>1. /\ pc[r] = "committing" /\ tx[r] = "open" /\ pc' = [pc EXCEPT ![r] = "recorded"]
        /\ evidence' = evidence \cup CollectedRows(r)
        /\ agentRuns' = agentRuns \cup {a}
    BY DEF Commit, Leave, IInv, SessionMatchesMemory
  <1>2. a \notin agentRuns
    BY <1>1 DEF IInv, StoreInv, RunRow
  <1>3. CollectedRows(r) \cap evidence = {}
    <2> SUFFICES ASSUME NEW e \in CollectedRows(r), e \in evidence PROVE FALSE
      OBVIOUS
    <2>1. e.id[1] = r
      BY DEF CollectedRows, EvidenceRow
    <2>2. \A i \in Incidents : e \notin AlertRows(i)
      BY <2>1, RunsAssumption DEF AlertRows
    <2>3. PICK q \in Runs : pc[q] = "recorded" /\ e \in CollectedRows(q)
      BY <2>2 DEF IInv, StoreInv
    <2>4. e.id[1] = q
      BY <2>3 DEF CollectedRows, EvidenceRow
    <2> QED
      BY <1>1, <2>1, <2>3, <2>4
  <1>4. new = CollectedRows(r)
    BY <1>1, <1>3
  <1>5. a.run = r /\ a.incident = incident[r] /\ a.status = status[r]
        /\ a.calls = ToolCallCount(r) /\ a.report = report[r]
    BY DEF RunRow
  <1>6. a.status = "completed"
    BY <1>1, <1>5 DEF IInv, StageInv
  <1>7. a.calls = Cardinality(new)
    BY <1>4, <1>5, CallsAreRows DEF IInv
  <1>8. \A e \in new : e.id[1] = r /\ e.incident = a.incident
    BY <1>4, <1>5 DEF CollectedRows, EvidenceRow
  <1>9. \A id \in a.report.cited \ {NoEvidence} :
          \E e \in evidence' : e.id = id /\ e.incident = a.incident
    <2>1. a.report.cited = AlertIds(incident[r]) \cup CollectedIds(r)
      BY <1>1, <1>5 DEF IInv, StageInv
    <2>2. AlertRows(incident[r]) \cup CollectedRows(r) \subseteq evidence'
      BY <1>1 DEF IInv, StoreInv, TypeOK
    <2> QED
      BY <1>5, <2>1, <2>2, CitedRows
  <1>10. a.report.review \/ \E d, e \in new : d.type # e.type
    <2> SUFFICES ASSUME ~report[r].review PROVE \E d, e \in new : d.type # e.type
      BY <1>5
    <2>1. ~(Cardinality(SourceTypes(r)) < 2)
      BY <1>1 DEF GroundInv, RequiresHumanReview
    <2>2. PICK s, t \in SourceTypes(r) : s # t
      BY <2>1, TwoSources
    <2>3. ASSUME NEW x \in SourceTypes(r) PROVE \E e \in new : e.type = x
      <3>1. PICK k \in Calls(r) : collected[r][k].type = x
        BY DEF SourceTypes, Types, Calls
      <3>2. EvidenceRow(r, k, x) \in new
        BY <1>4, <3>1 DEF CollectedRows
      <3> QED
        BY <3>2 DEF EvidenceRow
    <2> QED
      BY <2>2, <2>3
  <1>11. Abstract!Move(r, "running", "recorded")
    BY <1>1, Moves DEF Finished, IInv
  <1>12. Abstract!Sound(r, a, new)
    BY <1>5, <1>6, <1>7, <1>8, <1>9, <1>10, SameCardinality DEF Abstract!Sound
  <1>13. a \in agentRuns' \ agentRuns /\ evidence \subseteq evidence'
    BY <1>1, <1>2
  <1> HIDE DEF new, a
  <1> QED
    BY <1>1, <1>11, <1>12, <1>13 DEF Abstract!Record, new

\* Every other step begins a run, ends it, or is not seen.
LEMMA StepRefines ==
  ASSUME IInv, NEW r \in Runs, GroundInv(r), Step(r)
  PROVE  Abstract!Next \/ UNCHANGED Abstract!vars
  <1>1. CASE Commit(r)
    BY <1>1, CommitIsRecord DEF Abstract!Next
  <1>2. CASE ~Commit(r)
    <2>1. evidence' = evidence /\ agentRuns' = agentRuns
      BY <1>2 DEF Step, Advance, CallTool, ToolSucceeds, SelectFails, FlushFails,
                  ToolOnPoisonedSession, Collect, Start, StopOnBudget, Finalize, Tick,
                  StatementFails, Synthesize, Validate, Conclude, Rollback, Crash
    <2>2. CASE Start(r) \/ (pc[r] = "idle" /\ StatementFails(r))
      <3>1. pc[r] = "idle" /\ \E stage \in {"deciding", "raising"} : pc' = [pc EXCEPT ![r] = stage]
        BY <2>2 DEF Start, StatementFails
      <3>2. Abstract!Move(r, "idle", "running")
        BY <3>1, Moves DEF Finished, IInv
      <3> QED
        BY <2>1, <3>2 DEF Abstract!Next, Abstract!Begin
    <2>3. CASE Rollback(r) \/ Crash(r)
      <3>1. pc[r] \notin {"idle"} \cup Finished /\ pc' = [pc EXCEPT ![r] = "lost"]
        BY <2>3 DEF Rollback, Crash, Leave, Finished
      <3>2. Abstract!Move(r, "running", "lost")
        BY <3>1, Moves DEF Finished, IInv
      <3> QED
        BY <2>1, <3>2 DEF Abstract!Next, Abstract!Lose
    <2>4. CASE \/ CallTool(r) \/ StopOnBudget(r) \/ Finalize(r) \/ Tick(r)
               \/ Synthesize(r) \/ Validate(r) \/ Conclude(r)
               \/ (pc[r] # "idle" /\ StatementFails(r))
      <3>1. \A q \in Runs : pc'[q] \in {"idle"} \cup Finished <=> pc[q] \in {"idle"} \cup Finished
        BY <2>4 DEF CallTool, ToolSucceeds, SelectFails, FlushFails, ToolOnPoisonedSession,
                    Calling, Collect, StopOnBudget, Finalize, Tick, Synthesize, Validate,
                    Conclude, StatementFails, Finished, IInv, TypeOK
      <3>2. \A q \in Runs : pc'[q] \in {"idle"} \cup Finished => pc'[q] = pc[q]
        BY <2>4 DEF CallTool, ToolSucceeds, SelectFails, FlushFails, ToolOnPoisonedSession,
                    Calling, Collect, StopOnBudget, Finalize, Tick, Synthesize, Validate,
                    Conclude, StatementFails, Finished, IInv, TypeOK
      <3> QED
        BY <2>1, <3>1, <3>2 DEF Abstract!vars
    <2> QED
      BY <1>2, <2>2, <2>3, <2>4 DEF Step, Advance
  <1> QED
    BY <1>1, <1>2

\* The interleaved, failing run of many statements implements the atomic one
\* (orchestrator.py, db/session.py).
THEOREM Refines == Spec => ImplementsAtomicInvestigation
  <1>1. Init => Abstract!Init
    BY DEF Init, Abstract!Init, AlertRows, Finished
  <1>2. /\ IInv /\ (\A r \in Runs : GroundInv(r))
        /\ [Next]_vars
        => [Abstract!Next]_Abstract!vars
    <2> SUFFICES ASSUME IInv, \A r \in Runs : GroundInv(r), [Next]_vars
                 PROVE  Abstract!Next \/ UNCHANGED Abstract!vars
      OBVIOUS
    <2>1. CASE UNCHANGED vars
      BY <2>1 DEF vars, Abstract!vars
    <2>2. CASE Next
      BY <2>2, StepRefines DEF Next, Step
    <2> QED
      BY <2>1, <2>2
  <1> QED
    BY <1>1, <1>2, Consistent, Grounded, PTL DEF Spec, ImplementsAtomicInvestigation, Abstract!Spec

-------------------------------------------------------------------------------
(* How long a run can take.                                                *)

\* The stages before a run, after its loop too, has ended.
StagesLeft ==
  [idle |-> 7, deciding |-> 6, synthesizing |-> 5, validating |-> 4, concluding |-> 3,
   committing |-> 2, raising |-> 1, recorded |-> 0, lost |-> 0]

\* A bound on the steps that a run still takes: stages, tool calls and ticks.
Remaining(r) ==
  StagesLeft[pc[r]] + (MaxToolCalls - Len(collected[r])) + (MaxDuration + 1 - elapsed[r])

\* No run calls more tools than its budget allows.
WithinBudget == \A r \in Runs : Len(collected[r]) <= MaxToolCalls

\* A step of r brings r nearer to its end and leaves the others where they are.
Nearer(r) ==
  /\ Remaining(r)' < Remaining(r)
  /\ \A q \in Runs \ {r} : Remaining(q)' = Remaining(q)

\* What a step of r uses up: a tool call, a tick or a stage.
Uses(r) ==
  LET calls == Len(collected[r])
  IN  \/ /\ pc'[r] = pc[r] /\ elapsed'[r] = elapsed[r]
         /\ calls < MaxToolCalls /\ Len(collected'[r]) = calls + 1
      \/ /\ pc'[r] = pc[r] /\ Len(collected'[r]) = calls
         /\ elapsed[r] <= MaxDuration /\ elapsed'[r] = elapsed[r] + 1
      \/ /\ StagesLeft[pc'[r]] < StagesLeft[pc[r]]
         /\ Len(collected'[r]) = calls /\ elapsed'[r] = elapsed[r]

\* Each step uses up something, a failed tool call its call as well as one that succeeds.
LEMMA StepUses ==
  ASSUME TypeOK, NEW r \in Runs, Step(r)
  PROVE  Uses(r) /\ \A q \in Runs \ {r} : elapsed'[q] = elapsed[q]
  <1>1. CASE CallTool(r)
    <2>1. /\ pc' = pc /\ elapsed' = elapsed /\ ~(Len(collected[r]) >= MaxToolCalls)
          /\ \E item : collected'[r] = Append(collected[r], item)
      BY <1>1 DEF CallTool, ToolSucceeds, SelectFails, FlushFails, ToolOnPoisonedSession, Collect,
                  Calling, BudgetHit, TypeOK
    <2>2. collected[r] \in Seq(Items) /\ MaxToolCalls \in Nat
      BY BudgetAssumption DEF TypeOK
    <2> QED
      BY <2>1, <2>2 DEF Uses
  <1>2. CASE Tick(r)
    BY <1>2 DEF Tick, Uses, TypeOK
  <1>3. CASE Start(r) \/ StopOnBudget(r) \/ Finalize(r) \/ StatementFails(r)
    BY <1>3 DEF Start, StopOnBudget, Finalize, StatementFails, Uses, StagesLeft, TypeOK
  <1>4. CASE Synthesize(r) \/ Validate(r) \/ Conclude(r)
    BY <1>4 DEF Synthesize, Validate, Conclude, Uses, StagesLeft, TypeOK
  <1>5. CASE Commit(r) \/ Rollback(r)
    BY <1>5 DEF Commit, Rollback, Leave, Uses, StagesLeft, TypeOK
  <1>6. CASE Crash(r)
    <2>1. pc[r] \in Stages \ ({"idle"} \cup Finished) /\ pc'[r] = "lost"
      BY <1>6 DEF Crash, Leave, TypeOK
    <2>2. StagesLeft[pc'[r]] < StagesLeft[pc[r]]
      BY <2>1 DEF Stages, Finished, StagesLeft
    <2>3. collected' = collected /\ elapsed' = elapsed
      BY <1>6 DEF Crash, Leave
    <2> QED
      BY <2>2, <2>3 DEF Uses
  <1> QED
    BY <1>1, <1>2, <1>3, <1>4, <1>5, <1>6 DEF Step, Advance

\* A step of a run brings it nearer to its end.
LEMMA StepIsNearer ==
  ASSUME TypeOK, TypeOK', WithinBudget, NEW r \in Runs, Step(r)
  PROVE  WithinBudget' /\ Nearer(r)
  <1> DEFINE s == StagesLeft[pc[r]]
             t == StagesLeft[pc'[r]]
             c == Len(collected[r])
             d == Len(collected'[r])
             e == elapsed[r]
             f == elapsed'[r]
  <1>1. s \in Nat /\ t \in Nat /\ c \in Nat /\ d \in Nat /\ e \in Nat /\ f \in Nat
    <2>1. \A stage \in Stages : StagesLeft[stage] \in Nat
      BY DEF Stages, StagesLeft
    <2>2. pc[r] \in Stages /\ pc'[r] \in Stages /\ e \in Nat /\ f \in Nat
      BY BudgetAssumption DEF TypeOK
    <2>3. c \in Nat /\ d \in Nat
      BY DEF TypeOK
    <2> QED
      BY <2>1, <2>2, <2>3
  <1>2. \/ t = s /\ f = e /\ c < MaxToolCalls /\ d = c + 1
        \/ t = s /\ d = c /\ f = e + 1
        \/ t < s /\ d = c /\ f = e
    BY StepUses DEF Uses
  <1>3. MaxToolCalls \in Nat /\ MaxDuration \in Nat /\ c <= MaxToolCalls
    BY BudgetAssumption DEF WithinBudget
  <1>4. Local(r) /\ \A q \in Runs \ {r} : elapsed'[q] = elapsed[q]
    BY StepIsLocal, StepUses
  <1>5. \A q \in Runs \ {r} : Remaining(q)' = Remaining(q)
    BY <1>4 DEF Local, Remaining
  <1>6. Remaining(r)' < Remaining(r)
    <2>1. /\ Remaining(r) = s + (MaxToolCalls - c) + (MaxDuration + 1 - e)
          /\ Remaining(r)' = t + (MaxToolCalls - d) + (MaxDuration + 1 - f)
      BY DEF Remaining
    <2> HIDE DEF s, t, c, d, e, f
    <2>2. t + (MaxToolCalls - d) + (MaxDuration + 1 - f) < s + (MaxToolCalls - c) + (MaxDuration + 1 - e)
      BY <1>1, <1>2, <1>3
    <2> QED
      BY <2>1, <2>2
  <1>7. d <= MaxToolCalls
    <2> HIDE DEF s, t, c, d, e, f
    <2> QED
      BY <1>1, <1>2, <1>3
  <1>8. WithinBudget'
    BY <1>4, <1>7 DEF Local, WithinBudget
  <1> QED
    BY <1>5, <1>6, <1>8 DEF Nearer

\* Whatever its tools do and however runs interleave, fail and crash, a run takes no more steps
\* than its budgets and stages: every step brings one run nearer to its end and no other farther.
THEOREM EveryStepCounts ==
  Spec => [](\A r \in Runs : Remaining(r) \in Nat) /\ [][\E r \in Runs : Nearer(r)]_vars
  <1>1. Init => WithinBudget
    BY BudgetAssumption DEF Init, WithinBudget
  <1>2. TypeOK /\ TypeOK' /\ WithinBudget /\ [Next]_vars =>
          WithinBudget' /\ [\E r \in Runs : Nearer(r)]_vars
    <2> SUFFICES ASSUME TypeOK, TypeOK', WithinBudget, [Next]_vars
                 PROVE  WithinBudget' /\ [\E r \in Runs : Nearer(r)]_vars
      OBVIOUS
    <2>1. CASE UNCHANGED vars
      BY <2>1 DEF WithinBudget, vars
    <2>2. CASE Next
      <3>1. PICK r \in Runs : Step(r)
        BY <2>2 DEF Next, Step
      <3> QED
        BY <3>1, StepIsNearer
    <2> QED
      BY <2>1, <2>2
  <1>3. TypeOK /\ WithinBudget => \A r \in Runs : Remaining(r) \in Nat
    <2> SUFFICES ASSUME TypeOK, WithinBudget, NEW r \in Runs PROVE Remaining(r) \in Nat
      OBVIOUS
    <2> DEFINE s == StagesLeft[pc[r]]
               c == Len(collected[r])
               e == elapsed[r]
    <2>1. s \in Nat /\ c \in Nat /\ c <= MaxToolCalls /\ e \in 0 .. MaxDuration + 1
      <3>1. \A stage \in Stages : StagesLeft[stage] \in Nat
        BY DEF Stages, StagesLeft
      <3> QED
        BY <3>1 DEF TypeOK, WithinBudget
    <2>2. Remaining(r) = s + (MaxToolCalls - c) + (MaxDuration + 1 - e)
      BY DEF Remaining
    <2> HIDE DEF s, c, e
    <2>3. s + (MaxToolCalls - c) + (MaxDuration + 1 - e) \in Nat
      BY <2>1, BudgetAssumption
    <2> QED
      BY <2>2, <2>3
  <1>4. Spec => []WithinBudget
    BY <1>1, <1>2, TypeCorrect, PTL DEF Spec
  <1>5. Spec => [](\A r \in Runs : Remaining(r) \in Nat)
    BY <1>3, <1>4, TypeCorrect, PTL
  <1>6. Spec => [][\E r \in Runs : Nearer(r)]_vars
    BY <1>2, <1>4, TypeCorrect, PTL DEF Spec
  <1> QED
    BY <1>5, <1>6
===============================================================================
