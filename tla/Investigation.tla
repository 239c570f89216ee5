---------------------------- MODULE Investigation -----------------------------
(***************************************************************************)
(* investigate_incident (agent/orchestrator.py) as the API and the CLI run *)
(* it: inside one session_scope (db/session.py), that is, one database     *)
(* transaction.  Each run flushes an AgentRun row, walks the playbook of   *)
(* the leading suspected cause, lets every tool flush an Evidence row,     *)
(* synthesizes a report, validates it against the evidence it can see,     *)
(* applies the human-review policy and commits.  Nothing a run flushed is  *)
(* seen by another run before the commit; a statement that fails may       *)
(* poison the transaction, after which every statement raises.             *)
(*                                                                         *)
(* Several runs go on at once, also on the same incident.  On SQLite a     *)
(* transaction that has written excludes every other writer.               *)
(***************************************************************************)
EXTENDS Playbook, FiniteSets

CONSTANTS
  Runs,          \* AgentRun ids, one for each call of investigate_incident
  Incidents,     \* incidents created by detection, never changed afterwards
  AlertCauses,   \* incident -> suspected causes of its alert evidence
  SeverityOf,    \* incident -> its severity
  Dialects,      \* the databases to run on: "postgres", "sqlite"
  NoEvidence,    \* the evidence id "" of a failed tool call
  MaxToolCalls,  \* AgentBudget.max_tool_calls
  MaxDuration    \* AgentBudget.max_duration_seconds, in ticks

EvidenceIds == (Runs \cup Incidents) \X Nat

ASSUME RunsAssumption == Runs \cap Incidents = {}
ASSUME AlertsAssumption == AlertCauses \in [Incidents -> Seq(RootCauses)]
ASSUME SeverityAssumption == SeverityOf \in [Incidents -> Severities]
ASSUME DialectsAssumption == Dialects \subseteq {"postgres", "sqlite"}
ASSUME NoEvidenceAssumption == NoEvidence \notin EvidenceIds
ASSUME BudgetAssumption == MaxToolCalls \in Nat /\ MaxDuration \in Nat

VARIABLES
  dialect,    \* the database of this deployment, never changes
  pc,         \* where each run is in investigate_incident
  incident,   \* the incident a run investigates
  leading,    \* context.suspected_root_cause
  collected,  \* context.collected, a sequence of [id, type]
  elapsed,    \* ticks since the run started
  exhausted,  \* budget_exhausted
  report,     \* the report being built
  status,     \* status of the session's AgentRun object
  tx,         \* the run's transaction: "none", "open" or "poisoned"
  pending,    \* evidence rows flushed and not committed
  evidence,   \* committed evidence rows
  agentRuns   \* committed AgentRun rows

vars == <<dialect, pc, incident, leading, collected, elapsed, exhausted, report,
          status, tx, pending, evidence, agentRuns>>

Stages == {"idle", "deciding", "synthesizing", "validating", "concluding",
           "committing", "raising", "recorded", "lost"}
Finished == {"recorded", "lost"}

Items == [id : EvidenceIds \cup {NoEvidence}, type : ToolTypes \cup {"error"}]
Rows == [id : EvidenceIds, incident : Incidents, type : ToolTypes \cup {"alert"}]
Reports == [cited : SUBSET (EvidenceIds \cup {NoEvidence}), cause : RootCauses,
            confidence : 0..100, passed : BOOLEAN, unsupported : BOOLEAN,
            review : BOOLEAN]
RunStatuses == {"none", "running", "completed"}
RunRows == [run : Runs, incident : Incidents, status : RunStatuses, calls : Nat,
            report : Reports]

-------------------------------------------------------------------------------
(* The alert evidence of an incident and the cause build_context picks.    *)

AlertRows(i) ==
  {[id |-> <<i, k>>, incident |-> i, type |-> "alert"] : k \in DOMAIN AlertCauses[i]}

AlertCount(i, c) == Cardinality({k \in DOMAIN AlertCauses[i] : AlertCauses[i][k] = c})

NamedCauses(i) ==
  {c \in RootCauses \ {"UNKNOWN"} : \E k \in DOMAIN AlertCauses[i] : AlertCauses[i][k] = c}

\* Counter(named).most_common(1): the first of the most frequent named causes in
\* the order the rows come back in, and the SELECT has no ORDER BY.
LeadingCauses(i) ==
  IF NamedCauses(i) = {}
  THEN {"UNKNOWN"}
  ELSE {c \in NamedCauses(i) : \A d \in NamedCauses(i) : AlertCount(i, d) <= AlertCount(i, c)}

EmptyReport ==
  [cited |-> {}, cause |-> "UNKNOWN", confidence |-> 0, passed |-> TRUE,
   unsupported |-> FALSE, review |-> FALSE]

Init ==
  /\ dialect \in Dialects
  /\ pc = [r \in Runs |-> "idle"]
  /\ incident \in [Runs -> Incidents]
  /\ leading = [r \in Runs |-> "UNKNOWN"]
  /\ collected = [r \in Runs |-> <<>>]
  /\ elapsed = [r \in Runs |-> 0]
  /\ exhausted = [r \in Runs |-> FALSE]
  /\ report = [r \in Runs |-> EmptyReport]
  /\ status = [r \in Runs |-> "none"]
  /\ tx = [r \in Runs |-> "none"]
  /\ pending = [r \in Runs |-> {}]
  /\ evidence = UNION {AlertRows(i) : i \in Incidents}
  /\ agentRuns = {}

-------------------------------------------------------------------------------
(* The database session of a run.                                          *)

\* SQLite has one writer at a time; the first flush of a run makes it the writer.
WriteLockFree(r) ==
  dialect = "sqlite" => \A q \in Runs \ {r} : tx[q] # "open"

\* The run's own rows and everybody's committed rows: READ COMMITTED.
Visible(r) == {e \in evidence \cup pending[r] : e.incident = incident[r]}

\* After a failed flush the session refuses every statement until a rollback,
\* and what it had flushed is gone.
Poison(r) ==
  /\ tx' = [tx EXCEPT ![r] = "poisoned"]
  /\ pending' = [pending EXCEPT ![r] = {}]

-------------------------------------------------------------------------------
(* The investigation loop.                                                 *)

BudgetHit(r) == Len(collected[r]) >= MaxToolCalls \/ elapsed[r] > MaxDuration

\* FakeLLM.decide finds a next tool for the run to call.
PlanLeft(r) == Len(collected[r]) < Len(Plan(leading[r]))

NextTool(r) == Plan(leading[r])[Len(collected[r]) + 1]

Calling(r) == pc[r] = "deciding" /\ ~BudgetHit(r) /\ PlanLeft(r)

Collect(r, id, type) ==
  /\ collected' = [collected EXCEPT ![r] = Append(@, [id |-> id, type |-> type])]
  /\ UNCHANGED <<dialect, pc, incident, leading, elapsed, exhausted, report, status,
                 evidence, agentRuns>>

\* The id and the row of the evidence that the k-th tool call of a run persists.
EvidenceRow(r, k, type) == [id |-> <<r, k>>, incident |-> incident[r], type |-> type]

\* The AgentRun row is flushed as "running" and the context is built.
Start(r) ==
  /\ pc[r] = "idle"
  /\ WriteLockFree(r)
  /\ pc' = [pc EXCEPT ![r] = "deciding"]
  /\ tx' = [tx EXCEPT ![r] = "open"]
  /\ status' = [status EXCEPT ![r] = "running"]
  /\ \E c \in LeadingCauses(incident[r]) : leading' = [leading EXCEPT ![r] = c]
  /\ UNCHANGED <<dialect, incident, collected, elapsed, exhausted, report, pending,
                 evidence, agentRuns>>

\* The loop is left because a budget is used up, whatever the plan still holds.
StopOnBudget(r) ==
  /\ pc[r] = "deciding"
  /\ BudgetHit(r)
  /\ exhausted' = [exhausted EXCEPT ![r] = TRUE]
  /\ pc' = [pc EXCEPT ![r] = "synthesizing"]
  /\ UNCHANGED <<dialect, incident, leading, collected, elapsed, report, status, tx,
                 pending, evidence, agentRuns>>

\* The model finalizes: every step of the plan was called.
Finalize(r) ==
  /\ pc[r] = "deciding"
  /\ ~BudgetHit(r)
  /\ ~PlanLeft(r)
  /\ pc' = [pc EXCEPT ![r] = "synthesizing"]
  /\ UNCHANGED <<dialect, incident, leading, collected, elapsed, exhausted, report,
                 status, tx, pending, evidence, agentRuns>>

\* Mutant: the evidence row is added to no session.
ToolForgetsEvidence(r) ==
  /\ Calling(r)
  /\ tx[r] = "open"
  /\ UNCHANGED <<tx, pending>>
  /\ Collect(r, <<r, Len(collected[r]) + 1>>, NextTool(r))

\* The tool flushes one evidence row and the run collects its id.
ToolSucceeds(r) ==
  /\ Calling(r)
  /\ tx[r] = "open"
  /\ pending' = [pending EXCEPT ![r] =
                   @ \cup {EvidenceRow(r, Len(collected[r]) + 1, NextTool(r))}]
  /\ UNCHANGED tx
  /\ Collect(r, <<r, Len(collected[r]) + 1>>, NextTool(r))

\* Mutant: the error is collected under a type of its own invention.
SelectFailsUntyped(r) ==
  /\ Calling(r)
  /\ tx[r] = "open"
  /\ NextTool(r) \in SelectingTools
  /\ UNCHANGED <<tx, pending>>
  /\ Collect(r, NoEvidence, "failed")

\* The tool's own SELECT fails: a statement timeout, say, or on PostgreSQL the
\* SET LOCAL before it, whose error is suppressed while the transaction it aborted
\* stays aborted.  SQLite goes on after a failed statement.
SelectFails(r) ==
  /\ Calling(r)
  /\ tx[r] = "open"
  /\ NextTool(r) \in SelectingTools
  /\ \/ dialect = "postgres" /\ Poison(r)
     \/ dialect = "sqlite" /\ UNCHANGED <<tx, pending>>
  /\ Collect(r, NoEvidence, "error")

\* The INSERT of the evidence row fails: _persist_evidence raises from flush.
FlushFails(r) ==
  /\ Calling(r)
  /\ tx[r] = "open"
  /\ Poison(r)
  /\ Collect(r, NoEvidence, "error")

\* Mutant: a call that fails on a poisoned session is not recorded.
PoisonedCallIgnored(r) == Calling(r) /\ tx[r] = "poisoned" /\ UNCHANGED vars

\* Every tool touches the session, so on a poisoned one each call raises.
ToolOnPoisonedSession(r) ==
  /\ Calling(r)
  /\ tx[r] = "poisoned"
  /\ UNCHANGED <<tx, pending>>
  /\ Collect(r, NoEvidence, "error")

\* Time passes while the run is in its loop.
Tick(r) ==
  /\ pc[r] = "deciding"
  /\ elapsed[r] <= MaxDuration
  /\ elapsed' = [elapsed EXCEPT ![r] = @ + 1]
  /\ UNCHANGED <<dialect, pc, incident, leading, collected, exhausted, report, status,
                 tx, pending, evidence, agentRuns>>

-------------------------------------------------------------------------------
(* After the loop: report, validation, review, commit.                     *)

Types(r) == {collected[r][k].type : k \in DOMAIN collected[r]}

\* distinct_sources of the orchestrator: failed calls do not count.
SourceTypes(r) == Types(r) \ {"error"}

\* Mutant: failed calls are counted as well.
CallCountWithErrors(r) == Len(collected[r])

\* agent_run.tool_call_count.
ToolCallCount(r) == Cardinality({k \in DOMAIN collected[r] : collected[r][k].type # "error"})

\* The report cites the alert evidence and every collected id, "" included, and
\* its confidence follows the number of collected types, "error" included.
Synthesize(r) ==
  /\ pc[r] = "synthesizing"
  /\ report' = [report EXCEPT ![r] =
       [EmptyReport EXCEPT
          !.cited = {e.id : e \in AlertRows(incident[r])}
                      \cup {collected[r][k].id : k \in DOMAIN collected[r]},
          !.cause = leading[r],
          !.confidence = ConfidenceFor(Cardinality(Types(r)))]]
  /\ pc' = [pc EXCEPT ![r] = "validating"]
  /\ UNCHANGED <<dialect, incident, leading, collected, elapsed, exhausted, status, tx,
                 pending, evidence, agentRuns>>

\* validate_report: a cited id must be a visible row of the incident, and a
\* confident candidate must have one as support; an empty id is not looked up.
Validate(r) ==
  LET visible == {e.id : e \in Visible(r)}
      unsupported == report[r].cited \cap visible = {}
  IN  /\ pc[r] = "validating"
      /\ tx[r] = "open"
      /\ report' = [report EXCEPT ![r] =
           [@ EXCEPT
              !.unsupported = unsupported,
              !.passed = /\ report[r].cited \ {NoEvidence} \subseteq visible
                         /\ unsupported => report[r].confidence < ConfidenceThreshold]]
      /\ pc' = [pc EXCEPT ![r] = "concluding"]
      /\ UNCHANGED <<dialect, incident, leading, collected, elapsed, exhausted, status,
                     tx, pending, evidence, agentRuns>>

\* The review policy is applied and the AgentRun row flushed as "completed".
Conclude(r) ==
  /\ pc[r] = "concluding"
  /\ tx[r] = "open"
  /\ report' = [report EXCEPT ![r] = [@ EXCEPT !.review =
       \/ RequiresHumanReview(report[r].confidence, Cardinality(SourceTypes(r)),
                              SeverityOf[incident[r]], exhausted[r], report[r].cause)
       \/ ~report[r].passed]]
  /\ status' = [status EXCEPT ![r] = "completed"]
  /\ pc' = [pc EXCEPT ![r] = "committing"]
  /\ UNCHANGED <<dialect, incident, leading, collected, elapsed, exhausted, tx, pending,
                 evidence, agentRuns>>

RunRow(r) ==
  [run |-> r, incident |-> incident[r], status |-> status[r],
   calls |-> ToolCallCount(r), report |-> report[r]]

Leave(r, stage) ==
  /\ pc' = [pc EXCEPT ![r] = stage]
  /\ tx' = [tx EXCEPT ![r] = "none"]
  /\ UNCHANGED <<dialect, incident, leading, collected, elapsed, exhausted, report,
                 status>>

\* session_scope commits: rows and run become visible at once.
Commit(r) ==
  /\ pc[r] = "committing"
  /\ tx[r] = "open"
  /\ evidence' = evidence \cup pending[r]
  /\ agentRuns' = agentRuns \cup {RunRow(r)}
  /\ pending' = [pending EXCEPT ![r] = {}]
  /\ Leave(r, "recorded")

\* A statement outside the tool calls raises: the first flush (the incident is
\* gone, or SQLite stays locked), the SELECT of the validator, which is where a
\* poisoned transaction is noticed, the last flush, or the commit.
StatementFails(r) ==
  /\ pc[r] \in {"idle", "validating", "concluding", "committing"}
  /\ pc' = [pc EXCEPT ![r] = "raising"]
  /\ UNCHANGED <<dialect, incident, leading, collected, elapsed, exhausted, report,
                 status, tx, pending, evidence, agentRuns>>

\* Mutant: session_scope commits on the way out of a failure.
RollbackCommits(r) ==
  /\ pc[r] = "raising"
  /\ evidence' = evidence \cup pending[r]
  /\ UNCHANGED agentRuns
  /\ pending' = [pending EXCEPT ![r] = {}]
  /\ Leave(r, "lost")

\* session_scope rolls back and re-raises; the caller gets the exception.
Rollback(r) ==
  /\ pc[r] = "raising"
  /\ UNCHANGED <<evidence, agentRuns>>
  /\ pending' = [pending EXCEPT ![r] = {}]
  /\ Leave(r, "lost")

\* The process dies; the database discards the open transaction.
Crash(r) ==
  /\ pc[r] \notin {"idle"} \cup Finished
  /\ UNCHANGED <<evidence, agentRuns>>
  /\ pending' = [pending EXCEPT ![r] = {}]
  /\ Leave(r, "lost")

-------------------------------------------------------------------------------

CallTool(r) ==
  ToolSucceeds(r) \/ SelectFails(r) \/ FlushFails(r) \/ ToolOnPoisonedSession(r)

\* What a run that has begun goes on to do by itself.
Advance(r) ==
  \/ CallTool(r) \/ StopOnBudget(r) \/ Finalize(r)
  \/ Synthesize(r) \/ Validate(r) \/ Conclude(r) \/ Commit(r)
  \/ pc[r] # "idle" /\ StatementFails(r)
  \/ Rollback(r)

Next ==
  \E r \in Runs :
    Start(r) \/ Advance(r) \/ Tick(r) \/ Crash(r) \/ (pc[r] = "idle" /\ StatementFails(r))

Spec == Init /\ [][Next]_vars

\* A request that is being served keeps executing; nobody has to make one, time
\* need not run out and no process has to crash.
Fairness == \A r \in Runs : WF_vars(Advance(r))

FairSpec == Spec /\ Fairness

-------------------------------------------------------------------------------
(* Properties.                                                             *)

\* Every variable stays within its type.
TypeOK ==
  /\ dialect \in Dialects
  /\ pc \in [Runs -> Stages]
  /\ incident \in [Runs -> Incidents]
  /\ leading \in [Runs -> RootCauses]
  /\ collected \in [Runs -> Seq(Items)]
  /\ elapsed \in [Runs -> 0..MaxDuration + 1]
  /\ exhausted \in [Runs -> BOOLEAN]
  /\ report \in [Runs -> Reports]
  /\ status \in [Runs -> RunStatuses]
  /\ tx \in [Runs -> {"none", "open", "poisoned"}]
  /\ pending \in [Runs -> SUBSET Rows]
  /\ evidence \subseteq Rows
  /\ agentRuns \subseteq RunRows

\* The committed evidence rows that the tools of a run persisted.
EvidenceOf(run) == {e \in evidence : e.id[1] = run}

\* A recorded report cites, apart from the empty ids of failed calls, committed
\* evidence rows of its own incident, whatever failed or ran concurrently
\* (validate_report, the tools' flushes and the one commit together).
CitedEvidencePersisted ==
  \A a \in agentRuns : \A id \in a.report.cited \ {NoEvidence} :
    \E e \in evidence : e.id = id /\ e.incident = a.incident

\* The tool_call_count of a recorded run is the number of committed evidence
\* rows its tools left: the count is taken from memory, the rows from flushes.
ToolCountMatchesEvidence ==
  \A a \in agentRuns : a.calls = Cardinality(EvidenceOf(a.run))

\* Nothing of a run is stored in part: a stored AgentRun is completed, and a
\* stored evidence row of a tool belongs to a stored AgentRun of its incident.
AllOrNothing ==
  /\ \A a \in agentRuns : a.status = "completed"
  /\ \A e \in evidence : e.type # "alert" =>
       \E a \in agentRuns : a.run = e.id[1] /\ a.incident = e.incident

\* A recorded report that no human has to review walked its whole playbook,
\* rests on two kinds of committed tool evidence, names its cause and proposes
\* no high-risk remediation: failed calls never buy their way past the policy.
UnreviewedIsGrounded ==
  \A a \in agentRuns : ~a.report.review =>
    /\ Len(collected[a.run]) = Len(Plan(a.report.cause))
    /\ \E d, e \in EvidenceOf(a.run) : d.type # e.type
    /\ a.report.cause # "UNKNOWN"
    /\ Risk(a.report.cause) # "high"
    /\ SeverityOf[a.incident] # "critical"

\* The validator never rejects what the deterministic model synthesizes: even
\* with every tool failing and no alert, the confidence stays below what the
\* validator accepts without support.
NoSelfRejection == \A a \in agentRuns : a.report.passed

\* A run that was started ends, recorded or lost, whatever its tools do.
Termination == \A r \in Runs : pc[r] = "deciding" ~> pc[r] \in Finished

-------------------------------------------------------------------------------
(* The promise of AtomicInvestigation: every stage between the start and   *)
(* the end of a run is one abstract "running".                             *)

Abstract == INSTANCE AtomicInvestigation WITH
  state <- [r \in Runs |-> IF pc[r] \in {"idle"} \cup Finished THEN pc[r] ELSE "running"]

\* The interleaved, failing, multi-statement run appears to the readers of the
\* store as one atomic step or as nothing, and never changes what others stored.
ImplementsAtomicInvestigation == Abstract!Spec

-------------------------------------------------------------------------------
(* What the repository says of failed tool calls, and TLC refutes.          *)

\* "tool failed; record and continue" (the except clause of the loop): a failed
\* call leaves a transaction in which the run can go on.
ToolFailureIsContained ==
  \A r \in Runs : \A k \in DOMAIN collected[r] :
    collected[r][k].type = "error" => tx[r] # "poisoned"

\* "Confidence values ... must reflect evidence coverage" (agent/prompts.py): the
\* confidence of a recorded report is no more than what the kinds of evidence
\* its tools really persisted would give it.
ConfidenceReflectsCoverage ==
  \A a \in agentRuns :
    a.report.confidence <=
      ConfidenceFor(Cardinality({e.type : e \in EvidenceOf(a.run)}))

-------------------------------------------------------------------------------
(* The inductive invariant of the proofs.                                  *)

AlertIds(i) == {e.id : e \in AlertRows(i)}
CollectedIds(r) == {collected[r][k].id : k \in DOMAIN collected[r]}
Calls(r) == {k \in DOMAIN collected[r] : collected[r][k].type # "error"}
CollectedRows(r) == {EvidenceRow(r, k, collected[r][k].type) : k \in Calls(r)}

\* The k-th entry of the log is the k-th row, or a failed call without an id.
CollectedIsNumbered(r) ==
  \A k \in DOMAIN collected[r] :
    collected[r][k].id = IF collected[r][k].type = "error" THEN NoEvidence ELSE <<r, k>>

\* While the transaction is usable, memory and session agree on the evidence.
SessionMatchesMemory(r) == tx[r] = "open" => pending[r] = CollectedRows(r)

\* What a run carries from stage to stage.
StageInv(r) ==
  /\ pc[r] = "idle" => tx[r] = "none" /\ collected[r] = <<>> /\ pending[r] = {}
  /\ pc[r] \in {"validating", "concluding", "committing", "recorded"} =>
       report[r].cited = AlertIds(incident[r]) \cup CollectedIds(r)
  /\ pc[r] \in {"committing", "recorded"} => status[r] = "completed"

\* The store holds the alert evidence, and of every recorded run, and of no
\* other, the AgentRun row and the collected rows.
StoreInv ==
  /\ \A i \in Incidents : AlertRows(i) \subseteq evidence
  /\ \A a \in agentRuns : pc[a.run] = "recorded" /\ a = RunRow(a.run)
  /\ \A r \in Runs : pc[r] = "recorded" =>
       RunRow(r) \in agentRuns /\ CollectedRows(r) \subseteq evidence
  /\ \A e \in evidence :
       \/ \E i \in Incidents : e \in AlertRows(i)
       \/ \E r \in Runs : pc[r] = "recorded" /\ e \in CollectedRows(r)

IInv ==
  /\ TypeOK
  /\ \A r \in Runs : CollectedIsNumbered(r) /\ SessionMatchesMemory(r) /\ StageInv(r)
  /\ StoreInv
===============================================================================
