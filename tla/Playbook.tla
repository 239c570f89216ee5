------------------------------- MODULE Playbook -------------------------------
(***************************************************************************)
(* The tables an investigation runs on: the root-cause taxonomy, the tool  *)
(* plan of each root cause (agent/knowledge.py), the risk of its           *)
(* remediation, the confidence FakeLLM reports for a number of evidence    *)
(* types (agent/llm.py), and the human-review thresholds (agent/policy.py).*)
(* A tool is named by the evidence type it persists; the arguments of an   *)
(* invocation are abstracted away.  Confidences are percentages.           *)
(***************************************************************************)
EXTENDS Naturals, Sequences

ToolTypes == {"sql", "pipeline", "log", "schema", "lineage", "historical"}

\* The tools whose run issues a SELECT of its own: query_lineage walks an
\* in-memory graph and search_historical_incidents an index fitted beforehand.
SelectingTools == {"sql", "pipeline", "log", "schema"}

RootCauses ==
  {"STALE_FX_RATE", "DUPLICATE_TRANSACTION", "MISSING_CUSTOMER_MAPPING",
   "SCHEMA_CONTRACT_CHANGE", "DELAYED_PIPELINE", "TIMEZONE_CONVERSION_ERROR",
   "NULL_CONTAMINATION", "PARTIAL_LOAD", "INCORRECT_AGGREGATION",
   "UPSTREAM_API_FAILURE", "UNKNOWN"}

\* The ordered tool plan of a suspected root cause.  The focus node is always
\* set (every cause has one), so the lineage step is never dropped.
Plan(cause) ==
  CASE cause = "STALE_FX_RATE" ->
         <<"sql", "pipeline", "log", "lineage", "historical">>
    [] cause = "DUPLICATE_TRANSACTION" ->
         <<"sql", "log", "lineage", "historical">>
    [] cause \in {"MISSING_CUSTOMER_MAPPING", "PARTIAL_LOAD"} ->
         <<"sql", "pipeline", "lineage", "historical">>
    [] cause = "SCHEMA_CONTRACT_CHANGE" ->
         <<"schema", "pipeline", "log", "lineage", "historical">>
    [] cause = "DELAYED_PIPELINE" ->
         <<"pipeline", "log", "lineage", "historical">>
    [] cause = "NULL_CONTAMINATION" ->
         <<"log", "schema", "lineage", "historical">>
    [] cause = "UPSTREAM_API_FAILURE" ->
         <<"log", "pipeline", "lineage", "historical">>
    [] OTHER ->
         <<"sql", "lineage", "historical">>

\* The risk of the one remediation that the report recommends.
Risk(cause) ==
  CASE cause \in {"DUPLICATE_TRANSACTION", "SCHEMA_CONTRACT_CHANGE",
                  "PARTIAL_LOAD", "INCORRECT_AGGREGATION"} -> "high"
    [] cause \in {"DELAYED_PIPELINE", "UNKNOWN"} -> "low"
    [] OTHER -> "medium"

\* Mutant: one kind of evidence is already enough for a confident report.
EagerConfidenceFor(n) ==
  CASE n = 0 -> 30 [] n = 1 -> 72 [] n = 2 -> 72 [] OTHER -> 86

ConfidenceFor(n) ==
  CASE n = 0 -> 30 [] n = 1 -> 50 [] n = 2 -> 72 [] OTHER -> 86

ConfidenceThreshold == 65

Severities == {"low", "medium", "high", "critical"}

\* Mutant: a used-up budget is no reason for a review.
ReviewDespiteBudget(confidence, sources, severity, exhausted, cause) ==
  \/ confidence < ConfidenceThreshold
  \/ sources < 2
  \/ severity = "critical"
  \/ cause = "UNKNOWN"
  \/ Risk(cause) = "high"

\* evaluate_human_review for a report with one candidate: tool_conflict and
\* critical_data_unavailable keep their default, because the caller passes
\* neither, and a second candidate that could tie never exists.
RequiresHumanReview(confidence, sources, severity, exhausted, cause) ==
  \/ confidence < ConfidenceThreshold
  \/ sources < 2
  \/ exhausted
  \/ severity = "critical"
  \/ cause = "UNKNOWN"
  \/ Risk(cause) = "high"
===============================================================================
