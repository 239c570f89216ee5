------------------------------- MODULE Injectors ------------------------------
(***************************************************************************)
(* The ten incident injectors (incidents/injectors.py).  Of each:          *)
(*   its targets, what plan may choose from the data that is stored;       *)
(*     rng.choice of a list, which raises when the list is empty;          *)
(*   its effect, what apply makes of a database and a target; a set, of    *)
(*     all that the seed may lead to, and empty when apply raises.         *)
(* The identifiers of what a manifest injects are unique in the data set,  *)
(* as every injection starts from a clean one.                             *)
(***************************************************************************)
EXTENDS Detectors

CONSTANTS
  Margin,   \* order dates at either end that are no targets, 5 in the code
  Sample    \* customers that lose their mapping, 5 in the code

\* The runs that an incident adds are of pipelines that are defined.
ASSUME PipelinesAreDefined ==
  {"orders_ingest", "payment_reconciliation_pipeline"} \subseteq Pipelines

ASSUME MarginIsNat == Margin \in Nat
ASSUME SampleIsPositive == Sample \in Nat \ {0}

\* dates[5:-5] of the sorted order dates.
InnerDates(db) ==
  LET dates == OrderDates(db)
  IN  {d \in dates : /\ Cardinality({e \in dates : e < d}) >= Margin
                     /\ Cardinality({e \in dates : e > d}) >= Margin}

Log(id, service, at, level) == [id |-> id, service |-> service, at |-> at, level |-> level]

WithLog(db, log) == [db EXCEPT !.system_logs = @ \cup {log}]

FailedRun(id, pipeline, started, completed) ==
  [id |-> id, pipeline |-> pipeline, started |-> started, completed |-> completed,
   status |-> "failed"]

\* The cause that a type of incident stands for.
RootCauseFor ==
  [duplicate_transaction |-> "DUPLICATE_TRANSACTION",
   stale_fx_rate |-> "STALE_FX_RATE",
   missing_customer_mapping |-> "MISSING_CUSTOMER_MAPPING",
   schema_change |-> "SCHEMA_CONTRACT_CHANGE",
   delayed_pipeline |-> "DELAYED_PIPELINE",
   timezone_conversion_error |-> "TIMEZONE_CONVERSION_ERROR",
   null_contamination |-> "NULL_CONTAMINATION",
   partial_load |-> "PARTIAL_LOAD",
   incorrect_aggregation |-> "INCORRECT_AGGREGATION",
   upstream_api_failure |-> "UPSTREAM_API_FAILURE"]

\* IncidentType, in the order in which generate_manifests goes through them.
IncidentTypes ==
  <<"duplicate_transaction", "stale_fx_rate", "missing_customer_mapping", "schema_change",
    "delayed_pipeline", "timezone_conversion_error", "null_contamination", "partial_load",
    "incorrect_aggregation", "upstream_api_failure">>

Types == {IncidentTypes[n] : n \in DOMAIN IncidentTypes}

-------------------------------------------------------------------------------
(* Duplicate transaction.                                                  *)

DuplicateTargets(db) == {p.id : p \in {q \in db.payments : q.status = "successful"}}

\* The payment once more, two minutes later; it has to be there (assert).
Duplicate(db, id) ==
  {WithLog([db EXCEPT !.payments =
              @ \cup {[p EXCEPT !.id = <<p.id[1], 1>>, !.at = @ + 2, !.status = "successful"]}],
           Log(<<"dup", id>>, "payment_reconciliation_pipeline", p.at + 2, "WARN")) :
     p \in {q \in db.payments : q.id = id}}

-------------------------------------------------------------------------------
(* Stale FX rate.                                                          *)

StaleFxTargets(db) == InnerDates(db) \X (Currencies \ {Reporting})

\* The rate of the day before; both have to be there (scalar_one).
StaleFx(db, target) ==
  LET d == target[1]
      currency == target[2]
      known == {<<d, currency>>, <<d - 1, currency>>} \subseteq DOMAIN db.fx_rates
      stale == [db EXCEPT !.fx_rates[<<d, currency>>] = db.fx_rates[<<d - 1, currency>>]]
  IN  IF known
      THEN {WithLog(stale, Log(<<"stalefx">>, "fx_rate_pipeline", At(d, 0), "WARN"))}
      ELSE {}

-------------------------------------------------------------------------------
(* Missing customer mapping.                                               *)

MissingMappingTargets(db) == {S \in SUBSET DOMAIN db.customers : Cardinality(S) = Sample}

\* The customers have to be there (assert), and at least one order.
MissingMapping(db, customers) ==
  {WithLog([db EXCEPT !.customers = [c \in DOMAIN @ |-> IF c \in customers THEN "null" ELSE @[c]]],
           Log(<<"mapping">>, "customer_mapping_pipeline", At(d, 2), "ERROR")) :
     d \in {e \in OrderDates(db) :
              customers \subseteq DOMAIN db.customers /\ e = Min(OrderDates(db))}}

-------------------------------------------------------------------------------
(* Schema change.                                                          *)

Renamings ==
  {[table |-> "orders", entity |-> "order", field |-> "gross_amount", new |-> "amount_gross"],
   [table |-> "payments", entity |-> "payment", field |-> "payment_amount", new |-> "amount"],
   [table |-> "orders", entity |-> "order", field |-> "order_currency", new |-> "currency_code"]}

SchemaTargets(db) == Renamings \X InnerDates(db)

\* A schema event, a failed run, an error, and the rejected record, which has
\* the new field and not the old one.
RenameField(db, target) ==
  LET r == target[1]
      at == At(target[2], 2)
      changed == [db EXCEPT
        !.schema_events = @ \cup {<<r.table, r.field>>},
        !.pipeline_runs = @ \cup {FailedRun(<<"schema", target[2]>>, "orders_ingest", at, at)},
        !.staging_records = @ \cup {[id |-> 0, entity |-> r.entity, fields |-> {r.new}]}]
  IN  {WithLog(changed, Log(<<"schema">>, "orders_ingest", at, "ERROR"))}

-------------------------------------------------------------------------------
(* Delayed pipeline.                                                       *)

DelayedTargets(db) == InnerDates(db)

\* Mutant: the run is said to end at 14:00 of the first day.
CompletedLateWrong(started) == 14 * Hour

CompletedLate(started) == started + 14 * Hour

\* The aggregation of the day, if there is one, ends fourteen hours later, and
\* the reports of the day are gone.
DelayPipeline(db, d) ==
  LET late(r) == IF r.id = <<"revenue_aggregation_pipeline", d>>
                 THEN [r EXCEPT !.completed = CompletedLate(r.started), !.status = "delayed"]
                 ELSE r
      kept == {k \in DOMAIN db.daily_revenue_report : k[1] # d}
  IN  {WithLog([db EXCEPT !.pipeline_runs = {late(r) : r \in @},
                          !.daily_revenue_report = [k \in kept |-> @[k]]],
               Log(<<"delay">>, "revenue_aggregation_pipeline", At(d, 19), "ERROR"))}

-------------------------------------------------------------------------------
(* Timezone conversion error.                                              *)

Late(db, d) ==
  {o \in db.orders : RegionOf[o.customer] = "Asia" /\ HourOf(o.at) >= 20 /\ Date(o.at) = d}

\* A day with late orders in Asia, cancelled ones included, if there is any.
TimezoneTargets(db) ==
  LET candidates == {d \in InnerDates(db) : Late(db, d) # {}}
  IN  IF candidates # {} THEN candidates ELSE InnerDates(db)

\* They move by six hours, to the next day; payments and reports stay.
ShiftTimezone(db, d) ==
  {[db EXCEPT !.orders =
      (@ \ Late(db, d)) \cup {[o EXCEPT !.at = @ + 6 * Hour] : o \in Late(db, d)}]}

-------------------------------------------------------------------------------
(* Null contamination.                                                     *)

NullTargets(db) == InnerDates(db)

\* Eight staged orders without an amount.
ContaminateWithNulls(db, d) ==
  {WithLog([db EXCEPT !.staging_records =
              @ \cup {[id |-> n, entity |-> "order", fields |-> {"order_id", "currency"}] :
                        n \in 0 .. 7}],
           Log(<<"null">>, "orders_ingest", At(d, 3), "ERROR"))}

-------------------------------------------------------------------------------
(* Partial load.                                                           *)

PartialLoadTargets(db) == InnerDates(db)

\* Seven tenths of the orders of the day, rounded down, are dropped with what
\* refers to them; which ones the seed shuffles.
LoadPartially(db, d) ==
  LET ids == {o.id : o \in {x \in db.orders : Date(x.at) = d}}
      without(drop) == [db EXCEPT
        !.refunds = {r \in @ : r.order \notin drop},
        !.payments = {p \in @ : p.order \notin drop},
        !.shipments = {s \in @ : s.order \notin drop},
        !.orders = {o \in @ : o.id \notin drop}]
  IN  {WithLog(without(drop), Log(<<"partial">>, "orders_ingest", At(d, 4), "WARN")) :
         drop \in {S \in SUBSET ids : Cardinality(S) = (7 * Cardinality(ids)) \div 10}}

-------------------------------------------------------------------------------
(* Incorrect aggregation.                                                  *)

AggregationTargets(db) ==
  {k \in DOMAIN db.daily_revenue_report : db.daily_revenue_report[k].refunds > 0}

\* Refunds are added, if the report is there.
AddRefunds(db, k) ==
  LET wrong(rep) == [rep EXCEPT !.net = rep.gross + rep.refunds]
  IN  {[db EXCEPT !.daily_revenue_report =
          [j \in DOMAIN @ |-> IF j = k THEN wrong(@[j]) ELSE @[j]]]}

-------------------------------------------------------------------------------
(* Upstream API failure.                                                   *)

ApiFailureTargets(db) == InnerDates(db)

\* Mutant: the refunds of the lost payments stay.
KeepRefunds(refunds, lost) == refunds

WithoutRefunds(refunds, lost) == {r \in refunds : r.payment \notin lost}

\* Twenty-five errors, a failed run, and the first five payments of the window
\* from three to five are lost, with their refunds.
FailUpstream(db, d) ==
  LET at == At(d, 3)
      window == {p \in db.payments : p.at >= at /\ p.at < At(d, 5)}
      lost == {p.id : p \in {q \in window : Cardinality({o \in window : o.id[1] < q.id[1]}) < 5}}
  IN  {[db EXCEPT
          !.system_logs =
            @ \cup {Log(<<"api", n>>, "payment_provider_api", at + n, "ERROR") : n \in 0 .. 24},
          !.pipeline_runs =
            @ \cup {FailedRun(<<"api", d>>, "payment_reconciliation_pipeline", at, at + 25)},
          !.refunds = WithoutRefunds(@, lost),
          !.payments = {p \in @ : p.id \notin lost}]}

-------------------------------------------------------------------------------
(* Manifests.                                                              *)

\* What plan may choose for a type of incident; nothing when it raises.
Targets(type, db) ==
  CASE type = "duplicate_transaction"     -> DuplicateTargets(db)
    [] type = "stale_fx_rate"             -> StaleFxTargets(db)
    [] type = "missing_customer_mapping"  -> MissingMappingTargets(db)
    [] type = "schema_change"             -> SchemaTargets(db)
    [] type = "delayed_pipeline"          -> DelayedTargets(db)
    [] type = "timezone_conversion_error" -> TimezoneTargets(db)
    [] type = "null_contamination"        -> NullTargets(db)
    [] type = "partial_load"              -> PartialLoadTargets(db)
    [] type = "incorrect_aggregation"     -> AggregationTargets(db)
    [] type = "upstream_api_failure"      -> ApiFailureTargets(db)

Effects(type, target, db) ==
  CASE type = "duplicate_transaction"     -> Duplicate(db, target)
    [] type = "stale_fx_rate"             -> StaleFx(db, target)
    [] type = "missing_customer_mapping"  -> MissingMapping(db, target)
    [] type = "schema_change"             -> RenameField(db, target)
    [] type = "delayed_pipeline"          -> DelayPipeline(db, target)
    [] type = "timezone_conversion_error" -> ShiftTimezone(db, target)
    [] type = "null_contamination"        -> ContaminateWithNulls(db, target)
    [] type = "partial_load"              -> LoadPartially(db, target)
    [] type = "incorrect_aggregation"     -> AddRefunds(db, target)
    [] type = "upstream_api_failure"      -> FailUpstream(db, target)

\* Mutant: the manifest of an upstream failure forgets the refunds.
ApiFailureTablesButRefunds == {"system_logs", "pipeline_runs", "payments"}

ApiFailureTables == {"system_logs", "pipeline_runs", "payments", "refunds"}

\* The tables that the manifest says the incident changes.
ChangedTables ==
  [duplicate_transaction |-> {"payments", "system_logs"},
   stale_fx_rate |-> {"fx_rates", "pipeline_runs", "system_logs"},
   missing_customer_mapping |-> {"customers", "system_logs"},
   schema_change |-> {"schema_events", "pipeline_runs", "system_logs", "staging_records"},
   delayed_pipeline |-> {"pipeline_runs", "daily_revenue_report"},
   timezone_conversion_error |-> {"orders"},
   null_contamination |-> {"staging_records", "system_logs"},
   partial_load |-> {"orders", "payments", "refunds", "shipments", "pipeline_runs"},
   incorrect_aggregation |-> {"daily_revenue_report"},
   upstream_api_failure |-> ApiFailureTables]
===============================================================================
