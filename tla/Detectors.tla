------------------------------ MODULE Detectors -------------------------------
(***************************************************************************)
(* The deterministic controls (detection/detectors.py), the reconciliation *)
(* they share (detection/reconcile.py), the validation of the clean        *)
(* baseline (simulator/validator.py) and the baseline that ranks causes by *)
(* alerts (evaluation/baseline.py).  Each is a function of the database.   *)
(* An alert keeps what it is about, the cause it suspects and its          *)
(* severity; scores, values and wording are left out.                      *)
(***************************************************************************)
EXTENDS Enterprise

\* A control raises at most one alert for an entity.
Alert(entity, cause, severity) == [entity |-> entity, cause |-> cause, severity |-> severity]

-------------------------------------------------------------------------------
(* reconcile.py                                                            *)

\* The aggregates of each day and region that the source rows and the stored
\* rates give now.  (A customer always has a region.)
RecomputeFromSource(db) ==
  LET keyOf(row) == <<Date(row.at), RegionOf[row.customer]>>
      sold(k) == {o \in db.orders : keyOf(o) = k /\ ~o.cancelled}
      paid(k) == {p \in db.payments : keyOf(p) = k /\ p.status = "successful"}
      returned(k) == {r \in db.refunds : keyOf(r) = k}
      keys == {k \in {keyOf(row) : row \in db.orders \cup db.payments \cup db.refunds} :
                 sold(k) \cup paid(k) \cup returned(k) # {}}
  IN  [k \in keys |-> [gross |-> SalesInUsd(sold(k), db.fx_rates),
                       refunds |-> RefundsInUsd(returned(k), db.fx_rates),
                       orders |-> Cardinality(sold(k)), payments |-> Cardinality(paid(k))]]

-------------------------------------------------------------------------------
(* detectors.py                                                            *)

DuplicateKeys(payments) ==
  {k \in {p.key : p \in payments} : Cardinality({p \in payments : p.key = k}) > 1}

\* An idempotency key with more than one payment.
DuplicatePayment(db) ==
  {Alert(<<"idempotency_key", k>>, "DUPLICATE_TRANSACTION", "high") :
     k \in DuplicateKeys(db.payments)}

\* A rate equal to the one of the day before.
StaleFxRate(db) ==
  {Alert(<<"fx_rate", k>>, "STALE_FX_RATE", "high") :
     k \in {j \in DOMAIN db.fx_rates :
              /\ j[2] # Reporting
              /\ <<j[1] - 1, j[2]>> \in DOMAIN db.fx_rates
              /\ db.fx_rates[j] = db.fx_rates[<<j[1] - 1, j[2]>>]}}

MissingCustomerMapping(db) ==
  {Alert(<<"customers", "crm_mapping">>, "MISSING_CUSTOMER_MAPPING", "medium") :
     c \in {x \in DOMAIN db.customers : db.customers[x] = "null"}}

SchemaChange(db) ==
  {Alert(<<"schema_event", e>>, "SCHEMA_CONTRACT_CHANGE", "high") : e \in db.schema_events}

MaxDuration == 3 * Hour

\* A run that is late or took too long, and a day with orders (a cancelled one
\* is enough) of which no region has a report.
DelayedPipeline(db) ==
  LET late == {r \in db.pipeline_runs :
                 r.status \in {"delayed", "running"} \/ r.completed - r.started > MaxDuration}
      unreported == {Date(o.at) : o \in db.orders} \ {k[1] : k \in DOMAIN db.daily_revenue_report}
  IN  {Alert(<<"pipeline_run", r.id>>, "DELAYED_PIPELINE", "medium") : r \in late}
        \cup {Alert(<<"daily_revenue_report", d>>, "DELAYED_PIPELINE", "medium") : d \in unreported}

Abs(n) == IF n < 0 THEN -n ELSE n

\* Orders that the report has and the source lacks on a day, and about as many
\* the other way round on the next; a day that only one of them has is skipped.
TimezoneShift(db) ==
  LET recomputed == RecomputeFromSource(db)
      reports == db.daily_revenue_report
      both == DOMAIN recomputed \cap DOMAIN reports
      diff(k) == reports[k].orders - recomputed[k].orders
      next(k) == <<k[1] + 1, k[2]>>
      shifted(a, b) == a > 0 /\ b < 0 /\ Abs(Abs(a) - Abs(b)) <= Max({2, Abs(a) \div 2})
  IN  {Alert(<<"daily_revenue_report", k>>, "TIMEZONE_CONVERSION_ERROR", "medium") :
         k \in {j \in both : next(j) \in both /\ shifted(diff(j), diff(next(j)))}}

RequiredField == [order |-> "gross_amount", payment |-> "payment_amount"]

\* A staged record without the amount its kind requires; one alert a kind.
NullContamination(db) ==
  {Alert(<<"staging_records", rec.entity>>, "NULL_CONTAMINATION", "medium") :
     rec \in {x \in db.staging_records : RequiredField[x.entity] \notin x.fields}}

\* Twice the median of a function with numbers as values.
TwiceMedian(f) ==
  LET n == Cardinality(DOMAIN f)
      below(v) == Cardinality({x \in DOMAIN f : f[x] < v})
      upTo(v) == Cardinality({x \in DOMAIN f : f[x] <= v})
      ranked(k) == CHOOSE v \in {f[x] : x \in DOMAIN f} : below(v) < k /\ k <= upTo(v)
  IN  ranked((n + 1) \div 2) + ranked(n \div 2 + 1)

OrderDates(db) == {Date(o.at) : o \in db.orders}

\* A day with less than half the orders of the median day.
PartialLoad(db) ==
  LET perDay == [d \in OrderDates(db) |-> Cardinality({o \in db.orders : Date(o.at) = d})]
      thin == IF Cardinality(DOMAIN perDay) < 5
              THEN {}
              ELSE {d \in DOMAIN perDay : 4 * perDay[d] < TwiceMedian(perDay)}
  IN  {Alert(<<"orders", d>>, "PARTIAL_LOAD", "high") : d \in thin}

IncorrectAggregation(db) ==
  LET reports == db.daily_revenue_report
  IN  {Alert(<<"daily_revenue_report", k>>, "INCORRECT_AGGREGATION", "high") :
         k \in {j \in DOMAIN reports : reports[j].net # reports[j].gross - reports[j].refunds}}

\* Mutant: the burst has to be longer than the one the injector makes.
HighThreshold == 26

Threshold == 10

ApiErrorBurst(db) ==
  LET errors == {l \in db.system_logs : l.level = "ERROR"}
      of(k) == {l \in errors : <<l.service, Date(l.at)>> = k}
  IN  {Alert(<<"system_logs", k>>, "UPSTREAM_API_FAILURE", "high") :
         k \in {j \in {<<l.service, Date(l.at)>> : l \in errors} : Cardinality(of(j)) >= Threshold}}

\* Mutant: a difference in the number of payments alone is overlooked.
DisagreesOnMoney(report, source) ==
  \/ report.gross # source.gross
  \/ report.refunds # source.refunds
  \/ report.orders # source.orders

Disagrees(report, source) ==
  \/ report.gross # source.gross
  \/ report.refunds # source.refunds
  \/ report.orders # source.orders
  \/ report.payments # source.payments

\* A report that disagrees with its source; one without any source is skipped.
RevenueReconciliation(db) ==
  LET recomputed == RecomputeFromSource(db)
      reports == db.daily_revenue_report
  IN  {Alert(<<"daily_revenue_report", k>>, "UNKNOWN", "medium") :
         k \in {j \in DOMAIN reports \cap DOMAIN recomputed : Disagrees(reports[j], recomputed[j])}}

\* Mutant: the control of staged nulls comes before the one of the schema.
NullsFirst ==
  <<"DUPLICATE_TRANSACTION", "STALE_FX_RATE", "MISSING_CUSTOMER_MAPPING", "NULL_CONTAMINATION",
    "SCHEMA_CONTRACT_CHANGE", "DELAYED_PIPELINE", "TIMEZONE_CONVERSION_ERROR", "PARTIAL_LOAD",
    "INCORRECT_AGGREGATION", "UPSTREAM_API_FAILURE", "UNKNOWN">>

\* ALL_DETECTORS, by the cause that only this control suspects.
AllDetectors ==
  <<"DUPLICATE_TRANSACTION", "STALE_FX_RATE", "MISSING_CUSTOMER_MAPPING",
    "SCHEMA_CONTRACT_CHANGE", "DELAYED_PIPELINE", "TIMEZONE_CONVERSION_ERROR",
    "NULL_CONTAMINATION", "PARTIAL_LOAD", "INCORRECT_AGGREGATION", "UPSTREAM_API_FAILURE",
    "UNKNOWN">>

Causes == {AllDetectors[n] : n \in DOMAIN AllDetectors}

RunAllDetectors(db) ==
  UNION {DuplicatePayment(db), StaleFxRate(db), MissingCustomerMapping(db), SchemaChange(db),
         DelayedPipeline(db), TimezoneShift(db), NullContamination(db), PartialLoad(db),
         IncorrectAggregation(db), ApiErrorBurst(db), RevenueReconciliation(db)}

CausesOf(alerts) == {a.cause : a \in alerts}

\* baseline.py: the named cause with the most alerts; of equal ones that of the
\* control which runs first.
Leading(alerts) ==
  LET count(n) == Cardinality({a \in alerts : a.cause = AllDetectors[n]})
      named == {n \in DOMAIN AllDetectors : AllDetectors[n] \in CausesOf(alerts) \ {"UNKNOWN"}}
      first == CHOOSE n \in named :
                 \A k \in named : count(n) > count(k) \/ (count(n) = count(k) /\ n <= k)
  IN  IF named = {} THEN "UNKNOWN" ELSE AllDetectors[first]

-------------------------------------------------------------------------------
(* validator.py, the checks on the tables.                                 *)

ReferencesHold(db) ==
  LET orders == {o.id : o \in db.orders}
      payments == {p.id : p \in db.payments}
  IN  /\ \A o \in db.orders : o.customer \in DOMAIN db.customers
      /\ \A p \in db.payments : p.order \in orders
      /\ \A r \in db.refunds : r.payment \in payments
      /\ \A s \in db.shipments : s.order \in orders

ReportReconciles(db) ==
  LET day(row) == Date(row.at)
      region(row) == RegionOf[row.customer]
      rows(table, k) == {row \in table : day(row) = k[1] /\ region(row) = k[2]}
      agrees(k, rep) ==
        LET sold == {o \in rows(db.orders, k) : ~o.cancelled}
            gross == SalesInUsd(sold, db.fx_rates)
            refunds == RefundsInUsd(rows(db.refunds, k), db.fx_rates)
        IN  /\ rep.gross = gross
            /\ rep.refunds = refunds
            /\ rep.net = gross - refunds
            /\ rep.orders = Cardinality(sold)
            /\ rep.payments =
                 Cardinality({p \in rows(db.payments, k) : p.status = "successful"})
  IN  \A k \in DOMAIN db.daily_revenue_report : agrees(k, db.daily_revenue_report[k])

\* Every check of validate_clean_baseline.
ValidCleanBaseline(db) ==
  /\ DOMAIN db.customers # {} /\ db.orders # {}
  /\ ReferencesHold(db)
  /\ \A c \in DOMAIN db.customers : db.customers[c] = "mapped"
  /\ \A r \in db.refunds : \A p \in db.payments : r.payment = p.id => r.amount <= p.amount
  /\ DuplicateKeys(db.payments) = {}
  /\ \A o \in db.orders : LET c == CurrencyOf[o.customer] IN
       c # Reporting => <<Date(o.at), c>> \in DOMAIN db.fx_rates
  /\ ReportReconciles(db)
===============================================================================
