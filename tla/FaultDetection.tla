---------------------------- MODULE FaultDetection ----------------------------
(***************************************************************************)
(* The life of the data set: it is seeded, incidents are planned on        *)
(* whatever is stored and saved as manifests, and later a manifest is      *)
(* injected into a newly restored clean data set and the controls are run  *)
(* (simulator/cli.py, incidents/cli.py, incidents/service.py,              *)
(* api/v1/demo.py, detection/runner.py).  Each command is one transaction, *)
(* and one runs at a time; how they interleave is the subject of           *)
(* IncidentStore.  A command chooses its configuration for itself, so that *)
(* a manifest may meet other data than it was planned on.                  *)
(***************************************************************************)
EXTENDS Injectors

CONSTANTS
  Configs,         \* the configurations of the generator: the default one, --small
  Seeds,           \* what the random numbers may be: configuration -> draws
  MaxGenerations,  \* bound on the runs of `generate`, for each of the Seeds
  None             \* no manifest, no configuration

ASSUME MaxGenerationsIsNat == MaxGenerations \in [Seeds -> Nat]

Sales ==
  [customer : Customers, at : Nat, gross : Nat \ {0},
   status : {"cancelled", "successful", "failed", "pending"}, delay : 0 .. 6 * Hour,
   refundDays : 0 .. 10, refund : Nat, shipped : BOOLEAN]

\* What the generator can draw: an order at least, orders within its days, refunds
\* of a positive part of the payment, a positive rate for every currency and day.
ASSUME DrawsAreGenerated ==
  \A seed \in Seeds : DOMAIN seed = Configs /\ \A c \in Configs :
    /\ seed[c].days \in Nat \ {0}
    /\ seed[c].sales \in Seq(Sales) \ {<<>>}
    /\ \A k \in DOMAIN seed[c].sales :
         LET sale == seed[c].sales[k]
         IN  /\ Date(sale.at) < seed[c].days
             /\ sale.refundDays > 0 => sale.refund \in 1 .. sale.gross
    /\ seed[c].fx \in [FxDates(seed[c]) \X Currencies -> Nat \ {0}]

VARIABLES
  draws,        \* the random numbers of each configuration
  config,       \* the configuration of the stored data set, if there is one
  db,           \* the data set
  manifest,     \* of the saved manifests, the one that will be injected next
  generations,  \* runs of `generate` so far
  injected,     \* the manifest of the stored incident with ground truth, if there is one
  alerts,       \* the stored alerts
  outcome       \* how the last command ended

vars == <<draws, config, db, manifest, generations, injected, alerts, outcome>>

Clean(c) == Generate(draws[c])

Init ==
  /\ draws \in Seeds
  /\ config = None
  /\ db = Empty
  /\ manifest = None
  /\ generations = 0
  /\ injected = None
  /\ alerts = {}
  /\ outcome = "ok"

\* `seed`, `restore`: all tables are wiped, the artifacts of incidents too, and
\* the clean data set is generated.
Seed(c) ==
  /\ config' = c
  /\ db' = Clean(c)
  /\ injected' = None
  /\ alerts' = {}
  /\ outcome' = "ok"
  /\ UNCHANGED <<draws, manifest, generations>>

\* Every table is dropped and created again; manifests are files and stay.
Reset ==
  /\ config' = None
  /\ db' = Empty
  /\ injected' = None
  /\ alerts' = {}
  /\ outcome' = "ok"
  /\ UNCHANGED <<draws, manifest, generations>>

\* `generate`: incidents of each type in turn, on the data set that is stored; a
\* configuration is only looked at when there is none.  A type that finds no
\* target raises, and the files of the types before it have been saved.
PlanIncidents(c) ==
  LET stored == db.orders # {}
      data == IF stored THEN db ELSE Clean(c)
      planned(n) == Targets(IncidentTypes[n], data)
      failing == {n \in DOMAIN IncidentTypes : planned(n) = {}}
      saved == {n \in DOMAIN IncidentTypes : \A k \in failing : n < k}
  IN  /\ generations < MaxGenerations[draws]
      /\ generations' = generations + 1
      /\ \/ \E n \in saved : \E t \in planned(n) :
              manifest' = [type |-> IncidentTypes[n], target |-> t]
         \/ /\ manifest = None => saved = {}
            /\ manifest # None => \A n \in saved : IncidentTypes[n] # manifest.type
            /\ UNCHANGED manifest
      /\ \/ /\ failing = {}
            /\ db' = data
            /\ config' = IF stored THEN config ELSE c
            /\ outcome' = "ok"
         \/ /\ failing # {}
            /\ outcome' = "error"
            /\ UNCHANGED <<db, config>>
      /\ UNCHANGED <<draws, injected, alerts>>

\* run_incident_pipeline: restore, apply, detect, store the incident; when
\* apply raises, all of it is rolled back.
Inject(c) ==
  /\ manifest # None
  /\ LET effects == Effects(manifest.type, manifest.target, Clean(c))
     IN  \/ \E changed \in effects :
              /\ config' = c
              /\ db' = changed
              /\ injected' = manifest
              /\ alerts' = RunAllDetectors(changed)
              /\ outcome' = "ok"
         \/ /\ effects = {}
            /\ outcome' = "error"
            /\ UNCHANGED <<config, db, injected, alerts>>
  /\ UNCHANGED <<draws, manifest, generations>>

\* `detect`: the controls are run on the data set as it is.
Detect ==
  /\ alerts' = RunAllDetectors(db)
  /\ outcome' = "ok"
  /\ UNCHANGED <<draws, config, db, manifest, generations, injected>>

Next ==
  \/ \E c \in Configs : Seed(c) \/ PlanIncidents(c) \/ Inject(c)
  \/ Reset
  \/ Detect

Spec == Init /\ [][Next]_vars

-------------------------------------------------------------------------------
(* Properties.                                                             *)

\* Every table holds rows of its kind, and every run ends after it starts.
TypeOK ==
  /\ config \in Configs \cup {None}
  /\ \A o \in db.orders : o \in OrderRows
  /\ \A p \in db.payments : p \in PaymentRows
  /\ \A r \in db.refunds : r \in RefundRows
  /\ \A r \in db.pipeline_runs : r.pipeline \in Pipelines /\ r.started <= r.completed
  /\ \A l \in db.system_logs : l.at \in Nat /\ l.level \in {"ERROR", "WARN"}
  /\ \A k \in DOMAIN db.daily_revenue_report :
       k \in Nat \X Regions /\ db.daily_revenue_report[k] \in ReportRows
  /\ manifest # None => manifest.type \in Types
  /\ generations \in 0 .. MaxGenerations[draws]
  /\ \A a \in alerts : a.cause \in Causes /\ a.severity \in {"medium", "high"}
  /\ outcome \in {"ok", "error"}

\* Whatever the seed draws, the baseline passes its own validation, and no
\* control blames a value in it: the report that the generator computed from its
\* rows agrees with three other computations of it.  What may be reported is a
\* day with few orders, one with cancelled orders only, and a rate that has been
\* drawn twice in a row.
CleanBaselineReconciles ==
  injected = None /\ db.orders # {} =>
    /\ ValidCleanBaseline(db)
    /\ CausesOf(alerts) \subseteq {"PARTIAL_LOAD", "DELAYED_PIPELINE", "STALE_FX_RATE"}

\* The stored incident's manifest is one that could be planned on the clean data
\* it was injected into.
Fits == injected.target \in Targets(injected.type, Clean(config))

Cause == RootCauseFor[injected.type]

\* A load of three orders or of five and more loses more than half of them.  It is a thin
\* day if more than half of the days, without this one, had as many orders as it had.
ThinOnceLost(clean, day) ==
  LET loaded(d) == Cardinality({o \in clean.orders : Date(o.at) = d})
      fuller == {d \in OrderDates(clean) \ {day} : loaded(d) >= loaded(day)}
  IN  /\ Cardinality(OrderDates(clean)) >= 5
      /\ loaded(day) = 3 \/ loaded(day) >= 5
      /\ 2 * Cardinality(fuller) > Cardinality(OrderDates(clean))

\* The control of time zones compares reports with sources: orders that count have moved
\* to a day that has a report, and the day they left has something else that counts.
ShiftCounts(clean, day) ==
  LET kept == (Sold(clean.orders) \ Late(clean, day))
                \cup {p \in clean.payments : p.status = "successful"} \cup clean.refunds
  IN  /\ \E o \in Late(clean, day) : ~o.cancelled
      /\ <<day + 1, "Asia">> \in DOMAIN clean.daily_revenue_report
      /\ \E row \in kept : Date(row.at) = day /\ RegionOf[row.customer] = "Asia"

\* The controls see an injected fault.  Two of them may escape: a shift of orders is seen
\* exactly if it counts, and a partial load may have been a large one.
FaultIsSeen ==
  injected # None /\ Fits =>
    LET clean == Clean(config)
        day == injected.target
        seen == Cause \in CausesOf(alerts)
    IN  /\ injected.type \notin {"timezone_conversion_error", "partial_load"} => seen
        /\ injected.type = "timezone_conversion_error" => (seen <=> ShiftCounts(clean, day))
        /\ injected.type = "partial_load" /\ ThinOnceLost(clean, day) => seen

\* An injection changes data that several controls look at.  If it is seen, and
\* nothing was reported before, then the fault that was injected has more alerts
\* than any other, or the control that comes first.  Only a time zone shift may
\* be taken for a partial load: it moves the median, and days that it did not
\* touch become thin.
BaselineNamesTheFault ==
  injected # None =>
    (Fits /\ Cause \in CausesOf(alerts) /\ RunAllDetectors(Clean(config)) = {} =>
       \/ Leading(alerts) = Cause
       \/ injected.type = "timezone_conversion_error" /\ Leading(alerts) = "PARTIAL_LOAD")

\* The controls and the validation, which recompute the report separately, agree
\* on it after every injection: the validation fails exactly if a reconciliation
\* or an aggregation alert is raised, or a report with something in it is left
\* without any source.
ControlsAgreeWithValidation ==
  injected # None =>
    LET reports == db.daily_revenue_report
        sourceless == {k \in DOMAIN reports \ DOMAIN RecomputeFromSource(db) :
                         reports[k].orders + reports[k].payments + reports[k].refunds > 0}
    IN  ReportReconciles(db) <=>
          /\ CausesOf(alerts) \cap {"UNKNOWN", "INCORRECT_AGGREGATION"} = {}
          /\ sourceless = {}

\* No injection leaves a payment, a refund or a shipment of what is gone, though
\* none of them relies on the foreign keys to clean up.
InjectionKeepsReferences == db.orders # {} => ReferencesHold(db)

\* An injection changes no table but those its manifest names.  The manifests of two types
\* say nothing of the log, where their injectors leave an entry: exactly these do, and it
\* is one entry.
InjectionStaysInManifest ==
  injected # None =>
    LET clean == Clean(config)
        unnamed == {t \in Tables \ ChangedTables[injected.type] : db[t] # clean[t]}
    IN  IF injected.type \in {"delayed_pipeline", "partial_load"}
        THEN /\ unnamed = {"system_logs"}
             /\ \E entry \in db.system_logs : db.system_logs = clean.system_logs \cup {entry}
        ELSE unnamed = {}

-------------------------------------------------------------------------------
(* What the repository says, and TLC refutes.                              *)

\* "Reconciliation problems (..., stale FX rates, ...) have exact answers -
\* deterministic controls catch them precisely with zero false positives"
\* (README), test_clean_baseline_raises_no_alerts.
RateControlIsPrecise == injected = None => "STALE_FX_RATE" \notin CausesOf(alerts)

\* "Isolated: an injector changes only the records named in its manifest." (injectors.py)
InjectionIsIsolated ==
  injected # None =>
    \A t \in Tables \ ChangedTables[injected.type] : db[t] = Clean(config)[t]

\* "A manifest fully describes how to reproduce an incident" (manifest.py): what
\* generate has saved can be injected.
ManifestReproduces == [][generations' = generations => outcome' # "error"]_vars
===============================================================================
