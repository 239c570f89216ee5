------------------------- MODULE FaultDetectionProofs -------------------------
(***************************************************************************)
(* Proofs about FaultDetection for every configuration, whatever is drawn. *)
(***************************************************************************)
EXTENDS FaultDetection, RecursionProofs, FiniteSetTheorems, TLAPS

-------------------------------------------------------------------------------
(* What an injector leaves alone.                                          *)

\* e is d but for the named tables.
ChangesOnly(e, d, tables) ==
  DOMAIN e = Tables /\ \A t \in Tables \ tables : e[t] = d[t]

\* The injectors that write one table or two, and a log.
LEMMA SmallEffects ==
  ASSUME NEW d, DOMAIN d = Tables, NEW target
  PROVE  /\ \A e \in Duplicate(d, target) : ChangesOnly(e, d, {"payments", "system_logs"})
         /\ \A e \in StaleFx(d, target) : ChangesOnly(e, d, {"fx_rates", "system_logs"})
         /\ \A e \in MissingMapping(d, target) : ChangesOnly(e, d, {"customers", "system_logs"})
         /\ \A e \in DelayPipeline(d, target) :
              ChangesOnly(e, d, {"pipeline_runs", "daily_revenue_report", "system_logs"})
         /\ \A e \in ShiftTimezone(d, target) : ChangesOnly(e, d, {"orders"})
         /\ \A e \in ContaminateWithNulls(d, target) :
              ChangesOnly(e, d, {"staging_records", "system_logs"})
         /\ \A e \in AddRefunds(d, target) : ChangesOnly(e, d, {"daily_revenue_report"})
  <1>1. \A e \in Duplicate(d, target) : ChangesOnly(e, d, {"payments", "system_logs"})
    BY DEF Duplicate, WithLog, ChangesOnly, Tables
  <1>2. \A e \in StaleFx(d, target) : ChangesOnly(e, d, {"fx_rates", "system_logs"})
    BY DEF StaleFx, WithLog, ChangesOnly, Tables
  <1>3. \A e \in MissingMapping(d, target) : ChangesOnly(e, d, {"customers", "system_logs"})
    BY DEF MissingMapping, WithLog, ChangesOnly, Tables
  <1>4. \A e \in DelayPipeline(d, target) :
          ChangesOnly(e, d, {"pipeline_runs", "daily_revenue_report", "system_logs"})
    BY DEF DelayPipeline, WithLog, ChangesOnly, Tables
  <1>5. \A e \in ShiftTimezone(d, target) : ChangesOnly(e, d, {"orders"})
    BY DEF ShiftTimezone, ChangesOnly, Tables
  <1>6. \A e \in ContaminateWithNulls(d, target) :
          ChangesOnly(e, d, {"staging_records", "system_logs"})
    BY DEF ContaminateWithNulls, WithLog, ChangesOnly, Tables
  <1>7. \A e \in AddRefunds(d, target) : ChangesOnly(e, d, {"daily_revenue_report"})
    BY DEF AddRefunds, ChangesOnly, Tables
  <1> QED
    BY <1>1, <1>2, <1>3, <1>4, <1>5, <1>6, <1>7

\* The injectors that write more tables.
LEMMA LargeEffects ==
  ASSUME NEW d, DOMAIN d = Tables, NEW target
  PROVE  /\ \A e \in RenameField(d, target) :
              ChangesOnly(e, d, {"schema_events", "pipeline_runs", "staging_records",
                                 "system_logs"})
         /\ \A e \in LoadPartially(d, target) :
              ChangesOnly(e, d, {"orders", "payments", "refunds", "shipments", "system_logs"})
         /\ \A e \in FailUpstream(d, target) :
              ChangesOnly(e, d, {"system_logs", "pipeline_runs", "payments", "refunds"})
  <1>1. \A e \in RenameField(d, target) :
          ChangesOnly(e, d, {"schema_events", "pipeline_runs", "staging_records", "system_logs"})
    BY DEF RenameField, WithLog, ChangesOnly, Tables
  <1>2. \A e \in LoadPartially(d, target) :
          ChangesOnly(e, d, {"orders", "payments", "refunds", "shipments", "system_logs"})
    BY DEF LoadPartially, WithLog, ChangesOnly, Tables
  <1>3. \A e \in FailUpstream(d, target) :
          ChangesOnly(e, d, {"system_logs", "pipeline_runs", "payments", "refunds"})
    BY DEF FailUpstream, ChangesOnly, Tables
  <1> QED
    BY <1>1, <1>2, <1>3

\* The injectors that log without naming the log leave one entry there
\* (incidents/injectors.py, DelayedPipelineInjector and PartialLoadInjector).
LEMMA UnnamedEntry ==
  ASSUME NEW d, DOMAIN d = Tables, NEW target,
         NEW e \in DelayPipeline(d, target) \cup LoadPartially(d, target)
  PROVE  \E l : e.system_logs = d.system_logs \cup {l}
  <1> DEFINE Logged(x) == \E l : x.system_logs = d.system_logs \cup {l}
  <1>1. ASSUME NEW x, DOMAIN x = Tables, x.system_logs = d.system_logs, NEW l
        PROVE  Logged(WithLog(x, l))
    BY <1>1 DEF WithLog, Tables
  <1>2. CASE e \in DelayPipeline(d, target)
    <2>1. PICK u, v, l : e = WithLog([d EXCEPT !.pipeline_runs = u, !.daily_revenue_report = v], l)
      BY <1>2 DEF DelayPipeline
    <2> DEFINE x == [d EXCEPT !.pipeline_runs = u, !.daily_revenue_report = v]
    <2>2. DOMAIN x = Tables /\ x.system_logs = d.system_logs
      BY DEF Tables
    <2>3. e = WithLog(x, l)
      BY <2>1
    <2> HIDE DEF x, Logged
    <2>4. Logged(e)
      BY <1>1, <2>2, <2>3
    <2> QED
      BY <2>4 DEF Logged
  <1>3. CASE e \in LoadPartially(d, target)
    <2>1. PICK u, v, y, z, l : e = WithLog([d EXCEPT !.refunds = u, !.payments = v, !.shipments = y,
                                                     !.orders = z], l)
      BY <1>3 DEF LoadPartially
    <2> DEFINE x == [d EXCEPT !.refunds = u, !.payments = v, !.shipments = y, !.orders = z]
    <2>2. DOMAIN x = Tables /\ x.system_logs = d.system_logs
      BY DEF Tables
    <2>3. e = WithLog(x, l)
      BY <2>1
    <2> HIDE DEF x, Logged
    <2>4. Logged(e)
      BY <1>1, <2>2, <2>3
    <2> QED
      BY <2>4 DEF Logged
  <1> QED
    BY <1>2, <1>3

\* No injector changes a table that its manifest does not name, but the log
\* (incidents/injectors.py, changed_tables).
LEMMA EffectsStayInManifest ==
  ASSUME NEW d, DOMAIN d = Tables, NEW type \in Types, NEW target,
         NEW e \in Effects(type, target, d)
  PROVE  ChangesOnly(e, d, ChangedTables[type] \cup {"system_logs"})
  <1>1. \A s, t : s \subseteq t /\ ChangesOnly(e, d, s) => ChangesOnly(e, d, t)
    BY DEF ChangesOnly
  <1>2. CASE type \in {"duplicate_transaction", "stale_fx_rate", "missing_customer_mapping"}
    BY <1>1, <1>2, SmallEffects DEF Effects, ChangedTables
  <1>3. CASE type \in {"delayed_pipeline", "timezone_conversion_error"}
    BY <1>1, <1>3, SmallEffects DEF Effects, ChangedTables
  <1>4. CASE type \in {"null_contamination", "incorrect_aggregation"}
    BY <1>1, <1>4, SmallEffects DEF Effects, ChangedTables
  <1>5. CASE type \in {"schema_change", "partial_load", "upstream_api_failure"}
    BY <1>1, <1>5, LargeEffects DEF Effects, ChangedTables, ApiFailureTables
  <1>6. \/ type \in {"duplicate_transaction", "stale_fx_rate", "missing_customer_mapping"}
        \/ type \in {"delayed_pipeline", "timezone_conversion_error"}
        \/ type \in {"null_contamination", "incorrect_aggregation"}
        \/ type \in {"schema_change", "partial_load", "upstream_api_failure"}
    BY DEF Types, IncidentTypes
  <1> QED
    BY <1>2, <1>3, <1>4, <1>5, <1>6

\* What InjectionStaysInManifest says of the data set e that an injection made of d.
StaysIn(e, d, type) ==
  LET unnamed == {t \in Tables \ ChangedTables[type] : e[t] # d[t]}
  IN  IF type \in {"delayed_pipeline", "partial_load"}
      THEN /\ unnamed = {"system_logs"}
           /\ \E entry \in e.system_logs : e.system_logs = d.system_logs \cup {entry}
      ELSE unnamed = {}

\* Eight injectors change only what their manifests name, two leave one entry in the log
\* besides (incidents/injectors.py, plan and apply).
LEMMA EffectsStayIn ==
  ASSUME NEW d, DOMAIN d = Tables, d.system_logs = {}, NEW type \in Types, NEW target,
         NEW e \in Effects(type, target, d)
  PROVE  StaysIn(e, d, type)
  <1> DEFINE unnamed == {t \in Tables \ ChangedTables[type] : e[t] # d[t]}
  <1>1. CASE type \in {"delayed_pipeline", "partial_load"}
    <2>1. e \in DelayPipeline(d, target) \cup LoadPartially(d, target)
      BY <1>1 DEF Effects
    <2>2. PICK l : e.system_logs = d.system_logs \cup {l}
      BY <2>1, UnnamedEntry
    <2>3. "system_logs" \in Tables \ ChangedTables[type]
      BY <1>1 DEF ChangedTables, Tables
    <2>4. \A t \in Tables \ (ChangedTables[type] \cup {"system_logs"}) : e[t] = d[t]
      BY EffectsStayInManifest DEF ChangesOnly
    <2>5. unnamed = {"system_logs"}
      BY <2>2, <2>3, <2>4
    <2> QED
      BY <1>1, <2>2, <2>5 DEF StaysIn
  <1>2. CASE type \notin {"delayed_pipeline", "partial_load"}
    <2>1. \A u, v : u \subseteq v /\ ChangesOnly(e, d, u) => ChangesOnly(e, d, v)
      BY DEF ChangesOnly
    <2>2. ChangesOnly(e, d, ChangedTables[type])
      <3>1. CASE type \in {"duplicate_transaction", "stale_fx_rate", "missing_customer_mapping"}
        BY <2>1, <3>1, SmallEffects DEF Effects, ChangedTables
      <3>2. CASE type \in {"timezone_conversion_error", "null_contamination", "incorrect_aggregation"}
        BY <2>1, <3>2, SmallEffects DEF Effects, ChangedTables
      <3>3. CASE type \in {"schema_change", "upstream_api_failure"}
        BY <2>1, <3>3, LargeEffects DEF Effects, ChangedTables, ApiFailureTables
      <3> QED
        BY <1>2, <3>1, <3>2, <3>3 DEF Types, IncidentTypes
    <2>3. unnamed = {}
      BY <2>2 DEF ChangesOnly
    <2> QED
      BY <1>2, <2>3 DEF StaysIn
  <1> QED
    BY <1>1, <1>2

-------------------------------------------------------------------------------
(* The tables of a clean data set.                                         *)

\* Generate fills the tables and no others (generator.py, generate).
LEMMA CleanTables == ASSUME NEW c PROVE DOMAIN Clean(c) = Tables /\ Clean(c).system_logs = {}
  BY DEF Clean, Generate, Tables

\* A saved manifest is of one of the ten types.
ManifestInv == manifest # None => manifest.type \in Types

\* generate saves manifests of its ten types only (incidents/service.py, generate_manifests).
LEMMA ManifestTyped == Spec => []ManifestInv
  <1>1. Init => ManifestInv
    BY DEF Init, ManifestInv
  <1>2. ManifestInv /\ [Next]_vars => ManifestInv'
    <2> SUFFICES ASSUME ManifestInv, [Next]_vars PROVE ManifestInv'
      OBVIOUS
    <2>1. CASE manifest' = manifest
      BY <2>1 DEF ManifestInv
    <2>2. ASSUME NEW c \in Configs, PlanIncidents(c), manifest' # manifest PROVE ManifestInv'
      <3>1. \E n \in DOMAIN IncidentTypes : manifest'.type = IncidentTypes[n]
        BY <2>2 DEF PlanIncidents
      <3> QED
        BY <3>1 DEF ManifestInv, Types
    <2> QED
      BY <2>1, <2>2 DEF Next, vars, Seed, Reset, Inject, Detect
  <1> QED
    BY <1>1, <1>2, PTL DEF Spec

-------------------------------------------------------------------------------
(* References.                                                             *)

\* Every row refers to rows that are there, and a refund to a payment of its own order.
RefsAgree(d) ==
  /\ \A o \in d.orders : o.customer \in DOMAIN d.customers
  /\ \A p \in d.payments : \E o \in d.orders : o.id = p.order
  /\ \A r \in d.refunds : \E p \in d.payments : p.id = r.payment /\ p.order = r.order
  /\ \A s \in d.shipments : \E o \in d.orders : o.id = s.order

\* What agrees is what the validation asks for (validator.py).
LEMMA AgreeingRefsHold == ASSUME NEW d, RefsAgree(d) PROVE ReferencesHold(d)
  BY DEF RefsAgree, ReferencesHold

\* What is drawn is well formed.
LEMMA DrawnSales ==
  ASSUME NEW seed \in Seeds, NEW c \in Configs
  PROVE  seed[c].sales \in Seq(Sales)
  BY DrawsAreGenerated

\* The generator refers to what it has generated (_gen_orders, _gen_payments, _gen_refunds).
LEMMA CleanRefsAgree ==
  ASSUME draws \in Seeds, NEW c \in Configs
  PROVE  RefsAgree(Clean(c))
  <1> DEFINE w == draws[c]
             d == Clean(c)
  <1>1. w.sales \in Seq(Sales)
    BY DrawnSales
  <1>2. \A k \in DOMAIN w.sales : w.sales[k].customer \in Customers
    <2> HIDE DEF w
    <2>1. \A k \in DOMAIN w.sales : w.sales[k] \in Sales
      BY <1>1
    <2>2. \A x \in Sales : x.customer \in Customers
      BY DEF Sales
    <2> QED
      BY <2>1, <2>2
  <1>3. /\ d.orders = GenOrders(w) /\ d.payments = GenPayments(w) /\ d.refunds = GenRefunds(w)
        /\ d.shipments = GenShipments(w) /\ DOMAIN d.customers = Customers
    BY DEF Clean, Generate
  <1>4. Refunded(w) \subseteq Paid(w) /\ Paid(w) \subseteq DOMAIN w.sales
    BY DEF Refunded, Paid
  <1> HIDE DEF w, d
  <1>5. \A o \in d.orders : o.customer \in DOMAIN d.customers
    BY <1>2, <1>3 DEF GenOrders
  <1>6. \A k \in DOMAIN w.sales : \E o \in d.orders : o.id = k
    <2> TAKE k \in DOMAIN w.sales
    <2> DEFINE row(i) == [id |-> i, customer |-> w.sales[i].customer, at |-> w.sales[i].at,
                          gross |-> w.sales[i].gross,
                          cancelled |-> w.sales[i].status = "cancelled"]
    <2>1. d.orders = {row(i) : i \in DOMAIN w.sales}
      BY <1>3 DEF GenOrders
    <2>2. row(k).id = k
      OBVIOUS
    <2> HIDE DEF row
    <2> QED
      BY <2>1, <2>2
  <1>7. \A p \in d.payments : \E o \in d.orders : o.id = p.order
    BY <1>3, <1>4, <1>6 DEF GenPayments
  <1>8. \A r \in d.refunds : \E p \in d.payments : p.id = r.payment /\ p.order = r.order
    <2> TAKE r \in d.refunds
    <2>1. PICK k \in Refunded(w) : r.payment = PaymentId(w, k) /\ r.order = k
      BY <1>3 DEF GenRefunds
    <2> DEFINE row(i) == [id |-> PaymentId(w, i), order |-> i, customer |-> w.sales[i].customer,
                          at |-> w.sales[i].at + w.sales[i].delay,
                          amount |-> w.sales[i].gross, status |-> w.sales[i].status, key |-> i]
    <2>2. d.payments = {row(i) : i \in Paid(w)}
      BY <1>3 DEF GenPayments
    <2>3. row(k).id = PaymentId(w, k) /\ row(k).order = k
      OBVIOUS
    <2> HIDE DEF row
    <2> QED
      BY <1>4, <2>1, <2>2, <2>3
  <1>9. \A s \in d.shipments : \E o \in d.orders : o.id = s.order
    BY <1>3, <1>4, <1>6 DEF GenShipments
  <1> QED
    BY <1>5, <1>7, <1>8, <1>9 DEF RefsAgree, d

\* Dropped orders take with them all that refers to them (PartialLoadInjector.apply).
LEMMA LoadPartiallyKeepsRefs ==
  ASSUME NEW d, DOMAIN d = Tables, RefsAgree(d), NEW target, NEW e \in LoadPartially(d, target)
  PROVE  ReferencesHold(e)
  <1>1. PICK drop : /\ e.orders = {o \in d.orders : o.id \notin drop}
                    /\ e.payments = {p \in d.payments : p.order \notin drop}
                    /\ e.refunds = {r \in d.refunds : r.order \notin drop}
                    /\ e.shipments = {s \in d.shipments : s.order \notin drop}
                    /\ e.customers = d.customers
    <2> DEFINE without(drop) == [d EXCEPT
                 !.refunds = {r \in @ : r.order \notin drop},
                 !.payments = {p \in @ : p.order \notin drop},
                 !.shipments = {s \in @ : s.order \notin drop},
                 !.orders = {o \in @ : o.id \notin drop}]
    <2>1. PICK drop : e = WithLog(without(drop),
                            Log(<<"partial">>, "orders_ingest", At(target, 4), "WARN"))
      BY DEF LoadPartially
    <2>2. DOMAIN without(drop) = DOMAIN d
      OBVIOUS
    <2>3. /\ e.orders = without(drop).orders /\ e.payments = without(drop).payments
          /\ e.refunds = without(drop).refunds /\ e.shipments = without(drop).shipments
          /\ e.customers = without(drop).customers
      <3> HIDE DEF without
      <3> QED
        BY <2>1, <2>2 DEF WithLog, Tables
    <2>4. /\ without(drop).orders = {o \in d.orders : o.id \notin drop}
          /\ without(drop).payments = {p \in d.payments : p.order \notin drop}
          /\ without(drop).refunds = {r \in d.refunds : r.order \notin drop}
          /\ without(drop).shipments = {s \in d.shipments : s.order \notin drop}
          /\ without(drop).customers = d.customers
      BY DEF Tables
    <2> QED
      BY <2>3, <2>4
  <1> QED
    BY <1>1 DEF RefsAgree, ReferencesHold

\* Lost payments take their refunds with them (UpstreamApiFailureInjector.apply).
LEMMA FailUpstreamKeepsRefs ==
  ASSUME NEW d, DOMAIN d = Tables, RefsAgree(d), NEW target, NEW e \in FailUpstream(d, target)
  PROVE  ReferencesHold(e)
  <1>1. PICK lost : /\ e.payments = {p \in d.payments : p.id \notin lost}
                    /\ e.refunds = {r \in d.refunds : r.payment \notin lost}
                    /\ e.orders = d.orders /\ e.shipments = d.shipments
                    /\ e.customers = d.customers
    BY DEF FailUpstream, WithoutRefunds, Tables
  <1> QED
    BY <1>1 DEF RefsAgree, ReferencesHold

\* A payment that is there twice, orders that moved and customers without a mapping are
\* what they were to those who refer to them.
LEMMA RowEffectsKeepRefs ==
  ASSUME NEW d, DOMAIN d = Tables, RefsAgree(d), NEW target,
         NEW e \in Duplicate(d, target) \cup ShiftTimezone(d, target) \cup MissingMapping(d, target)
  PROVE  ReferencesHold(e)
  <1>1. CASE e \in Duplicate(d, target)
    <2>1. \E p \in d.payments : \E q :
            /\ e.payments = d.payments \cup {q} /\ q.order = p.order
            /\ e.orders = d.orders /\ e.shipments = d.shipments
            /\ e.refunds = d.refunds /\ e.customers = d.customers
      <3>1. PICK p \in d.payments :
              e = WithLog([d EXCEPT !.payments =
                     @ \cup {[p EXCEPT !.id = <<p.id[1], 1>>, !.at = @ + 2,
                                       !.status = "successful"]}],
                   Log(<<"dup", target>>, "payment_reconciliation_pipeline", p.at + 2, "WARN"))
        BY <1>1 DEF Duplicate
      <3> DEFINE q == [p EXCEPT !.id = <<p.id[1], 1>>, !.at = @ + 2, !.status = "successful"]
      <3>2. q.order = p.order
        OBVIOUS
      <3>3. /\ e.payments = d.payments \cup {q}
            /\ e.orders = d.orders /\ e.shipments = d.shipments
            /\ e.refunds = d.refunds /\ e.customers = d.customers
        BY <3>1 DEF WithLog, Tables
      <3> QED
        BY <3>2, <3>3
    <2> QED
      BY <2>1 DEF RefsAgree, ReferencesHold
  <1>2. CASE e \in ShiftTimezone(d, target)
    <2> DEFINE moved(o) == [o EXCEPT !.at = @ + 6 * Hour]
    <2>1. /\ e.orders = (d.orders \ Late(d, target)) \cup {moved(o) : o \in Late(d, target)}
          /\ e.payments = d.payments /\ e.shipments = d.shipments
          /\ e.refunds = d.refunds /\ e.customers = d.customers
      BY <1>2 DEF ShiftTimezone, Tables
    <2>2. \A o : moved(o).id = o.id /\ moved(o).customer = o.customer
      OBVIOUS
    <2> HIDE DEF moved
    <2>3. /\ \A o \in e.orders : \E x \in d.orders : x.customer = o.customer
          /\ \A o \in d.orders : \E x \in e.orders : x.id = o.id
      BY <2>1, <2>2 DEF Late
    <2> QED
      BY <2>1, <2>3 DEF RefsAgree, ReferencesHold
  <1>3. CASE e \in MissingMapping(d, target)
    <2>1. /\ DOMAIN e.customers = DOMAIN d.customers
          /\ e.payments = d.payments /\ e.shipments = d.shipments
          /\ e.refunds = d.refunds /\ e.orders = d.orders
      <3> DEFINE nulled == [c \in DOMAIN d.customers |->
                              IF c \in target THEN "null" ELSE d.customers[c]]
      <3>1. PICK day : e = WithLog([d EXCEPT !.customers = nulled],
                             Log(<<"mapping">>, "customer_mapping_pipeline", At(day, 2), "ERROR"))
        BY <1>3 DEF MissingMapping
      <3>2. DOMAIN nulled = DOMAIN d.customers
        OBVIOUS
      <3> HIDE DEF nulled
      <3> QED
        BY <3>1, <3>2 DEF WithLog, Tables
    <2> QED
      BY <2>1 DEF RefsAgree, ReferencesHold
  <1> QED
    BY <1>1, <1>2, <1>3

\* No injection leaves a reference to what is gone (incidents/injectors.py).
LEMMA EffectsKeepRefs ==
  ASSUME NEW d, DOMAIN d = Tables, RefsAgree(d), NEW type \in Types, NEW target,
         NEW e \in Effects(type, target, d)
  PROVE  ReferencesHold(e)
  <1>1. CASE type \in {"duplicate_transaction", "timezone_conversion_error",
                       "missing_customer_mapping"}
    BY <1>1, RowEffectsKeepRefs DEF Effects
  <1>2. CASE type = "partial_load"
    BY <1>2, LoadPartiallyKeepsRefs DEF Effects
  <1>3. CASE type = "upstream_api_failure"
    BY <1>3, FailUpstreamKeepsRefs DEF Effects
  <1>4. CASE type \in {"stale_fx_rate", "schema_change", "delayed_pipeline",
                       "null_contamination", "incorrect_aggregation"}
    <2>1. ChangesOnly(e, d, {"fx_rates", "schema_events", "pipeline_runs", "staging_records",
                             "daily_revenue_report", "system_logs"})
      <3>1. ChangesOnly(e, d, ChangedTables[type] \cup {"system_logs"})
        BY EffectsStayInManifest
      <3> QED
        BY <3>1, <1>4 DEF ChangesOnly, ChangedTables
    <2>2. /\ e.orders = d.orders /\ e.payments = d.payments /\ e.shipments = d.shipments
          /\ e.refunds = d.refunds /\ e.customers = d.customers
      BY <2>1 DEF ChangesOnly, Tables
    <2> QED
      BY <2>2 DEF RefsAgree, ReferencesHold
  <1>5. \/ type \in {"duplicate_transaction", "timezone_conversion_error",
                     "missing_customer_mapping"}
        \/ type = "partial_load" \/ type = "upstream_api_failure"
        \/ type \in {"stale_fx_rate", "schema_change", "delayed_pipeline",
                     "null_contamination", "incorrect_aggregation"}
    BY DEF Types, IncidentTypes
  <1> QED
    BY <1>1, <1>2, <1>3, <1>4, <1>5

\* The random numbers do not change.
LEMMA DrawsStay == Spec => [](draws \in Seeds)
  <1>1. Init => draws \in Seeds
    BY DEF Init
  <1>2. draws \in Seeds /\ [Next]_vars => (draws \in Seeds)'
    BY DEF Next, vars, Seed, Reset, PlanIncidents, Inject, Detect
  <1> QED
    BY <1>1, <1>2, PTL DEF Spec

RefInv == ReferencesHold(db)

\* No injection and no restore leaves a payment, a refund or a shipment of what is gone
\* (incidents/injectors.py, simulator/generator.py).
THEOREM KeepsReferences == Spec => []InjectionKeepsReferences
  <1>1. Init => RefInv
    BY DEF Init, RefInv, Empty, ReferencesHold
  <1>2. ManifestInv /\ draws \in Seeds /\ RefInv /\ [Next]_vars => RefInv'
    <2> SUFFICES ASSUME ManifestInv, draws \in Seeds, RefInv, [Next]_vars
                 PROVE  ReferencesHold(db')
      BY DEF RefInv
    <2>1. CASE db' = db
      BY <2>1 DEF RefInv
    <2>2. ASSUME NEW c \in Configs, db' = Clean(c) PROVE ReferencesHold(db')
      BY <2>2, CleanRefsAgree, AgreeingRefsHold
    <2>3. ASSUME NEW c \in Configs, Inject(c), db' # db PROVE ReferencesHold(db')
      <3>1. db' \in Effects(manifest.type, manifest.target, Clean(c)) /\ manifest # None
        BY <2>3 DEF Inject
      <3>2. manifest.type \in Types
        BY <3>1 DEF ManifestInv
      <3> QED
        BY <3>1, <3>2, CleanTables, CleanRefsAgree, EffectsKeepRefs
    <2>4. CASE db' = Empty
      BY <2>4 DEF Empty, ReferencesHold
    <2>5. ASSUME NEW c \in Configs, Seed(c) \/ PlanIncidents(c)
          PROVE  db' = db \/ db' = Clean(c)
      BY <2>5 DEF Seed, PlanIncidents
    <2> QED
      BY <2>1, <2>2, <2>3, <2>4, <2>5 DEF Next, vars, Reset, Detect
  <1>3. RefInv => InjectionKeepsReferences
    BY DEF RefInv, InjectionKeepsReferences
  <1> QED
    BY <1>1, <1>2, <1>3, ManifestTyped, DrawsStay, PTL DEF Spec

-------------------------------------------------------------------------------
(* The clean baseline.                                                     *)

\* What can be drawn for one configuration.
Drawn(w) ==
  /\ w.days \in Nat \ {0}
  /\ w.sales \in Seq(Sales) /\ w.sales # <<>>
  /\ \A k \in DOMAIN w.sales :
       /\ Date(w.sales[k].at) < w.days
       /\ w.sales[k].refundDays > 0 => w.sales[k].refund \in 1 .. w.sales[k].gross
  /\ w.fx \in [FxDates(w) \X Currencies -> Nat \ {0}]

\* The assumption on the seeds, for one configuration.
LEMMA SeedsAreDrawn ==
  ASSUME NEW seed \in Seeds, NEW c \in Configs
  PROVE  Drawn(seed[c])
  BY DrawsAreGenerated DEF Drawn

\* What a draw says of one sale.
LEMMA DrawnSale ==
  ASSUME NEW w, Drawn(w), NEW k \in DOMAIN w.sales
  PROVE  /\ k \in Nat
         /\ w.sales[k].customer \in Customers
         /\ w.sales[k].at \in Nat
         /\ w.sales[k].gross \in Nat
         /\ w.sales[k].refundDays \in 0 .. 10
         /\ w.sales[k].delay \in 0 .. 6 * Hour
         /\ w.sales[k].refund \in Nat
         /\ w.sales[k].status \in {"cancelled", "successful", "failed", "pending"}
  <1>1. k \in Nat /\ w.sales[k] \in Sales
    BY DEF Drawn
  <1>2. \A x \in Sales : /\ x.customer \in Customers /\ x.at \in Nat /\ x.gross \in Nat
                         /\ x.refundDays \in 0 .. 10
                         /\ x.delay \in 0 .. 6 * Hour /\ x.refund \in Nat
                         /\ x.status \in {"cancelled", "successful", "failed", "pending"}
    BY DEF Sales
  <1> QED
    BY <1>1, <1>2

\* A data set has finitely many sales.
LEMMA SalesAreFinite ==
  ASSUME NEW w, Drawn(w)
  PROVE  /\ IsFiniteSet(DOMAIN w.sales)
         /\ \A S \in SUBSET DOMAIN w.sales : IsFiniteSet(S) /\ Cardinality(S) \in Nat
  <1>1. DOMAIN w.sales = 1 .. Len(w.sales) /\ Len(w.sales) \in Nat
    BY DEF Drawn
  <1>2. \A n \in Nat : IsFiniteSet(1 .. n)
    BY FS_Interval
  <1>3. IsFiniteSet(DOMAIN w.sales)
    BY <1>1, <1>2
  <1> QED
    BY <1>3, FS_Subset, FS_CardinalityType

\* Two payments have two numbers (_gen_payments counts them).
LEMMA PaymentIdsDiffer ==
  ASSUME NEW w, Drawn(w), NEW i \in Paid(w), NEW k \in Paid(w), PaymentId(w, i) = PaymentId(w, k)
  PROVE  i = k
  <1> DEFINE upTo(n) == {j \in Paid(w) : j <= n}
  <1>1. Paid(w) \subseteq DOMAIN w.sales /\ Paid(w) \subseteq Nat
    BY DrawnSale DEF Paid
  <1>2. Cardinality(upTo(i)) = Cardinality(upTo(k))
    BY DEF PaymentId
  <1>3. ASSUME NEW a \in Paid(w), NEW b \in Paid(w), a < b
        PROVE  Cardinality(upTo(a)) # Cardinality(upTo(b))
    <2>1. upTo(a) \subseteq upTo(b) /\ b \in upTo(b) /\ b \notin upTo(a)
      BY <1>1, <1>3
    <2>2. IsFiniteSet(upTo(b))
      BY <1>1, SalesAreFinite
    <2> HIDE DEF upTo
    <2> QED
      BY <2>1, <2>2, FS_Subset
  <1> HIDE DEF upTo
  <1> QED
    BY <1>1, <1>2, <1>3

\* A sale is paid for at most once, under a key of its own.
LEMMA CleanKeysDiffer ==
  ASSUME NEW w, Drawn(w)
  PROVE  DuplicateKeys(GenPayments(w)) = {}
  <1> DEFINE row(i) == [id |-> PaymentId(w, i), order |-> i, customer |-> w.sales[i].customer,
                        at |-> w.sales[i].at + w.sales[i].delay,
                        amount |-> w.sales[i].gross, status |-> w.sales[i].status, key |-> i]
  <1>1. GenPayments(w) = {row(i) : i \in Paid(w)}
    BY DEF GenPayments
  <1>2. \A i : row(i).key = i
    OBVIOUS
  <1> HIDE DEF row
  <1>3. \A k \in {p.key : p \in GenPayments(w)} : {p \in GenPayments(w) : p.key = k} = {row(k)}
    BY <1>1, <1>2
  <1>4. \A k \in {p.key : p \in GenPayments(w)} :
          Cardinality({p \in GenPayments(w) : p.key = k}) = 1
    BY <1>3, FS_Singleton
  <1> QED
    BY <1>4 DEF DuplicateKeys

\* No refund is of more than was paid.
LEMMA CleanRefundsFit ==
  ASSUME NEW w, Drawn(w)
  PROVE  \A r \in GenRefunds(w) : \A p \in GenPayments(w) : r.payment = p.id => r.amount <= p.amount
  <1> SUFFICES ASSUME NEW r \in GenRefunds(w), NEW p \in GenPayments(w), r.payment = p.id
               PROVE  r.amount <= p.amount
    OBVIOUS
  <1>1. PICK k \in Refunded(w) : r.payment = PaymentId(w, k) /\ r.amount = w.sales[k].refund
    BY DEF GenRefunds
  <1>2. PICK i \in Paid(w) : p.id = PaymentId(w, i) /\ p.amount = w.sales[i].gross
    BY DEF GenPayments
  <1>3. k \in Paid(w) /\ k \in DOMAIN w.sales /\ w.sales[k].refundDays > 0
    BY DEF Refunded, Paid
  <1>4. k = i
    BY <1>1, <1>2, <1>3, PaymentIdsDiffer
  <1>5. w.sales[k].refund \in 1 .. w.sales[k].gross /\ w.sales[k].gross \in Nat
    BY <1>3, DrawnSale DEF Drawn
  <1> QED
    BY <1>1, <1>2, <1>4, <1>5

\* Every sale has a rate for its day (_gen_fx_rates).
LEMMA CleanRatesSuffice ==
  ASSUME NEW w, Drawn(w), NEW o \in GenOrders(w)
  PROVE  <<Date(o.at), CurrencyOf[o.customer]>> \in DOMAIN w.fx
  <1>1. PICK k \in DOMAIN w.sales : o.at = w.sales[k].at /\ o.customer = w.sales[k].customer
    BY DEF GenOrders
  <1>2. o.at \in Nat /\ o.customer \in Customers /\ Date(o.at) < w.days /\ w.days \in Nat
    BY <1>1, DrawnSale DEF Drawn
  <1>3. Date(o.at) \in Nat
    BY <1>2 DEF Date, Day, Hour
  <1>4. Date(o.at) \in FxDates(w)
    BY <1>2, <1>3, FxBufferSuffices DEF FxDates
  <1>5. CurrencyOf[o.customer] \in Currencies
    BY <1>2 DEF Currencies
  <1> QED
    BY <1>4, <1>5 DEF Drawn

\* What the controls find nothing wrong with.
Sound(d) ==
  /\ DuplicateKeys(d.payments) = {}
  /\ \A c \in DOMAIN d.customers : d.customers[c] = "mapped"
  /\ d.schema_events = {} /\ d.staging_records = {} /\ d.system_logs = {}
  /\ \A k \in DOMAIN d.daily_revenue_report :
       LET rep == d.daily_revenue_report[k] IN rep.net = rep.gross - rep.refunds
  /\ \A k \in DOMAIN d.daily_revenue_report \cap DOMAIN RecomputeFromSource(d) :
       LET rep == d.daily_revenue_report[k]
           source == RecomputeFromSource(d)[k]
       IN  /\ rep.orders \in Nat
           /\ ~Disagrees(rep, source)

Harmless == {"PARTIAL_LOAD", "DELAYED_PIPELINE", "STALE_FX_RATE"}

\* On such data three controls at most speak (detection/detectors.py).
LEMMA SoundRaisesLittle ==
  ASSUME NEW d, Sound(d)
  PROVE  CausesOf(RunAllDetectors(d)) \subseteq Harmless
  <1>1. DuplicatePayment(d) = {} /\ MissingCustomerMapping(d) = {} /\ SchemaChange(d) = {}
    BY DEF Sound, DuplicatePayment, MissingCustomerMapping, SchemaChange
  <1>2. NullContamination(d) = {} /\ ApiErrorBurst(d) = {}
    BY DEF Sound, NullContamination, ApiErrorBurst
  <1>3. IncorrectAggregation(d) = {}
    BY DEF Sound, IncorrectAggregation
  <1>4. RevenueReconciliation(d) = {}
    BY DEF Sound, RevenueReconciliation
  <1>5. TimezoneShift(d) = {}
    <2> DEFINE recomputed == RecomputeFromSource(d)
               reports == d.daily_revenue_report
               diff(k) == reports[k].orders - recomputed[k].orders
    <2>1. \A k \in DOMAIN recomputed \cap DOMAIN reports : diff(k) = 0
      <3> SUFFICES ASSUME NEW k \in DOMAIN recomputed \cap DOMAIN reports PROVE diff(k) = 0
        OBVIOUS
      <3>1. reports[k].orders \in Nat /\ reports[k].orders = recomputed[k].orders
        BY DEF Sound, Disagrees
      <3> QED
        BY <3>1
    <2>2. \A k \in DOMAIN recomputed \cap DOMAIN reports : ~(diff(k) > 0)
      BY <2>1
    <2> QED
      BY <2>2 DEF TimezoneShift
  <1>6. /\ \A a \in StaleFxRate(d) : a.cause = "STALE_FX_RATE"
        /\ \A a \in DelayedPipeline(d) : a.cause = "DELAYED_PIPELINE"
        /\ \A a \in PartialLoad(d) : a.cause = "PARTIAL_LOAD"
    <2>1. \A a \in StaleFxRate(d) : a.cause = "STALE_FX_RATE"
      <3> DEFINE S == {j \in DOMAIN d.fx_rates :
                         /\ j[2] # Reporting
                         /\ <<j[1] - 1, j[2]>> \in DOMAIN d.fx_rates
                         /\ d.fx_rates[j] = d.fx_rates[<<j[1] - 1, j[2]>>]}
      <3>1. StaleFxRate(d) = {Alert(<<"fx_rate", k>>, "STALE_FX_RATE", "high") : k \in S}
        BY DEF StaleFxRate
      <3> HIDE DEF S
      <3> QED
        BY <3>1 DEF Alert
    <2>2. \A a \in DelayedPipeline(d) : a.cause = "DELAYED_PIPELINE"
      <3>1. \E late, unreported : DelayedPipeline(d) =
              {Alert(<<"pipeline_run", r.id>>, "DELAYED_PIPELINE", "medium") : r \in late}
                \cup {Alert(<<"daily_revenue_report", n>>, "DELAYED_PIPELINE", "medium") :
                        n \in unreported}
        BY Zenon DEF DelayedPipeline
      <3> QED
        BY <3>1 DEF Alert
    <2>3. \A a \in PartialLoad(d) : a.cause = "PARTIAL_LOAD"
      <3>1. \E thin : PartialLoad(d) =
              {Alert(<<"orders", n>>, "PARTIAL_LOAD", "high") : n \in thin}
        BY Zenon DEF PartialLoad
      <3> QED
        BY <3>1 DEF Alert
    <2> QED
      BY <2>1, <2>2, <2>3
  <1> QED
    BY <1>1, <1>2, <1>3, <1>4, <1>5, <1>6 DEF RunAllDetectors, CausesOf, Harmless

\* Tables that have never been filled are such data.
LEMMA EmptyIsSound == Sound(Empty)
  <1>1. DOMAIN Empty.daily_revenue_report = {} /\ DOMAIN Empty.customers = {}
    BY DEF Empty
  <1>2. DuplicateKeys(Empty.payments) = {}
    BY DEF Empty, DuplicateKeys
  <1>3. Empty.schema_events = {} /\ Empty.staging_records = {} /\ Empty.system_logs = {}
    BY DEF Empty
  <1> QED
    BY <1>1, <1>2, <1>3 DEF Sound

\* The orders are finite in number, and so are those of one day and region.
LEMMA OrdersAreFinite ==
  ASSUME NEW w, Drawn(w), NEW S \in SUBSET GenOrders(w)
  PROVE  Cardinality(S) \in Nat
  <1> DEFINE row(k) == [id |-> k, customer |-> w.sales[k].customer, at |-> w.sales[k].at,
                        gross |-> w.sales[k].gross,
                        cancelled |-> w.sales[k].status = "cancelled"]
             f == [k \in DOMAIN w.sales |-> row(k)]
  <1>1. GenOrders(w) = {row(k) : k \in DOMAIN w.sales}
    BY DEF GenOrders
  <1>2. f \in Surjection(DOMAIN w.sales, GenOrders(w))
    <2> HIDE DEF row
    <2> QED
      BY <1>1 DEF Surjection
  <1>3. IsFiniteSet(GenOrders(w))
    BY <1>2, SalesAreFinite, FS_Surjection
  <1> QED
    BY <1>3, FS_Subset, FS_CardinalityType

\* The three computations of the report agree on what the generator has made.
LEMMA CleanReportAgrees ==
  ASSUME NEW w, Drawn(w), NEW k \in DOMAIN Generate(w).daily_revenue_report
  PROVE  LET d == Generate(w)
             rep == d.daily_revenue_report[k]
             sold == {o \in d.orders : <<Date(o.at), RegionOf[o.customer]>> = k /\ ~o.cancelled}
             paid == {p \in d.payments :
                        <<Date(p.at), RegionOf[p.customer]>> = k /\ p.status = "successful"}
             returned == {r \in d.refunds : <<Date(r.at), RegionOf[r.customer]>> = k}
         IN  /\ rep.gross = SalesInUsd(sold, d.fx_rates)
             /\ rep.refunds = RefundsInUsd(returned, d.fx_rates)
             /\ rep.net = rep.gross - rep.refunds
             /\ rep.orders = Cardinality(sold) /\ rep.orders \in Nat
             /\ rep.payments = Cardinality(paid)
             /\ k = <<k[1], k[2]>>
  <1> DEFINE O == GenOrders(w)
             P == GenPayments(w)
             R == GenRefunds(w)
             key(row) == <<Date(row.at), RegionOf[row.customer]>>
             reports == GenReports(O, P, R, w.fx)
             sold == {o \in O : key(o) = k /\ ~o.cancelled}
             paid == {p \in P : key(p) = k /\ p.status = "successful"}
             returned == {r \in R : key(r) = k}
  <1>1. /\ Generate(w).orders = O /\ Generate(w).payments = P /\ Generate(w).refunds = R
        /\ Generate(w).fx_rates = w.fx /\ Generate(w).daily_revenue_report = reports
    BY DEF Generate
  <1>2. /\ {o \in Sold(O) : key(o) = k} = sold
        /\ {p \in {q \in P : q.status = "successful"} : key(p) = k} = paid
    BY DEF Sold
  <1>3. k \in DOMAIN reports
    BY <1>1
  <1> HIDE DEF O, P, R
  <1>4. /\ reports[k].gross = SalesInUsd({o \in Sold(O) : key(o) = k}, w.fx)
        /\ reports[k].refunds = RefundsInUsd(returned, w.fx)
        /\ reports[k].net = reports[k].gross - reports[k].refunds
        /\ reports[k].orders = Cardinality({o \in Sold(O) : key(o) = k})
        /\ reports[k].payments =
             Cardinality({p \in {q \in P : q.status = "successful"} : key(p) = k})
    BY <1>3 DEF GenReports
  <1>5. \E day, region : k = <<day, region>>
    BY <1>3 DEF GenReports
  <1>6. Cardinality(sold) \in Nat
    BY OrdersAreFinite DEF O
  <1>7. k = <<k[1], k[2]>>
    BY <1>5
  <1> HIDE DEF reports
  <1> DEFINE d == Generate(w)
  <1>8. /\ {o \in d.orders : <<Date(o.at), RegionOf[o.customer]>> = k /\ ~o.cancelled} = sold
        /\ {p \in d.payments : <<Date(p.at), RegionOf[p.customer]>> = k
                                /\ p.status = "successful"} = paid
        /\ {r \in d.refunds : <<Date(r.at), RegionOf[r.customer]>> = k} = returned
    BY <1>1
  <1>9. /\ reports[k].gross = SalesInUsd(sold, w.fx)
        /\ reports[k].refunds = RefundsInUsd(returned, w.fx)
        /\ reports[k].net = reports[k].gross - reports[k].refunds
        /\ reports[k].orders = Cardinality(sold) /\ reports[k].orders \in Nat
        /\ reports[k].payments = Cardinality(paid)
    BY <1>2, <1>4, <1>6
  <1> HIDE DEF sold, paid, returned, d
  <1> QED
    BY <1>1, <1>7, <1>8, <1>9 DEF d

\* The three computations of the report differ in how they group the rows alone.
LEMMA CleanIsSound ==
  ASSUME NEW w, Drawn(w)
  PROVE  Sound(Generate(w)) /\ ReportReconciles(Generate(w))
  <1> DEFINE d == Generate(w)
             reports == d.daily_revenue_report
             sold(k) == {o \in d.orders : <<Date(o.at), RegionOf[o.customer]>> = k /\ ~o.cancelled}
             paid(k) == {p \in d.payments :
                           <<Date(p.at), RegionOf[p.customer]>> = k /\ p.status = "successful"}
             returned(k) == {r \in d.refunds : <<Date(r.at), RegionOf[r.customer]>> = k}
  <1>1. \A k \in DOMAIN reports :
          /\ reports[k].gross = SalesInUsd(sold(k), d.fx_rates)
          /\ reports[k].refunds = RefundsInUsd(returned(k), d.fx_rates)
          /\ reports[k].net = reports[k].gross - reports[k].refunds
          /\ reports[k].orders = Cardinality(sold(k)) /\ reports[k].orders \in Nat
          /\ reports[k].payments = Cardinality(paid(k))
          /\ k = <<k[1], k[2]>>
    BY CleanReportAgrees
  <1>2. DuplicateKeys(d.payments) = {}
    BY CleanKeysDiffer DEF Generate
  <1>3. /\ \A c \in DOMAIN d.customers : d.customers[c] = "mapped"
        /\ d.schema_events = {} /\ d.staging_records = {} /\ d.system_logs = {}
    BY DEF Generate
  <1> HIDE DEF d
  <1>4. \A k \in DOMAIN RecomputeFromSource(d) :
          LET source == RecomputeFromSource(d)[k]
          IN  /\ source.gross = SalesInUsd(sold(k), d.fx_rates)
              /\ source.refunds = RefundsInUsd(returned(k), d.fx_rates)
              /\ source.orders = Cardinality(sold(k))
              /\ source.payments = Cardinality(paid(k))
    BY DEF RecomputeFromSource
  <1>5. \A k \in DOMAIN reports :
          LET rows(table) == {row \in table : Date(row.at) = k[1] /\ RegionOf[row.customer] = k[2]}
          IN  /\ {o \in rows(d.orders) : ~o.cancelled} = sold(k)
              /\ {p \in rows(d.payments) : p.status = "successful"} = paid(k)
              /\ rows(d.refunds) = returned(k)
    <2> TAKE k \in DOMAIN reports
    <2>1. PICK a, b : k = <<a, b>>
      <3> HIDE DEF sold, paid, returned, reports
      <3>1. k = <<k[1], k[2]>>
        BY <1>1
      <3> QED
        BY Zenon, <3>1
    <2>2. k[1] = a /\ k[2] = b
      BY <2>1
    <2>3. \A day, region : <<day, region>> = <<a, b>> <=> day = a /\ region = b
      OBVIOUS
    <2> QED
      BY <2>1, <2>2, <2>3
  <1>6. ReportReconciles(d)
    <2> HIDE DEF sold, paid, returned
    <2> QED
      BY <1>1, <1>5 DEF ReportReconciles
  <1>7. \A k \in DOMAIN reports \cap DOMAIN RecomputeFromSource(d) :
          ~Disagrees(reports[k], RecomputeFromSource(d)[k])
    <2> HIDE DEF sold, paid, returned
    <2> QED
      BY <1>1, <1>4 DEF Disagrees
  <1>8. Sound(d)
    <2> HIDE DEF sold, paid, returned
    <2> QED
      BY <1>1, <1>2, <1>3, <1>7 DEF Sound
  <1> QED
    BY <1>6, <1>8 DEF d

\* The generator's baseline passes its validation (validator.py), if there is an order.
LEMMA CleanIsValid ==
  ASSUME draws \in Seeds, NEW c \in Configs, Clean(c).orders # {}
  PROVE  ValidCleanBaseline(Clean(c))
  <1> DEFINE w == draws[c]
             d == Generate(w)
  <1>1. Drawn(w)
    BY SeedsAreDrawn
  <1>2. Clean(c) = d
    BY DEF Clean
  <1>3. /\ d.orders = GenOrders(w) /\ d.payments = GenPayments(w) /\ d.refunds = GenRefunds(w)
        /\ d.fx_rates = w.fx /\ DOMAIN d.customers = Customers
    BY DEF Generate
  <1> HIDE DEF d
  <1>4. RefsAgree(d)
    BY <1>2, CleanRefsAgree
  <1>5. ReferencesHold(d)
    BY <1>4, AgreeingRefsHold
  <1>6. DOMAIN d.customers # {} /\ d.orders # {}
    BY <1>2, <1>4 DEF RefsAgree
  <1>7. Sound(d) /\ ReportReconciles(d)
    BY <1>1, CleanIsSound DEF d
  <1>8. /\ \A c1 \in DOMAIN d.customers : d.customers[c1] = "mapped"
        /\ DuplicateKeys(d.payments) = {}
    BY <1>7 DEF Sound
  <1>9. \A r \in d.refunds : \A p \in d.payments : r.payment = p.id => r.amount <= p.amount
    BY <1>1, <1>3, CleanRefundsFit
  <1>10. \A o \in d.orders : LET cur == CurrencyOf[o.customer] IN
           cur # Reporting => <<Date(o.at), cur>> \in DOMAIN d.fx_rates
    BY <1>1, <1>3, CleanRatesSuffice
  <1> QED
    BY <1>2, <1>5, <1>6, <1>7, <1>8, <1>9, <1>10 DEF ValidCleanBaseline

\* Without an injected incident the stored data set is the generator's, and what
\* the controls have said is of such a data set.
CleanInv ==
  injected = None =>
    /\ db = Empty \/ \E c \in Configs : db = Clean(c)
    /\ CausesOf(alerts) \subseteq Harmless

\* Whatever the seed draws, the baseline passes its own validation and no control
\* blames a value in it (simulator/generator.py, simulator/validator.py,
\* detection/detectors.py).
THEOREM BaselineReconciles == Spec => []CleanBaselineReconciles
  <1>1. Init => CleanInv
    BY DEF Init, CleanInv, CausesOf
  <1>2. draws \in Seeds /\ CleanInv /\ [Next]_vars => CleanInv'
    <2> SUFFICES ASSUME draws \in Seeds, CleanInv, [Next]_vars, injected' = None
                 PROVE  /\ db' = Empty \/ \E c \in Configs : db' = Clean(c)
                        /\ CausesOf(alerts') \subseteq Harmless
                        /\ draws' = draws
      BY DEF CleanInv, Clean
    <2>1. draws' = draws
      BY DEF Next, vars, Seed, Reset, PlanIncidents, Inject, Detect
    <2>2. CASE UNCHANGED <<injected, db, alerts>>
      BY <2>1, <2>2 DEF CleanInv
    <2>3. ASSUME NEW c \in Configs, Seed(c)
          PROVE  db' = Clean(c) /\ CausesOf(alerts') = {}
      BY <2>3 DEF Seed, CausesOf
    <2>4. ASSUME NEW c \in Configs, PlanIncidents(c)
          PROVE  UNCHANGED <<injected, alerts>> /\ (db' = db \/ db' = Clean(c))
      BY <2>4 DEF PlanIncidents
    <2>5. ASSUME NEW c \in Configs, Inject(c) PROVE UNCHANGED <<injected, db, alerts>>
      BY <2>5 DEF Inject
    <2>6. CASE Reset
      BY <2>1, <2>6 DEF Reset, CausesOf
    <2>7. CASE Detect
      <3>1. UNCHANGED <<injected, db>> /\ alerts' = RunAllDetectors(db)
        BY <2>7 DEF Detect
      <3>2. db = Empty \/ \E c \in Configs : db = Clean(c)
        BY <3>1 DEF CleanInv
      <3>3. Sound(db)
        BY <3>2, EmptyIsSound, SeedsAreDrawn, CleanIsSound DEF Clean
      <3> QED
        BY <2>1, <3>1, <3>2, <3>3, SoundRaisesLittle
    <2>8. CASE UNCHANGED vars
      BY <2>2, <2>8 DEF vars
    <2>9. ASSUME NEW c \in Configs, Seed(c) \/ PlanIncidents(c)
          PROVE  /\ db' = Empty \/ \E e \in Configs : db' = Clean(e)
                 /\ CausesOf(alerts') \subseteq Harmless
      BY <2>3, <2>4, <2>9 DEF CleanInv
    <2> QED
      BY <2>1, <2>2, <2>5, <2>6, <2>7, <2>8, <2>9 DEF Next
  <1>3. draws \in Seeds /\ CleanInv => CleanBaselineReconciles
    <2> SUFFICES ASSUME draws \in Seeds, CleanInv, injected = None, db.orders # {}
                 PROVE  ValidCleanBaseline(db) /\ CausesOf(alerts) \subseteq Harmless
      BY DEF CleanBaselineReconciles, Harmless
    <2>1. db # Empty
      BY DEF Empty
    <2>2. PICK c \in Configs : db = Clean(c)
      BY <2>1 DEF CleanInv
    <2> QED
      BY <2>2, CleanIsValid DEF CleanInv
  <1> QED
    BY <1>1, <1>2, <1>3, DrawsStay, PTL DEF Spec

-------------------------------------------------------------------------------
(* The rows.                                                               *)

RunsTyped(runs) ==
  \A r \in runs :
    /\ DOMAIN r = {"id", "pipeline", "started", "completed", "status"}
    /\ r.pipeline \in Pipelines /\ r.started \in Nat /\ r.completed \in Nat
    /\ r.started <= r.completed

LogsTyped(logs) == \A l \in logs : l.at \in Nat /\ l.level \in {"ERROR", "WARN"}

ReportsTyped(reports) ==
  \A k \in DOMAIN reports : k \in Nat \X Regions /\ reports[k] \in ReportRows

\* Every table holds rows of its kind.
Typed(d) ==
  /\ DOMAIN d = Tables
  /\ d.orders \subseteq OrderRows /\ d.payments \subseteq PaymentRows
  /\ d.refunds \subseteq RefundRows
  /\ RunsTyped(d.pipeline_runs) /\ LogsTyped(d.system_logs)
  /\ ReportsTyped(d.daily_revenue_report)

\* Days and times of the generator.
LEMMA DatesAreNat ==
  ASSUME NEW t \in Nat
  PROVE  Date(t) \in Nat /\ \A h \in Nat : At(t, h) \in Nat
  BY DEF Date, At, Day, Hour

\* A value in the currency of the report.
LEMMA ConvertIsNat ==
  ASSUME NEW a \in Nat, NEW cur, NEW n, NEW fx, cur # Reporting => fx[<<n, cur>>] \in Nat
  PROVE  Convert(a, cur, n, fx) \in Nat
  <1>1. CASE cur = Reporting
    BY <1>1 DEF Convert
  <1>2. CASE cur # Reporting
    <2> DEFINE p == a * fx[<<n, cur>>]
    <2>1. p \in Nat
      BY <1>2
    <2>2. Convert(a, cur, n, fx) = (p + 50) \div 100
      BY <1>2 DEF Convert
    <2> HIDE DEF p
    <2> QED
      BY <2>1, <2>2
  <1> QED
    BY <1>1, <1>2

\* What the sum of sales is.
LEMMA SalesInUsdIs ==
  ASSUME NEW S, IsFiniteSet(S), NEW fx, NEW f \in [S -> Int],
         \A o \in S : f[o] = Convert(o.gross, CurrencyOf[o.customer], Date(o.at), fx)
  PROVE  \E g : IsSum(g, f, S) /\ SalesInUsd(S, fx) = g[S]
  <1> DEFINE usd(o) == Convert(o.gross, CurrencyOf[o.customer], Date(o.at), fx)
             iter == CHOOSE g : g = [s \in SUBSET S |-> IF s = {} THEN 0
                                      ELSE usd(Some(s)) + g[s \ {Some(s)}]]
  <1>1. SalesInUsd(S, fx) = iter[S]
    BY Zenon DEF SalesInUsd, MapThenSumSet, MapThenFoldSet, Some
  <1>2. \A o \in S : f[o] = usd(o)
    OBVIOUS
  <1> HIDE DEF usd
  <1>3. PICK g : IsFold(g, f, S)
    BY FoldExists
  <1>4. \A s \in SUBSET S : s # {} => f[Some(s)] = usd(Some(s))
    BY <1>2, SomeIs
  <1>5. \A h : [s \in SUBSET S |-> IF s = {} THEN 0 ELSE f[Some(s)] + h[s \ {Some(s)}]]
                 = [s \in SUBSET S |-> IF s = {} THEN 0 ELSE usd(Some(s)) + h[s \ {Some(s)}]]
    BY <1>4
  <1>6. iter = [s \in SUBSET S |-> IF s = {} THEN 0 ELSE usd(Some(s)) + iter[s \ {Some(s)}]]
    <2>1. g = [s \in SUBSET S |-> IF s = {} THEN 0 ELSE usd(Some(s)) + g[s \ {Some(s)}]]
      BY <1>3, <1>5 DEF IsFold
    <2> QED
      BY <2>1, Zenon
  <1> HIDE DEF iter
  <1>7. IsFold(iter, f, S)
    BY <1>5, <1>6 DEF IsFold
  <1>8. IsSum(iter, f, S)
    BY <1>7, FoldIsSum
  <1> QED
    BY <1>1, <1>8

\* What the sum of refunds is.
LEMMA RefundsInUsdIs ==
  ASSUME NEW S, IsFiniteSet(S), NEW fx, NEW f \in [S -> Int],
         \A r \in S : f[r] = Convert(r.amount, CurrencyOf[r.customer], Date(r.at), fx)
  PROVE  \E g : IsSum(g, f, S) /\ RefundsInUsd(S, fx) = g[S]
  <1> DEFINE usd(r) == Convert(r.amount, CurrencyOf[r.customer], Date(r.at), fx)
             iter == CHOOSE g : g = [s \in SUBSET S |-> IF s = {} THEN 0
                                      ELSE usd(Some(s)) + g[s \ {Some(s)}]]
  <1>1. RefundsInUsd(S, fx) = iter[S]
    BY Zenon DEF RefundsInUsd, MapThenSumSet, MapThenFoldSet, Some
  <1>2. \A r \in S : f[r] = usd(r)
    OBVIOUS
  <1> HIDE DEF usd
  <1>3. PICK g : IsFold(g, f, S)
    BY FoldExists
  <1>4. \A s \in SUBSET S : s # {} => f[Some(s)] = usd(Some(s))
    BY <1>2, SomeIs
  <1>5. \A h : [s \in SUBSET S |-> IF s = {} THEN 0 ELSE f[Some(s)] + h[s \ {Some(s)}]]
                 = [s \in SUBSET S |-> IF s = {} THEN 0 ELSE usd(Some(s)) + h[s \ {Some(s)}]]
    BY <1>4
  <1>6. iter = [s \in SUBSET S |-> IF s = {} THEN 0 ELSE usd(Some(s)) + iter[s \ {Some(s)}]]
    <2>1. g = [s \in SUBSET S |-> IF s = {} THEN 0 ELSE usd(Some(s)) + g[s \ {Some(s)}]]
      BY <1>3, <1>5 DEF IsFold
    <2> QED
      BY <2>1, Zenon
  <1> HIDE DEF iter
  <1>7. IsFold(iter, f, S)
    BY <1>5, <1>6 DEF IsFold
  <1>8. IsSum(iter, f, S)
    BY <1>7, FoldIsSum
  <1> QED
    BY <1>1, <1>8

\* Nothing adds up to nothing.
LEMMA NothingInUsd == ASSUME NEW fx PROVE SalesInUsd({}, fx) = 0 /\ RefundsInUsd({}, fx) = 0
  <1> DEFINE f == [x \in {} |-> 0]
  <1>1. IsFiniteSet({}) /\ f \in [{} -> Int]
    BY FS_EmptySet
  <1> HIDE DEF f
  <1>2. \E g : IsSum(g, f, {}) /\ SalesInUsd({}, fx) = g[{}]
    <2>1. \A o \in {} : f[o] = Convert(o.gross, CurrencyOf[o.customer], Date(o.at), fx)
      OBVIOUS
    <2> QED
      BY <1>1, <2>1, SalesInUsdIs, Zenon
  <1>3. \E g : IsSum(g, f, {}) /\ RefundsInUsd({}, fx) = g[{}]
    <2>1. \A o \in {} : f[o] = Convert(o.amount, CurrencyOf[o.customer], Date(o.at), fx)
      OBVIOUS
    <2> QED
      BY <1>1, <2>1, RefundsInUsdIs, Zenon
  <1> QED
    BY <1>2, <1>3 DEF IsSum

\* Sales of which each has a value add up to one.
LEMMA SalesInUsdIsNat ==
  ASSUME NEW S, IsFiniteSet(S), NEW fx,
         \A o \in S : Convert(o.gross, CurrencyOf[o.customer], Date(o.at), fx) \in Nat
  PROVE  SalesInUsd(S, fx) \in Nat
  <1> DEFINE f == [o \in S |-> Convert(o.gross, CurrencyOf[o.customer], Date(o.at), fx)]
  <1>1. /\ f \in [S -> Nat] /\ f \in [S -> Int]
        /\ \A o \in S : f[o] = Convert(o.gross, CurrencyOf[o.customer], Date(o.at), fx)
    OBVIOUS
  <1> HIDE DEF f
  <1>2. PICK g : IsSum(g, f, S) /\ SalesInUsd(S, fx) = g[S]
    <2>1. \E g : IsSum(g, f, S) /\ SalesInUsd(S, fx) = g[S]
      BY <1>1, SalesInUsdIs
    <2> QED
      BY <2>1
  <1>3. \A T \in SUBSET S : g[T] \in Nat
    BY <1>1, <1>2, SumIsNat
  <1> QED
    BY <1>2, <1>3

\* Refunds too.
LEMMA RefundsInUsdIsNat ==
  ASSUME NEW S, IsFiniteSet(S), NEW fx,
         \A r \in S : Convert(r.amount, CurrencyOf[r.customer], Date(r.at), fx) \in Nat
  PROVE  RefundsInUsd(S, fx) \in Nat
  <1> DEFINE f == [r \in S |-> Convert(r.amount, CurrencyOf[r.customer], Date(r.at), fx)]
  <1>1. /\ f \in [S -> Nat] /\ f \in [S -> Int]
        /\ \A r \in S : f[r] = Convert(r.amount, CurrencyOf[r.customer], Date(r.at), fx)
    OBVIOUS
  <1> HIDE DEF f
  <1>2. PICK g : IsSum(g, f, S) /\ RefundsInUsd(S, fx) = g[S]
    <2>1. \E g : IsSum(g, f, S) /\ RefundsInUsd(S, fx) = g[S]
      BY <1>1, RefundsInUsdIs
    <2> QED
      BY <2>1
  <1>3. \A T \in SUBSET S : g[T] \in Nat
    BY <1>1, <1>2, SumIsNat
  <1> QED
    BY <1>2, <1>3

\* A delay of hours, or of days, leads to another time.
LEMMA DelaysAreNat ==
  ASSUME NEW t \in Nat, NEW y \in 0 .. 6 * Hour, NEW n \in 0 .. 10
  PROVE  t + y \in Nat /\ t + y + n * Day \in Nat
  BY DEF Hour, Day

\* What the generator draws becomes rows of orders (_gen_orders).
LEMMA CleanOrders ==
  ASSUME NEW w, Drawn(w)
  PROVE  GenOrders(w) \subseteq OrderRows /\ IsFiniteSet(GenOrders(w))
  <1> DEFINE row(k) == [id |-> k, customer |-> w.sales[k].customer, at |-> w.sales[k].at,
                        gross |-> w.sales[k].gross,
                        cancelled |-> w.sales[k].status = "cancelled"]
             f == [k \in DOMAIN w.sales |-> row(k)]
  <1>1. GenOrders(w) = {row(k) : k \in DOMAIN w.sales}
    BY DEF GenOrders
  <1>2. \A k \in DOMAIN w.sales : row(k) \in OrderRows
    <2> TAKE k \in DOMAIN w.sales
    <2>1. /\ k \in Nat /\ w.sales[k].customer \in Customers /\ w.sales[k].at \in Nat
          /\ w.sales[k].gross \in Nat
      BY DrawnSale
    <2> QED
      BY <2>1 DEF OrderRows, Minutes
  <1> HIDE DEF row
  <1>3. f \in Surjection(DOMAIN w.sales, GenOrders(w))
    BY <1>1 DEF Surjection
  <1>4. IsFiniteSet(GenOrders(w))
    BY <1>3, SalesAreFinite, FS_Surjection
  <1> QED
    BY <1>1, <1>2, <1>4

\* A payment has a number (_gen_payments).
LEMMA PaymentIdIsNumber ==
  ASSUME NEW w, Drawn(w), NEW k \in Paid(w)
  PROVE  PaymentId(w, k) \in Nat \X {0, 1}
  <1> DEFINE S == {i \in Paid(w) : i <= k}
  <1>1. S \subseteq DOMAIN w.sales
    BY DEF Paid
  <1>2. Cardinality(S) \in Nat
    BY <1>1, SalesAreFinite
  <1> QED
    BY <1>2 DEF PaymentId

\* And rows of payments.
LEMMA CleanPayments ==
  ASSUME NEW w, Drawn(w)
  PROVE  GenPayments(w) \subseteq PaymentRows /\ IsFiniteSet(GenPayments(w))
  <1> DEFINE row(k) == [id |-> PaymentId(w, k), order |-> k, customer |-> w.sales[k].customer,
                        at |-> w.sales[k].at + w.sales[k].delay,
                        amount |-> w.sales[k].gross, status |-> w.sales[k].status, key |-> k]
             f == [k \in Paid(w) |-> row(k)]
  <1>1. GenPayments(w) = {row(k) : k \in Paid(w)}
    BY DEF GenPayments
  <1>2. \A k \in Paid(w) : row(k) \in PaymentRows
    <2> TAKE k \in Paid(w)
    <2>1. k \in DOMAIN w.sales /\ w.sales[k].status # "cancelled"
      BY DEF Paid
    <2>2. /\ k \in Nat /\ w.sales[k].customer \in Customers /\ w.sales[k].at \in Nat
          /\ w.sales[k].gross \in Nat /\ w.sales[k].delay \in 0 .. 6 * Hour
          /\ w.sales[k].status \in {"cancelled", "successful", "failed", "pending"}
      BY <2>1, DrawnSale
    <2>3. w.sales[k].at + w.sales[k].delay \in Nat
      BY <2>2, DelaysAreNat
    <2>4. PaymentId(w, k) \in Nat \X {0, 1}
      BY PaymentIdIsNumber
    <2> QED
      BY <2>1, <2>2, <2>3, <2>4 DEF PaymentRows, Minutes
  <1> HIDE DEF row
  <1>3. f \in Surjection(Paid(w), GenPayments(w))
    BY <1>1 DEF Surjection
  <1>4. IsFiniteSet(Paid(w))
    BY SalesAreFinite DEF Paid
  <1>5. IsFiniteSet(GenPayments(w))
    BY <1>3, <1>4, FS_Surjection
  <1> QED
    BY <1>1, <1>2, <1>5

\* And rows of refunds.
LEMMA CleanRefunds ==
  ASSUME NEW w, Drawn(w)
  PROVE  GenRefunds(w) \subseteq RefundRows /\ IsFiniteSet(GenRefunds(w))
  <1> DEFINE row(k) == [payment |-> PaymentId(w, k), order |-> k,
                        customer |-> w.sales[k].customer,
                        at |-> w.sales[k].at + w.sales[k].delay + w.sales[k].refundDays * Day,
                        amount |-> w.sales[k].refund]
             f == [k \in Refunded(w) |-> row(k)]
  <1>1. GenRefunds(w) = {row(k) : k \in Refunded(w)}
    BY DEF GenRefunds
  <1>2. \A k \in Refunded(w) : row(k) \in RefundRows
    <2> TAKE k \in Refunded(w)
    <2>1. k \in DOMAIN w.sales /\ k \in Paid(w)
      BY DEF Refunded, Paid
    <2>2. /\ k \in Nat /\ w.sales[k].customer \in Customers /\ w.sales[k].at \in Nat
          /\ w.sales[k].delay \in 0 .. 6 * Hour /\ w.sales[k].refundDays \in 0 .. 10
          /\ w.sales[k].refund \in Nat
      BY <2>1, DrawnSale
    <2>3. w.sales[k].at + w.sales[k].delay + w.sales[k].refundDays * Day \in Nat
      BY <2>2, DelaysAreNat
    <2>4. PaymentId(w, k) \in Nat \X {0, 1}
      BY <2>1, PaymentIdIsNumber
    <2> QED
      BY <2>2, <2>3, <2>4 DEF RefundRows, Minutes
  <1> HIDE DEF row
  <1>3. f \in Surjection(Refunded(w), GenRefunds(w))
    BY <1>1 DEF Surjection
  <1>4. Refunded(w) \subseteq DOMAIN w.sales
    BY DEF Refunded, Paid
  <1>5. IsFiniteSet(GenRefunds(w))
    BY <1>3, <1>4, SalesAreFinite, FS_Surjection
  <1> QED
    BY <1>1, <1>2, <1>5

\* The buffer covers the day of every refund (GeneratorConfig, fx_days).
LEMMA CleanRefundRates ==
  ASSUME NEW w, Drawn(w), NEW r \in GenRefunds(w)
  PROVE  <<Date(r.at), CurrencyOf[r.customer]>> \in DOMAIN w.fx
  <1>1. PICK k \in Refunded(w) :
          /\ r.at = w.sales[k].at + w.sales[k].delay + w.sales[k].refundDays * Day
          /\ r.customer = w.sales[k].customer
    BY DEF GenRefunds
  <1>2. k \in DOMAIN w.sales
    BY DEF Refunded, Paid
  <1> DEFINE t == w.sales[k].at
             y == w.sales[k].delay
             n == w.sales[k].refundDays
             days == w.days
  <1>3. /\ t \in Nat /\ y \in 0 .. 6 * Hour /\ n \in 0 .. 10 /\ Date(t) < days /\ days \in Nat
        /\ r.customer \in Customers /\ r.at = t + y + n * Day
    BY <1>1, <1>2, DrawnSale DEF Drawn
  <1> HIDE DEF t, y, n, days
  <1>4. t < days * 1440
    <2>1. t \div 1440 < days
      BY <1>3 DEF Date, Day, Hour
    <2> QED
      BY <1>3, <2>1
  <1>5. r.at \in Nat /\ r.at < (days + 11) * 1440
    BY <1>3, <1>4 DEF Hour, Day
  <1>6. r.at \div 1440 \in Nat /\ r.at \div 1440 < days + 11
    BY <1>3, <1>5
  <1>7. Date(r.at) \in 0 .. days + FxBuffer - 1
    <2>1. Date(r.at) = r.at \div 1440
      BY DEF Date, Day, Hour
    <2> QED
      BY <1>3, <1>6, <2>1, FxBufferSuffices
  <1>8. CurrencyOf[r.customer] \in Currencies
    BY <1>3 DEF Currencies
  <1> QED
    BY <1>7, <1>8 DEF Drawn, FxDates, days

\* So each order and each refund has a value.
LEMMA CleanValues ==
  ASSUME NEW w, Drawn(w)
  PROVE  /\ \A o \in GenOrders(w) :
              Convert(o.gross, CurrencyOf[o.customer], Date(o.at), w.fx) \in Nat
         /\ \A r \in GenRefunds(w) :
              Convert(r.amount, CurrencyOf[r.customer], Date(r.at), w.fx) \in Nat
  <1>1. \A x \in DOMAIN w.fx : w.fx[x] \in Nat
    BY DEF Drawn
  <1>2. ASSUME NEW o \in GenOrders(w)
        PROVE  Convert(o.gross, CurrencyOf[o.customer], Date(o.at), w.fx) \in Nat
    <2>1. o.gross \in Nat
      BY CleanOrders DEF OrderRows
    <2>2. w.fx[<<Date(o.at), CurrencyOf[o.customer]>>] \in Nat
      BY <1>1, CleanRatesSuffice
    <2> QED
      BY <2>1, <2>2, ConvertIsNat
  <1>3. ASSUME NEW r \in GenRefunds(w)
        PROVE  Convert(r.amount, CurrencyOf[r.customer], Date(r.at), w.fx) \in Nat
    <2>1. r.amount \in Nat
      BY CleanRefunds DEF RefundRows
    <2>2. w.fx[<<Date(r.at), CurrencyOf[r.customer]>>] \in Nat
      BY <1>1, CleanRefundRates
    <2> QED
      BY <2>1, <2>2, ConvertIsNat
  <1> QED
    BY <1>2, <1>3

\* The published report has rows of its kind, and no sales without an order.
LEMMA CleanReports ==
  ASSUME NEW w, Drawn(w)
  PROVE  LET reports == Generate(w).daily_revenue_report
         IN  /\ ReportsTyped(reports)
             /\ \A k \in DOMAIN reports : reports[k].orders = 0 => reports[k].gross = 0
  <1> DEFINE O == GenOrders(w)
             P == GenPayments(w)
             R == GenRefunds(w)
             key(row) == <<Date(row.at), RegionOf[row.customer]>>
             reports == GenReports(O, P, R, w.fx)
             rows == O \cup P \cup R
  <1>1. Generate(w).daily_revenue_report = reports
    BY DEF Generate
  <1>2. \A x \in rows : x.at \in Nat /\ x.customer \in Customers
    <2>1. \A x \in O : x.at \in Nat /\ x.customer \in Customers
      BY CleanOrders DEF OrderRows, Minutes
    <2>2. \A x \in P : x.at \in Nat /\ x.customer \in Customers
      BY CleanPayments DEF PaymentRows, Minutes
    <2>3. \A x \in R : x.at \in Nat /\ x.customer \in Customers
      BY CleanRefunds DEF RefundRows, Minutes
    <2> HIDE DEF O, P, R
    <2> QED
      BY <2>1, <2>2, <2>3
  <1>3. IsFiniteSet(O) /\ IsFiniteSet(P) /\ IsFiniteSet(R)
    BY CleanOrders, CleanPayments, CleanRefunds
  <1>4. /\ \A o \in O : Convert(o.gross, CurrencyOf[o.customer], Date(o.at), w.fx) \in Nat
        /\ \A r \in R : Convert(r.amount, CurrencyOf[r.customer], Date(r.at), w.fx) \in Nat
    BY CleanValues
  <1> HIDE DEF O, P, R
  <1>5. ASSUME NEW k \in DOMAIN reports
        PROVE  /\ k \in Nat \X Regions /\ reports[k] \in ReportRows
               /\ reports[k].orders = 0 => reports[k].gross = 0
    <2> DEFINE sold == {o \in Sold(O) : key(o) = k}
               paid == {p \in {q \in P : q.status = "successful"} : key(p) = k}
               returned == {r \in R : key(r) = k}
               g == SalesInUsd(sold, w.fx)
               rt == RefundsInUsd(returned, w.fx)
               n == Cardinality(sold)
               m == Cardinality(paid)
    <2>1. reports[k] = [gross |-> g, refunds |-> rt, net |-> g - rt, orders |-> n, payments |-> m]
      BY DEF GenReports
    <2>2. \E x \in rows : k = key(x)
      BY DEF GenReports, Sold
    <2> HIDE DEF reports
    <2>3. k \in Nat \X Regions
      <3>1. PICK x \in rows : k = key(x)
        BY <2>2
      <3>2. x.at \in Nat /\ x.customer \in Customers
        BY <1>2, <3>1
      <3>3. Date(x.at) \in Nat
        BY <3>2, DatesAreNat
      <3>4. RegionOf[x.customer] \in Regions
        BY <3>2 DEF Regions
      <3> QED
        BY <3>1, <3>3, <3>4
    <2>4. sold \subseteq O /\ paid \subseteq P /\ returned \subseteq R
      BY DEF Sold
    <2> HIDE DEF sold, paid, returned, key
    <2>5. IsFiniteSet(sold) /\ IsFiniteSet(paid) /\ IsFiniteSet(returned)
      BY <1>3, <2>4, FS_Subset
    <2>6. n \in Nat /\ m \in Nat
      BY <2>5, FS_CardinalityType
    <2>7. g \in Nat
      BY <1>4, <2>4, <2>5, SalesInUsdIsNat
    <2>8. rt \in Nat
      BY <1>4, <2>4, <2>5, RefundsInUsdIsNat
    <2>9. n = 0 => g = 0
      BY <2>5, FS_EmptySet, NothingInUsd
    <2> HIDE DEF g, rt, n, m
    <2>10. reports[k] \in ReportRows
      BY <2>1, <2>6, <2>7, <2>8 DEF ReportRows
    <2>11. reports[k].orders = n /\ reports[k].gross = g
      BY <2>1
    <2> QED
      BY <2>3, <2>9, <2>10, <2>11
  <1> HIDE DEF reports
  <1> QED
    BY <1>1, <1>5 DEF ReportsTyped

\* Clean data sets have rows of their kind.
LEMMA CleanTyped ==
  ASSUME draws \in Seeds, NEW c \in Configs
  PROVE  Typed(Clean(c)) /\ Clean(c).orders # {}
  <1> DEFINE w == draws[c]
             d == Generate(w)
  <1>1. Drawn(w) /\ Clean(c) = d
    BY SeedsAreDrawn DEF Clean
  <1>2. /\ d.orders = GenOrders(w) /\ d.payments = GenPayments(w) /\ d.refunds = GenRefunds(w)
        /\ d.system_logs = {} /\ d.pipeline_runs = GenPipelineRuns(w)
    BY DEF Generate
  <1>3. ReportsTyped(d.daily_revenue_report)
    BY <1>1, CleanReports
  <1>4. DOMAIN d = Tables
    BY <1>1, CleanTables
  <1> HIDE DEF d
  <1>5. RunsTyped(GenPipelineRuns(w))
    <2> DEFINE run(p, n) == [id |-> <<p, n>>, pipeline |-> p, started |-> At(n, 4),
                             completed |-> At(n, 4) + 25, status |-> "completed"]
    <2>1. \A r \in GenPipelineRuns(w) : \E p \in Pipelines, n \in 0 .. w.days - 1 : r = run(p, n)
      BY DEF GenPipelineRuns
    <2>2. ASSUME NEW p \in Pipelines, NEW n \in 0 .. w.days - 1
          PROVE  /\ DOMAIN run(p, n) = {"id", "pipeline", "started", "completed", "status"}
                 /\ run(p, n).pipeline \in Pipelines
                 /\ run(p, n).started \in Nat /\ run(p, n).completed \in Nat
                 /\ run(p, n).started <= run(p, n).completed
      <3>1. n \in Nat /\ 4 \in Nat
        OBVIOUS
      <3>2. At(n, 4) \in Nat
        BY <3>1, DatesAreNat DEF At, Day, Hour
      <3> QED
        BY <3>2
    <2> HIDE DEF run
    <2> QED
      BY <2>1, <2>2 DEF RunsTyped
  <1>6. GenOrders(w) # {}
    <2>1. 1 \in DOMAIN w.sales
      BY <1>1 DEF Drawn
    <2> QED
      BY <2>1 DEF GenOrders
  <1>7. GenOrders(w) \subseteq OrderRows /\ GenPayments(w) \subseteq PaymentRows
    BY <1>1, CleanOrders, CleanPayments
  <1>8. GenRefunds(w) \subseteq RefundRows
    BY <1>1, CleanRefunds
  <1>9. LogsTyped({})
    BY DEF LogsTyped
  <1> QED
    BY <1>1, <1>2, <1>3, <1>4, <1>5, <1>6, <1>7, <1>8, <1>9 DEF Typed

\* The day that a manifest is about is one.
TargetTyped(type, t) ==
  /\ type = "stale_fx_rate" => t[1] \in Nat
  /\ type = "schema_change" => t[2] \in Nat
  /\ type \in {"delayed_pipeline", "null_contamination", "partial_load", "upstream_api_failure"} =>
       t \in Nat

\* A day with orders is one.
LEMMA OrderDatesAreNat ==
  ASSUME NEW d, Typed(d)
  PROVE  OrderDates(d) \subseteq Nat /\ InnerDates(d) \subseteq OrderDates(d)
  <1>1. \A o \in d.orders : Date(o.at) \in Nat
    BY DatesAreNat DEF Typed, OrderRows, Minutes
  <1> QED
    BY <1>1 DEF OrderDates, InnerDates

\* What plan chooses from rows of their kind (incidents/injectors.py, plan).
LEMMA TargetsTyped ==
  ASSUME NEW d, Typed(d), NEW type \in Types, NEW t \in Targets(type, d)
  PROVE  TargetTyped(type, t)
  <1>1. InnerDates(d) \subseteq Nat
    BY OrderDatesAreNat
  <1>2. CASE type = "stale_fx_rate"
    BY <1>1, <1>2 DEF Targets, TargetTyped, StaleFxTargets
  <1>3. CASE type = "schema_change"
    BY <1>1, <1>3 DEF Targets, TargetTyped, SchemaTargets
  <1>4. CASE type = "delayed_pipeline"
    BY <1>1, <1>4 DEF Targets, TargetTyped, DelayedTargets
  <1>5. CASE type = "null_contamination"
    BY <1>1, <1>5 DEF Targets, TargetTyped, NullTargets
  <1>6. CASE type = "partial_load"
    BY <1>1, <1>6 DEF Targets, TargetTyped, PartialLoadTargets
  <1>7. CASE type = "upstream_api_failure"
    BY <1>1, <1>7 DEF Targets, TargetTyped, ApiFailureTargets
  <1> QED
    BY <1>2, <1>3, <1>4, <1>5, <1>6, <1>7 DEF TargetTyped

\* One more log at a time keeps the logs.
LEMMA LogsGrow ==
  ASSUME NEW d, DOMAIN d = Tables, LogsTyped(d.system_logs), NEW id, NEW service, NEW at \in Nat,
         NEW level \in {"ERROR", "WARN"}
  PROVE  LogsTyped(WithLog(d, Log(id, service, at, level)).system_logs)
  BY DEF LogsTyped, WithLog, Log, Tables

\* The payment once more is a payment.
LEMMA DuplicateTyped ==
  ASSUME NEW d, Typed(d), NEW target, NEW e \in Duplicate(d, target)
  PROVE  Typed(e)
  <1>1. PICK p \in d.payments :
          LET q == [p EXCEPT !.id = <<p.id[1], 1>>, !.at = @ + 2, !.status = "successful"]
          IN  /\ e = WithLog([d EXCEPT !.payments = @ \cup {q}],
                             Log(<<"dup", target>>, "payment_reconciliation_pipeline",
                                 p.at + 2, "WARN"))
    BY DEF Duplicate
  <1>2. p \in PaymentRows /\ p.at + 2 \in Nat
    BY DEF Typed, PaymentRows, Minutes
  <1> DEFINE q == [p EXCEPT !.id = <<p.id[1], 1>>, !.at = @ + 2, !.status = "successful"]
             more == [d EXCEPT !.payments = @ \cup {q}]
  <1>3. q \in PaymentRows
    BY <1>2 DEF PaymentRows, Minutes
  <1>4. more.payments = d.payments \cup {q} /\ more.system_logs = d.system_logs /\ DOMAIN more = Tables
    BY DEF Typed, Tables
  <1> HIDE DEF q, more
  <1>5. e = WithLog(more, Log(<<"dup", target>>, "payment_reconciliation_pipeline", p.at + 2, "WARN"))
    BY <1>1 DEF q, more
  <1>6. LogsTyped(e.system_logs)
    BY <1>2, <1>4, <1>5, LogsGrow DEF Typed
  <1>7. e.payments = d.payments \cup {q}
    BY <1>4, <1>5 DEF WithLog, Tables
  <1>8. ChangesOnly(e, d, {"payments", "system_logs"})
    BY SmallEffects DEF Typed
  <1> QED
    BY <1>3, <1>6, <1>7, <1>8 DEF Typed, ChangesOnly, Tables

\* Orders that move are orders.
LEMMA ShiftTyped ==
  ASSUME NEW d, Typed(d), NEW target, NEW e \in ShiftTimezone(d, target)
  PROVE  Typed(e)
  <1> DEFINE late == Late(d, target)
             moved == {[o EXCEPT !.at = @ + 6 * Hour] : o \in late}
  <1>1. e.orders = (d.orders \ late) \cup moved
    BY DEF ShiftTimezone, Typed, Tables
  <1>2. late \subseteq OrderRows
    BY DEF Late, Typed
  <1> HIDE DEF late
  <1>3. moved \subseteq OrderRows
    <2> SUFFICES ASSUME NEW o \in OrderRows PROVE [o EXCEPT !.at = @ + 6 * Hour] \in OrderRows
      BY <1>2
    <2>1. o.at + 6 * Hour \in Nat
      BY DEF OrderRows, Minutes, Hour
    <2> QED
      BY <2>1 DEF OrderRows, Minutes
  <1> HIDE DEF moved
  <1>4. ChangesOnly(e, d, {"orders"})
    BY SmallEffects DEF Typed
  <1> QED
    BY <1>1, <1>3, <1>4 DEF Typed, ChangesOnly, Tables

\* The late run ends after it starts, and the other reports stay.
LEMMA DelayTyped ==
  ASSUME NEW d, Typed(d), NEW target \in Nat, NEW e \in DelayPipeline(d, target)
  PROVE  Typed(e)
  <1> DEFINE late(r) == IF r.id = <<"revenue_aggregation_pipeline", target>>
                        THEN [r EXCEPT !.completed = CompletedLate(r.started), !.status = "delayed"]
                        ELSE r
             kept == {k \in DOMAIN d.daily_revenue_report : k[1] # target}
             runs == {late(r) : r \in d.pipeline_runs}
             reports == [k \in kept |-> d.daily_revenue_report[k]]
             more == [d EXCEPT !.pipeline_runs = runs, !.daily_revenue_report = reports]
  <1>1. e = WithLog(more, Log(<<"delay">>, "revenue_aggregation_pipeline", At(target, 19), "ERROR"))
    BY DEF DelayPipeline
  <1>2. /\ more.pipeline_runs = runs /\ more.daily_revenue_report = reports
        /\ more.system_logs = d.system_logs /\ DOMAIN more = Tables
    BY DEF Typed, Tables
  <1>3. RunsTyped(runs)
    <2> SUFFICES ASSUME NEW r \in d.pipeline_runs
                 PROVE  LET s == late(r) IN
                        /\ DOMAIN s = {"id", "pipeline", "started", "completed", "status"}
                        /\ s.pipeline \in Pipelines /\ s.started \in Nat /\ s.completed \in Nat
                        /\ s.started <= s.completed
      BY DEF RunsTyped
    <2>1. /\ DOMAIN r = {"id", "pipeline", "started", "completed", "status"}
          /\ r.pipeline \in Pipelines /\ r.started \in Nat /\ r.completed \in Nat
          /\ r.started <= r.completed
      BY DEF Typed, RunsTyped
    <2>2. CompletedLate(r.started) \in Nat /\ r.started <= CompletedLate(r.started)
      BY <2>1 DEF CompletedLate, Hour
    <2>3. CASE r.id = <<"revenue_aggregation_pipeline", target>>
      <3> DEFINE s == [r EXCEPT !.completed = CompletedLate(r.started), !.status = "delayed"]
      <3>1. /\ DOMAIN s = DOMAIN r /\ s.pipeline = r.pipeline /\ s.started = r.started
            /\ s.completed = CompletedLate(r.started)
        BY <2>1
      <3>2. late(r) = s
        BY <2>3
      <3> HIDE DEF s, late
      <3> QED
        BY <2>1, <2>2, <3>1, <3>2
    <2>4. CASE r.id # <<"revenue_aggregation_pipeline", target>>
      <3>1. late(r) = r
        BY <2>4
      <3> HIDE DEF late
      <3> QED
        BY <2>1, <3>1
    <2> QED
      BY <2>3, <2>4
  <1>4. ReportsTyped(reports)
    BY DEF Typed, ReportsTyped
  <1> HIDE DEF runs, reports, more
  <1>5. At(target, 19) \in Nat
    BY DatesAreNat
  <1>6. LogsTyped(e.system_logs)
    BY <1>1, <1>2, <1>5, LogsGrow DEF Typed
  <1>7. e.pipeline_runs = runs /\ e.daily_revenue_report = reports
    BY <1>1, <1>2 DEF WithLog, Tables
  <1>8. ChangesOnly(e, d, {"pipeline_runs", "daily_revenue_report", "system_logs"})
    BY SmallEffects DEF Typed
  <1> QED
    BY <1>3, <1>4, <1>6, <1>7, <1>8 DEF Typed, ChangesOnly, Tables

\* A wrong net amount is a number.
LEMMA AddRefundsTyped ==
  ASSUME NEW d, Typed(d), NEW target, NEW e \in AddRefunds(d, target)
  PROVE  Typed(e)
  <1> DEFINE old == d.daily_revenue_report
             wrong(rep) == [rep EXCEPT !.net = rep.gross + rep.refunds]
             new == [j \in DOMAIN old |-> IF j = target THEN wrong(old[j]) ELSE old[j]]
  <1>1. e.daily_revenue_report = new
    BY DEF AddRefunds, Typed, Tables
  <1>2. ReportsTyped(old)
    BY DEF Typed
  <1>3. \A rep \in ReportRows : wrong(rep) \in ReportRows
    BY DEF ReportRows
  <1> HIDE DEF old, wrong
  <1>4. ReportsTyped(new)
    BY <1>2, <1>3 DEF ReportsTyped
  <1> HIDE DEF new
  <1>5. ChangesOnly(e, d, {"daily_revenue_report"})
    BY SmallEffects DEF Typed
  <1> QED
    BY <1>1, <1>4, <1>5 DEF Typed, ChangesOnly, Tables

\* Injectors that change tables of other rows, and log.
LEMMA LoggedTyped ==
  ASSUME NEW d, Typed(d), NEW target, NEW e,
         \/ e \in StaleFx(d, target) /\ target[1] \in Nat
         \/ e \in MissingMapping(d, target)
         \/ e \in ContaminateWithNulls(d, target) /\ target \in Nat
  PROVE  Typed(e)
  <1>1. LogsTyped(e.system_logs)
    <2>1. CASE e \in StaleFx(d, target) /\ target[1] \in Nat
      <3> DEFINE x == [d EXCEPT !.fx_rates[<<target[1], target[2]>>] =
                         d.fx_rates[<<target[1] - 1, target[2]>>]]
      <3>1. e = WithLog(x, Log(<<"stalefx">>, "fx_rate_pipeline", At(target[1], 0), "WARN"))
        BY <2>1 DEF StaleFx
      <3>2. DOMAIN x = Tables /\ x.system_logs = d.system_logs
        BY DEF Typed, Tables
      <3> HIDE DEF x
      <3>3. At(target[1], 0) \in Nat
        BY <2>1, DatesAreNat, 0 \in Nat
      <3> QED
        BY <3>1, <3>2, <3>3, LogsGrow DEF Typed
    <2>2. CASE e \in MissingMapping(d, target)
      <3> DEFINE x == [d EXCEPT !.customers = [c \in DOMAIN @ |-> IF c \in target THEN "null" ELSE @[c]]]
      <3>1. PICK n \in OrderDates(d) :
              e = WithLog(x, Log(<<"mapping">>, "customer_mapping_pipeline", At(n, 2), "ERROR"))
        BY <2>2 DEF MissingMapping
      <3>2. DOMAIN x = Tables /\ x.system_logs = d.system_logs
        BY DEF Typed, Tables
      <3> HIDE DEF x
      <3>3. At(n, 2) \in Nat
        BY OrderDatesAreNat, DatesAreNat, 2 \in Nat
      <3> QED
        BY <3>1, <3>2, <3>3, LogsGrow DEF Typed
    <2>3. CASE e \in ContaminateWithNulls(d, target) /\ target \in Nat
      <3> DEFINE x == [d EXCEPT !.staging_records = @ \cup
                         {[id |-> n, entity |-> "order", fields |-> {"order_id", "currency"}] :
                            n \in 0 .. 7}]
      <3>1. e = WithLog(x, Log(<<"null">>, "orders_ingest", At(target, 3), "ERROR"))
        BY <2>3 DEF ContaminateWithNulls
      <3>2. DOMAIN x = Tables /\ x.system_logs = d.system_logs
        BY DEF Typed, Tables
      <3> HIDE DEF x
      <3>3. At(target, 3) \in Nat
        BY <2>3, DatesAreNat, 3 \in Nat
      <3> QED
        BY <3>1, <3>2, <3>3, LogsGrow DEF Typed
    <2> QED
      BY <2>1, <2>2, <2>3
  <1>2. \/ ChangesOnly(e, d, {"fx_rates", "system_logs"})
        \/ ChangesOnly(e, d, {"customers", "system_logs"})
        \/ ChangesOnly(e, d, {"staging_records", "system_logs"})
    BY SmallEffects DEF Typed
  <1> QED
    BY <1>1, <1>2 DEF Typed, ChangesOnly, Tables

\* What remains of a partial load are rows of before.
LEMMA LoadPartiallyTyped ==
  ASSUME NEW d, Typed(d), NEW target \in Nat, NEW e \in LoadPartially(d, target)
  PROVE  Typed(e)
  <1> DEFINE without(drop) == [d EXCEPT
               !.refunds = {r \in @ : r.order \notin drop},
               !.payments = {p \in @ : p.order \notin drop},
               !.shipments = {s \in @ : s.order \notin drop},
               !.orders = {o \in @ : o.id \notin drop}]
  <1>1. PICK drop : e = WithLog(without(drop),
                          Log(<<"partial">>, "orders_ingest", At(target, 4), "WARN"))
    BY DEF LoadPartially
  <1> DEFINE x == without(drop)
  <1>2. /\ x.orders \subseteq d.orders /\ x.payments \subseteq d.payments
        /\ x.refunds \subseteq d.refunds /\ x.system_logs = d.system_logs /\ DOMAIN x = Tables
    BY DEF Typed, Tables
  <1> HIDE DEF without
  <1>3. At(target, 4) \in Nat
    BY DatesAreNat, 4 \in Nat
  <1>4. LogsTyped(e.system_logs)
    BY <1>1, <1>2, <1>3, LogsGrow DEF Typed
  <1>5. e.orders = x.orders /\ e.payments = x.payments /\ e.refunds = x.refunds
    BY <1>1, <1>2 DEF WithLog, Tables
  <1>6. ChangesOnly(e, d, {"orders", "payments", "refunds", "shipments", "system_logs"})
    BY LargeEffects DEF Typed
  <1> QED
    BY <1>2, <1>4, <1>5, <1>6 DEF Typed, ChangesOnly, Tables

\* The failed run of a schema change ends when it starts.
LEMMA RenameTyped ==
  ASSUME NEW d, Typed(d), NEW target, target[2] \in Nat, NEW e \in RenameField(d, target)
  PROVE  Typed(e)
  <1> DEFINE at == At(target[2], 2)
             run == FailedRun(<<"schema", target[2]>>, "orders_ingest", at, at)
             x == [d EXCEPT
                     !.schema_events = @ \cup {<<target[1].table, target[1].field>>},
                     !.pipeline_runs = @ \cup {run},
                     !.staging_records = @ \cup {[id |-> 0, entity |-> target[1].entity,
                                                  fields |-> {target[1].new}]}]
  <1>1. e = WithLog(x, Log(<<"schema">>, "orders_ingest", at, "ERROR"))
    BY DEF RenameField
  <1>2. /\ x.pipeline_runs = d.pipeline_runs \cup {run} /\ x.system_logs = d.system_logs
        /\ DOMAIN x = Tables
    BY DEF Typed, Tables
  <1>3. at \in Nat
    BY DatesAreNat, 2 \in Nat
  <1> HIDE DEF at
  <1>4. RunsTyped({run})
    BY <1>3, PipelinesAreDefined DEF RunsTyped, FailedRun
  <1> HIDE DEF x, run
  <1>5. LogsTyped(e.system_logs)
    BY <1>1, <1>2, <1>3, LogsGrow DEF Typed
  <1>6. RunsTyped(e.pipeline_runs)
    <2>1. e.pipeline_runs = d.pipeline_runs \cup {run}
      BY <1>1, <1>2 DEF WithLog, Tables
    <2> QED
      BY <1>4, <2>1 DEF RunsTyped, Typed
  <1>7. ChangesOnly(e, d, {"schema_events", "pipeline_runs", "staging_records", "system_logs"})
    BY LargeEffects DEF Typed
  <1> QED
    BY <1>5, <1>6, <1>7 DEF Typed, ChangesOnly, Tables

\* The failed run and the errors of an upstream failure have times.
LEMMA FailUpstreamTyped ==
  ASSUME NEW d, Typed(d), NEW target \in Nat, NEW e \in FailUpstream(d, target)
  PROVE  Typed(e)
  <1> DEFINE at == At(target, 3)
             run == FailedRun(<<"api", target>>, "payment_reconciliation_pipeline", at, at + 25)
             errors == {Log(<<"api", n>>, "payment_provider_api", at + n, "ERROR") : n \in 0 .. 24}
  <1>1. /\ e.pipeline_runs = d.pipeline_runs \cup {run}
        /\ e.system_logs = d.system_logs \cup errors
        /\ e.payments \subseteq d.payments /\ e.refunds \subseteq d.refunds
    BY DEF FailUpstream, WithoutRefunds, Typed, Tables
  <1>2. at \in Nat
    BY DatesAreNat, 3 \in Nat
  <1> HIDE DEF at
  <1>3. RunsTyped({run})
    BY <1>2, PipelinesAreDefined DEF RunsTyped, FailedRun
  <1>4. LogsTyped(errors)
    BY <1>2 DEF LogsTyped, Log
  <1> HIDE DEF run, errors
  <1>5. RunsTyped(e.pipeline_runs) /\ LogsTyped(e.system_logs)
    BY <1>1, <1>3, <1>4 DEF RunsTyped, LogsTyped, Typed
  <1>6. ChangesOnly(e, d, {"system_logs", "pipeline_runs", "payments", "refunds"})
    BY LargeEffects DEF Typed
  <1> QED
    BY <1>1, <1>5, <1>6 DEF Typed, ChangesOnly, Tables

\* Every injection leaves rows of their kind (incidents/injectors.py, apply).
LEMMA EffectsTyped ==
  ASSUME NEW d, Typed(d), NEW type \in Types, NEW target, TargetTyped(type, target),
         NEW e \in Effects(type, target, d)
  PROVE  Typed(e)
  <1>1. CASE type = "duplicate_transaction"
    BY <1>1, DuplicateTyped DEF Effects
  <1>2. CASE type = "stale_fx_rate"
    BY <1>2, LoggedTyped DEF Effects, TargetTyped
  <1>3. CASE type = "missing_customer_mapping"
    BY <1>3, LoggedTyped DEF Effects
  <1>4. CASE type = "schema_change"
    BY <1>4, RenameTyped DEF Effects, TargetTyped
  <1>5. CASE type = "delayed_pipeline"
    BY <1>5, DelayTyped DEF Effects, TargetTyped
  <1>6. CASE type = "timezone_conversion_error"
    BY <1>6, ShiftTyped DEF Effects
  <1>7. CASE type = "null_contamination"
    BY <1>7, LoggedTyped DEF Effects, TargetTyped
  <1>8. CASE type = "partial_load"
    BY <1>8, LoadPartiallyTyped DEF Effects, TargetTyped
  <1>9. CASE type = "incorrect_aggregation"
    BY <1>9, AddRefundsTyped DEF Effects
  <1>10. CASE type = "upstream_api_failure"
    BY <1>10, FailUpstreamTyped DEF Effects, TargetTyped
  <1> QED
    BY <1>1, <1>2, <1>3, <1>4, <1>5, <1>6, <1>7, <1>8, <1>9, <1>10 DEF Types, IncidentTypes

\* Each control suspects a cause of its own (detection/detectors.py).
LEMMA CausesAre ==
  ASSUME NEW d
  PROVE  /\ \A a \in DuplicatePayment(d) : a.cause = "DUPLICATE_TRANSACTION" /\ a.severity = "high"
         /\ \A a \in StaleFxRate(d) : a.cause = "STALE_FX_RATE" /\ a.severity = "high"
         /\ \A a \in MissingCustomerMapping(d) :
              a.cause = "MISSING_CUSTOMER_MAPPING" /\ a.severity = "medium"
         /\ \A a \in SchemaChange(d) : a.cause = "SCHEMA_CONTRACT_CHANGE" /\ a.severity = "high"
         /\ \A a \in DelayedPipeline(d) : a.cause = "DELAYED_PIPELINE" /\ a.severity = "medium"
         /\ \A a \in TimezoneShift(d) :
              a.cause = "TIMEZONE_CONVERSION_ERROR" /\ a.severity = "medium"
         /\ \A a \in NullContamination(d) : a.cause = "NULL_CONTAMINATION" /\ a.severity = "medium"
         /\ \A a \in PartialLoad(d) : a.cause = "PARTIAL_LOAD" /\ a.severity = "high"
         /\ \A a \in IncorrectAggregation(d) :
              a.cause = "INCORRECT_AGGREGATION" /\ a.severity = "high"
         /\ \A a \in ApiErrorBurst(d) : a.cause = "UPSTREAM_API_FAILURE" /\ a.severity = "high"
         /\ \A a \in RevenueReconciliation(d) : a.cause = "UNKNOWN" /\ a.severity = "medium"
  <1> DEFINE Raised(cause, severity, A) == \A a \in A : a.cause = cause /\ a.severity = severity
  <1>1. Raised("DUPLICATE_TRANSACTION", "high", DuplicatePayment(d))
    <2>1. \E S : DuplicatePayment(d) =
            {Alert(<<"idempotency_key", k>>, "DUPLICATE_TRANSACTION", "high") : k \in S}
      BY Zenon DEF DuplicatePayment
    <2> QED
      BY <2>1 DEF Alert
  <1>2. Raised("STALE_FX_RATE", "high", StaleFxRate(d))
    <2>1. \E S : StaleFxRate(d) = {Alert(<<"fx_rate", k>>, "STALE_FX_RATE", "high") : k \in S}
      BY Zenon DEF StaleFxRate
    <2> QED
      BY <2>1 DEF Alert
  <1>3. Raised("MISSING_CUSTOMER_MAPPING", "medium", MissingCustomerMapping(d))
    BY DEF MissingCustomerMapping, Alert
  <1>4. Raised("SCHEMA_CONTRACT_CHANGE", "high", SchemaChange(d))
    BY DEF SchemaChange, Alert
  <1>5. Raised("DELAYED_PIPELINE", "medium", DelayedPipeline(d))
    <2>1. \E late, unreported : DelayedPipeline(d) =
            {Alert(<<"pipeline_run", r.id>>, "DELAYED_PIPELINE", "medium") : r \in late}
              \cup {Alert(<<"daily_revenue_report", n>>, "DELAYED_PIPELINE", "medium") :
                      n \in unreported}
      BY Zenon DEF DelayedPipeline
    <2> QED
      BY <2>1 DEF Alert
  <1>6. Raised("TIMEZONE_CONVERSION_ERROR", "medium", TimezoneShift(d))
    <2>1. \E S : TimezoneShift(d) =
            {Alert(<<"daily_revenue_report", k>>, "TIMEZONE_CONVERSION_ERROR", "medium") : k \in S}
      BY Zenon DEF TimezoneShift
    <2> QED
      BY <2>1 DEF Alert
  <1>7. Raised("NULL_CONTAMINATION", "medium", NullContamination(d))
    <2>1. \E S : NullContamination(d) =
            {Alert(<<"staging_records", rec.entity>>, "NULL_CONTAMINATION", "medium") : rec \in S}
      BY Zenon DEF NullContamination
    <2> QED
      BY <2>1 DEF Alert
  <1>8. Raised("PARTIAL_LOAD", "high", PartialLoad(d))
    <2>1. \E thin : PartialLoad(d) = {Alert(<<"orders", n>>, "PARTIAL_LOAD", "high") : n \in thin}
      BY Zenon DEF PartialLoad
    <2> QED
      BY <2>1 DEF Alert
  <1>9. Raised("INCORRECT_AGGREGATION", "high", IncorrectAggregation(d))
    <2>1. \E S : IncorrectAggregation(d) =
            {Alert(<<"daily_revenue_report", k>>, "INCORRECT_AGGREGATION", "high") : k \in S}
      BY Zenon DEF IncorrectAggregation
    <2> QED
      BY <2>1 DEF Alert
  <1>10. Raised("UPSTREAM_API_FAILURE", "high", ApiErrorBurst(d))
    <2>1. \E S : ApiErrorBurst(d) =
            {Alert(<<"system_logs", k>>, "UPSTREAM_API_FAILURE", "high") : k \in S}
      BY Zenon DEF ApiErrorBurst
    <2> QED
      BY <2>1 DEF Alert
  <1>11. Raised("UNKNOWN", "medium", RevenueReconciliation(d))
    <2>1. \E S : RevenueReconciliation(d) =
            {Alert(<<"daily_revenue_report", k>>, "UNKNOWN", "medium") : k \in S}
      BY Zenon DEF RevenueReconciliation
    <2> QED
      BY <2>1 DEF Alert
  <1> QED
    BY <1>1, <1>2, <1>3, <1>4, <1>5, <1>6, <1>7, <1>8, <1>9, <1>10, <1>11

AlertsTyped(A) == \A a \in A : a.cause \in Causes /\ a.severity \in {"medium", "high"}

\* Alerts are of the eleven causes.
LEMMA ControlsTyped == ASSUME NEW d PROVE AlertsTyped(RunAllDetectors(d))
  <1>1. /\ "DUPLICATE_TRANSACTION" \in Causes /\ "STALE_FX_RATE" \in Causes
        /\ "MISSING_CUSTOMER_MAPPING" \in Causes /\ "SCHEMA_CONTRACT_CHANGE" \in Causes
        /\ "DELAYED_PIPELINE" \in Causes /\ "TIMEZONE_CONVERSION_ERROR" \in Causes
        /\ "NULL_CONTAMINATION" \in Causes /\ "PARTIAL_LOAD" \in Causes
        /\ "INCORRECT_AGGREGATION" \in Causes /\ "UPSTREAM_API_FAILURE" \in Causes
        /\ "UNKNOWN" \in Causes
    BY DEF Causes, AllDetectors
  <1> QED
    BY <1>1, CausesAre DEF RunAllDetectors, AlertsTyped

\* What TypeOK leaves out: runs have times, and so has what a manifest is about.
TypeInv ==
  /\ TypeOK
  /\ Typed(db)
  /\ manifest # None => TargetTyped(manifest.type, manifest.target)

\* The typed tables and the rest make TypeOK.
LEMMA TypesAre ==
  ASSUME config \in Configs \cup {None}, Typed(db), manifest # None => manifest.type \in Types,
         generations \in 0 .. MaxGenerations[draws], AlertsTyped(alerts), outcome \in {"ok", "error"}
  PROVE  TypeOK
  BY DEF TypeOK, Typed, RunsTyped, LogsTyped, ReportsTyped, AlertsTyped

\* A step keeps the rows of their kind.
LEMMA TypeStep ==
  ASSUME draws \in Seeds, TypeInv, [Next]_vars
  PROVE  /\ draws' = draws
         /\ config' \in Configs \cup {None}
         /\ Typed(db')
         /\ manifest' # None =>
              manifest'.type \in Types /\ TargetTyped(manifest'.type, manifest'.target)
         /\ generations' \in 0 .. MaxGenerations[draws]
         /\ AlertsTyped(alerts')
         /\ outcome' \in {"ok", "error"}
  <1>1. /\ config \in Configs \cup {None} /\ Typed(db)
        /\ manifest # None =>
             manifest.type \in Types /\ TargetTyped(manifest.type, manifest.target)
        /\ generations \in 0 .. MaxGenerations[draws] /\ AlertsTyped(alerts)
        /\ outcome \in {"ok", "error"}
    BY DEF TypeInv, TypeOK, AlertsTyped
  <1>2. Typed(Empty) /\ AlertsTyped({})
    BY DEF Typed, Empty, Tables, RunsTyped, LogsTyped, ReportsTyped, AlertsTyped
  <1>3. ASSUME NEW c \in Configs PROVE Typed(Clean(c))
    BY <1>3, CleanTyped
  <1>4. CASE UNCHANGED vars
    BY <1>1, <1>4 DEF vars
  <1>5. ASSUME NEW c \in Configs, Seed(c)
        PROVE  /\ UNCHANGED <<draws, manifest, generations>> /\ config' \in Configs
               /\ Typed(db') /\ AlertsTyped(alerts') /\ outcome' = "ok"
    BY <1>2, <1>3, <1>5 DEF Seed
  <1>6. CASE Reset
    BY <1>1, <1>2, <1>6 DEF Reset
  <1>7. CASE Detect
    BY <1>1, <1>7, ControlsTyped DEF Detect
  <1>8. ASSUME NEW c \in Configs, Inject(c)
        PROVE  /\ UNCHANGED <<draws, manifest, generations>> /\ config' \in Configs \cup {None}
               /\ Typed(db') /\ AlertsTyped(alerts') /\ outcome' \in {"ok", "error"}
    <2>1. UNCHANGED <<draws, manifest, generations>> /\ manifest # None
      BY <1>8 DEF Inject
    <2>2. CASE UNCHANGED <<config, db, injected, alerts>>
      BY <1>1, <1>8, <2>1, <2>2 DEF Inject
    <2>3. CASE /\ db' \in Effects(manifest.type, manifest.target, Clean(c))
               /\ config' = c /\ alerts' = RunAllDetectors(db') /\ outcome' = "ok"
      <3>1. Typed(db')
        BY <1>1, <1>3, <2>1, <2>3, EffectsTyped
      <3> QED
        BY <2>1, <2>3, <3>1, ControlsTyped
    <2> QED
      BY <1>8, <2>2, <2>3 DEF Inject
  <1>9. ASSUME NEW c \in Configs, PlanIncidents(c)
        PROVE  /\ UNCHANGED <<draws, alerts>> /\ config' \in Configs \cup {None} /\ Typed(db')
               /\ manifest' # None =>
                    manifest'.type \in Types /\ TargetTyped(manifest'.type, manifest'.target)
               /\ generations' \in 0 .. MaxGenerations[draws]
               /\ outcome' \in {"ok", "error"}
    <2> DEFINE data == IF db.orders # {} THEN db ELSE Clean(c)
    <2>1. Typed(data)
      BY <1>1, <1>3
    <2>2. /\ UNCHANGED <<draws, alerts>> /\ outcome' \in {"ok", "error"}
          /\ db' = data \/ db' = db
          /\ config' \in {config, c}
      BY <1>9 DEF PlanIncidents
    <2>3. generations' \in 0 .. MaxGenerations[draws]
      <3>1. MaxGenerations[draws] \in Nat
        BY MaxGenerationsIsNat
      <3>2. generations < MaxGenerations[draws] /\ generations' = generations + 1
        BY <1>9 DEF PlanIncidents
      <3> QED
        BY <1>1, <3>1, <3>2
    <2>4. \/ manifest' = manifest
          \/ \E n \in DOMAIN IncidentTypes : \E t \in Targets(IncidentTypes[n], data) :
               manifest' = [type |-> IncidentTypes[n], target |-> t]
      BY <1>9 DEF PlanIncidents
    <2> HIDE DEF data
    <2>5. ASSUME NEW n \in DOMAIN IncidentTypes, NEW t \in Targets(IncidentTypes[n], data)
          PROVE  IncidentTypes[n] \in Types /\ TargetTyped(IncidentTypes[n], t)
      <3>1. IncidentTypes[n] \in Types
        BY DEF Types
      <3> QED
        BY <2>1, <3>1, TargetsTyped
    <2>6. manifest' # None =>
            manifest'.type \in Types /\ TargetTyped(manifest'.type, manifest'.target)
      BY <1>1, <2>4, <2>5
    <2> QED
      BY <1>1, <2>1, <2>2, <2>3, <2>6
  <1> QED
    BY <1>1, <1>4, <1>5, <1>6, <1>7, <1>8, <1>9 DEF Next

\* Whatever is drawn, planned and injected, every table holds rows of its kind, every run
\* ends after it starts and every alert is of one of the causes
\* (simulator/generator.py, incidents/injectors.py, detection/detectors.py).
LEMMA DataTypes == Spec => []TypeInv
  <1>1. Init => TypeInv
    <2> SUFFICES ASSUME Init PROVE TypeInv
      OBVIOUS
    <2>1. Typed(db) /\ AlertsTyped(alerts)
      BY DEF Init, Typed, Empty, Tables, RunsTyped, LogsTyped, ReportsTyped, AlertsTyped
    <2>2. generations \in 0 .. MaxGenerations[draws]
      <3>1. MaxGenerations[draws] \in Nat
        BY MaxGenerationsIsNat DEF Init
      <3> QED
        BY <3>1 DEF Init
    <2> QED
      BY <2>1, <2>2, TypesAre DEF Init, TypeInv
  <1>2. draws \in Seeds /\ TypeInv /\ [Next]_vars => TypeInv'
    <2> SUFFICES ASSUME draws \in Seeds, TypeInv, [Next]_vars PROVE TypeInv'
      OBVIOUS
    <2>1. /\ draws' = draws
          /\ config' \in Configs \cup {None}
          /\ Typed(db')
          /\ manifest' # None =>
               manifest'.type \in Types /\ TargetTyped(manifest'.type, manifest'.target)
          /\ generations' \in 0 .. MaxGenerations[draws]
          /\ AlertsTyped(alerts')
          /\ outcome' \in {"ok", "error"}
      BY TypeStep
    <2> QED
      BY <2>1 DEF TypeInv, TypeOK, Typed, RunsTyped, LogsTyped, ReportsTyped, AlertsTyped
  <1> QED
    BY <1>1, <1>2, DrawsStay, PTL DEF Spec

\* Every table holds rows of its kind, and every run ends after it starts.
THEOREM DataTyped == Spec => []TypeOK
  <1>1. TypeInv => TypeOK
    BY DEF TypeInv
  <1> QED
    BY <1>1, DataTypes, PTL

-------------------------------------------------------------------------------
(* The controls and the validation after an injection.                     *)

\* Seven tenths of some are not all.
LEMMA SevenTenths == ASSUME NEW n \in Nat, n # 0 PROVE (7 * n) \div 10 # n
  <1> DEFINE q == (7 * n) \div 10
             r == (7 * n) % 10
  <1>1. 7 * n = 10 * q + r /\ q \in Int /\ r \in 0 .. 9
    OBVIOUS
  <1> HIDE DEF q, r
  <1>2. q # n
    BY <1>1
  <1> QED
    BY <1>2 DEF q

\* No injection leaves the data set without an order: seven tenths of a day are not all.
LEMMA EffectsKeepAnOrder ==
  ASSUME NEW d, DOMAIN d = Tables, IsFiniteSet(d.orders), d.orders # {}, NEW type \in Types,
         NEW target, NEW e \in Effects(type, target, d)
  PROVE  e.orders # {}
  <1>1. CASE type = "partial_load"
    <2> DEFINE ids == {o.id : o \in {x \in d.orders : Date(x.at) = target}}
               without(drop) == [d EXCEPT
                 !.refunds = {r \in @ : r.order \notin drop},
                 !.payments = {p \in @ : p.order \notin drop},
                 !.shipments = {s \in @ : s.order \notin drop},
                 !.orders = {o \in @ : o.id \notin drop}]
    <2>1. e \in LoadPartially(d, target)
      BY <1>1 DEF Effects
    <2>2. PICK drop \in SUBSET ids :
            /\ Cardinality(drop) = (7 * Cardinality(ids)) \div 10
            /\ e = WithLog(without(drop), Log(<<"partial">>, "orders_ingest", At(target, 4), "WARN"))
      BY <2>1 DEF LoadPartially
    <2>3. without(drop).orders = {o \in d.orders : o.id \notin drop} /\ DOMAIN without(drop) = Tables
      BY DEF Tables
    <2> HIDE DEF without
    <2>4. e.orders = {o \in d.orders : o.id \notin drop}
      BY <2>2, <2>3 DEF WithLog, Tables
    <2>5. IsFiniteSet(ids)
      <3> DEFINE S == {x \in d.orders : Date(x.at) = target}
                 f == [x \in S |-> x.id]
      <3>1. IsFiniteSet(S)
        BY FS_Subset
      <3>2. f \in Surjection(S, ids)
        BY DEF Surjection
      <3> HIDE DEF S, f
      <3> QED
        BY <3>1, <3>2, FS_Surjection
    <2>6. CASE ids = {}
      BY <2>2, <2>4, <2>6
    <2>7. CASE ids # {}
      <3> DEFINE n == Cardinality(ids)
      <3>1. n \in Nat /\ n # 0
        BY <2>5, <2>7, FS_EmptySet, FS_CardinalityType
      <3>2. Cardinality(drop) = (7 * n) \div 10
        BY <2>2
      <3> HIDE DEF n
      <3>3. Cardinality(drop) # n
        BY <3>1, <3>2, SevenTenths
      <3>4. drop # ids
        BY <3>3 DEF n
      <3>5. PICK id \in ids : id \notin drop
        BY <3>4
      <3> QED
        BY <2>4, <3>5
    <2> QED
      BY <2>6, <2>7
  <1>2. CASE type = "timezone_conversion_error"
    <2> DEFINE late == Late(d, target)
               moved == {[o EXCEPT !.at = @ + 6 * Hour] : o \in late}
    <2>1. e.orders = (d.orders \ late) \cup moved
      BY <1>2 DEF Effects, ShiftTimezone, Tables
    <2>2. late # {} => moved # {}
      OBVIOUS
    <2> HIDE DEF late, moved
    <2> QED
      BY <2>1, <2>2
  <1>3. CASE type \notin {"partial_load", "timezone_conversion_error"}
    <2>1. ChangesOnly(e, d, ChangedTables[type] \cup {"system_logs"})
      BY EffectsStayInManifest
    <2>2. "orders" \notin ChangedTables[type] /\ "orders" \in Tables
      BY <1>3 DEF Types, IncidentTypes, ChangedTables, ApiFailureTables, Tables
    <2> QED
      BY <2>1, <2>2 DEF ChangesOnly
  <1> QED
    BY <1>1, <1>2, <1>3

\* The stored data set is what the stored incident's manifest made of a clean one, and the
\* alerts are of it.
InjectedInv ==
  injected # None =>
    /\ config \in Configs /\ injected.type \in Types
    /\ db \in Effects(injected.type, injected.target, Clean(config))
    /\ alerts = RunAllDetectors(db)

\* A data set with an incident has orders.
LEMMA InjectedHasOrders ==
  ASSUME draws \in Seeds, InjectedInv, injected # None
  PROVE  db.orders # {}
  <1>1. IsFiniteSet(Clean(config).orders)
    <2>1. Clean(config).orders = GenOrders(draws[config])
      BY DEF Clean, Generate
    <2> QED
      BY <2>1, SeedsAreDrawn, CleanOrders DEF InjectedInv
  <1>2. Clean(config).orders # {} /\ DOMAIN Clean(config) = Tables
    BY CleanTyped, CleanTables DEF InjectedInv
  <1> QED
    BY <1>1, <1>2, EffectsKeepAnOrder DEF InjectedInv

\* Commands keep the incident with its data and its alerts (incidents/service.py,
\* run_incident_pipeline; detection/runner.py).
LEMMA InjectedStays == Spec => []InjectedInv
  <1>1. Init => InjectedInv
    BY DEF Init, InjectedInv
  <1>2. draws \in Seeds /\ ManifestInv /\ InjectedInv /\ [Next]_vars => InjectedInv'
    <2> SUFFICES ASSUME draws \in Seeds, ManifestInv, InjectedInv, [Next]_vars, injected' # None
                 PROVE  /\ draws' = draws
                        /\ config' \in Configs /\ injected'.type \in Types
                        /\ db' \in Effects(injected'.type, injected'.target, Clean(config'))
                        /\ alerts' = RunAllDetectors(db')
      BY DEF InjectedInv, Clean
    <2>1. draws' = draws
      BY DEF Next, vars, Seed, Reset, PlanIncidents, Inject, Detect
    <2>2. CASE UNCHANGED <<injected, db, config, alerts>>
      BY <2>1, <2>2 DEF InjectedInv
    <2>3. ASSUME NEW c \in Configs, PlanIncidents(c) PROVE UNCHANGED <<injected, db, config, alerts>>
      <3>1. UNCHANGED <<injected, alerts>>
        BY <2>3 DEF PlanIncidents
      <3>2. db.orders # {}
        BY <3>1, InjectedHasOrders
      <3> QED
        BY <2>3, <3>1, <3>2 DEF PlanIncidents
    <2>4. ASSUME NEW c \in Configs, Inject(c), ~UNCHANGED <<injected, db, config, alerts>>
          PROVE  /\ config' \in Configs /\ injected'.type \in Types
                 /\ db' \in Effects(injected'.type, injected'.target, Clean(config'))
                 /\ alerts' = RunAllDetectors(db')
      <3>1. /\ db' \in Effects(manifest.type, manifest.target, Clean(c))
            /\ config' = c /\ injected' = manifest /\ manifest # None
            /\ alerts' = RunAllDetectors(db')
        BY <2>4 DEF Inject
      <3> QED
        BY <3>1 DEF ManifestInv
    <2>5. CASE \E c \in Configs : Seed(c)
      BY <2>5 DEF Seed
    <2>6. CASE Reset
      BY <2>6 DEF Reset
    <2>7. CASE Detect
      <3>1. UNCHANGED <<injected, db, config>> /\ alerts' = RunAllDetectors(db)
        BY <2>7 DEF Detect
      <3> QED
        BY <2>1, <3>1 DEF InjectedInv
    <2>8. CASE UNCHANGED vars
      BY <2>2, <2>8 DEF vars
    <2> QED
      BY <2>1, <2>2, <2>3, <2>4, <2>5, <2>6, <2>7, <2>8 DEF Next
  <1> QED
    BY <1>1, <1>2, ManifestTyped, DrawsStay, PTL DEF Spec

\* An injection changes no table but those its manifest names; two types leave one entry
\* in the log, which theirs does not name (incidents/injectors.py, incidents/service.py).
THEOREM StaysInManifest == Spec => []InjectionStaysInManifest
  <1>1. InjectedInv => InjectionStaysInManifest
    <2> SUFFICES ASSUME InjectedInv, injected # None PROVE InjectionStaysInManifest
      BY DEF InjectionStaysInManifest
    <2>1. StaysIn(db, Clean(config), injected.type)
      BY CleanTables, EffectsStayIn DEF InjectedInv
    <2> QED
      BY <2>1 DEF InjectionStaysInManifest, StaysIn
  <1> QED
    BY <1>1, InjectedStays, PTL

\* A report without orders is without sales.
SalesHaveOrders(d) ==
  \A k \in DOMAIN d.daily_revenue_report :
    d.daily_revenue_report[k].orders = 0 => d.daily_revenue_report[k].gross = 0

\* Injections change no sales in a report.
LEMMA EffectsKeepSales ==
  ASSUME NEW d, Typed(d), SalesHaveOrders(d), NEW type \in Types, NEW target,
         NEW e \in Effects(type, target, d)
  PROVE  SalesHaveOrders(e)
  <1> DEFINE old == d.daily_revenue_report
             new == e.daily_revenue_report
  <1>1. \A k \in DOMAIN old : old[k].orders = 0 => old[k].gross = 0
    BY DEF SalesHaveOrders
  <1>2. ReportsTyped(old)
    BY DEF Typed
  <1>3. CASE type = "delayed_pipeline"
    <2> DEFINE late(r) == IF r.id = <<"revenue_aggregation_pipeline", target>>
                          THEN [r EXCEPT !.completed = CompletedLate(r.started), !.status = "delayed"]
                          ELSE r
               kept == {k \in DOMAIN old : k[1] # target}
               runs == {late(r) : r \in d.pipeline_runs}
               more == [d EXCEPT !.pipeline_runs = runs, !.daily_revenue_report = [k \in kept |-> old[k]]]
    <2>1. e = WithLog(more, Log(<<"delay">>, "revenue_aggregation_pipeline", At(target, 19), "ERROR"))
      BY <1>3 DEF Effects, DelayPipeline
    <2>2. more.daily_revenue_report = [k \in kept |-> old[k]] /\ DOMAIN more = Tables
      BY DEF Typed, Tables
    <2> HIDE DEF more
    <2>3. new = [k \in kept |-> old[k]]
      BY <2>1, <2>2 DEF WithLog, Tables
    <2>4. \A k \in DOMAIN new : k \in DOMAIN old /\ new[k] = old[k]
      BY <2>3
    <2> HIDE DEF old, new
    <2>5. \A k \in DOMAIN new : new[k].orders = 0 => new[k].gross = 0
      BY <1>1, <2>4
    <2> QED
      BY <2>5 DEF SalesHaveOrders, new
  <1>4. CASE type = "incorrect_aggregation"
    <2> DEFINE wrong(rep) == [rep EXCEPT !.net = rep.gross + rep.refunds]
    <2>1. new = [j \in DOMAIN old |-> IF j = target THEN wrong(old[j]) ELSE old[j]]
      BY <1>4 DEF Effects, AddRefunds, Typed, Tables
    <2>2. \A rep \in ReportRows : wrong(rep).orders = rep.orders /\ wrong(rep).gross = rep.gross
      BY DEF ReportRows
    <2> HIDE DEF old, new, wrong
    <2>3. \A k \in DOMAIN new :
            k \in DOMAIN old /\ new[k].orders = old[k].orders /\ new[k].gross = old[k].gross
      BY <1>2, <2>1, <2>2 DEF ReportsTyped
    <2>4. \A k \in DOMAIN new : new[k].orders = 0 => new[k].gross = 0
      BY <1>1, <2>3
    <2> QED
      BY <2>4 DEF SalesHaveOrders, new
  <1>5. CASE type \notin {"delayed_pipeline", "incorrect_aggregation"}
    <2>1. ChangesOnly(e, d, ChangedTables[type] \cup {"system_logs"})
      BY EffectsStayInManifest DEF Typed
    <2>2. "daily_revenue_report" \notin ChangedTables[type] /\ "daily_revenue_report" \in Tables
      BY <1>5 DEF Types, IncidentTypes, ChangedTables, ApiFailureTables, Tables
    <2>3. new = old
      BY <2>1, <2>2 DEF ChangesOnly
    <2> QED
      BY <2>3 DEF SalesHaveOrders
  <1> QED
    BY <1>3, <1>4, <1>5

Sourceless(d) ==
  LET reports == d.daily_revenue_report
  IN  {k \in DOMAIN reports \ DOMAIN RecomputeFromSource(d) :
         reports[k].orders + reports[k].payments + reports[k].refunds > 0}

\* Amounts that are all nothing, and a net that adds up: two ways to ask.
AskedEither(g, r, o, p, net) ==
  (g = 0 /\ r = 0 /\ net = 0 - 0 /\ o = 0 /\ p = 0) <=> (~(o + p + r > 0) /\ net = g - r)

\* A report of nothing has nothing in it, and a net revenue that adds up.
LEMMA NothingReported ==
  ASSUME NEW g \in Nat, NEW r \in Nat, NEW o \in Nat, NEW p \in Nat, NEW net \in Int,
         o = 0 => g = 0
  PROVE  AskedEither(g, r, o, p, net)
  BY DEF AskedEither

\* On any data set the validation fails exactly if one of two controls speaks or a report
\* is left without any source (simulator/validator.py, detection/reconcile.py).
LEMMA ValidationAgrees ==
  ASSUME NEW d, ReportsTyped(d.daily_revenue_report), SalesHaveOrders(d)
  PROVE  ReportReconciles(d) <=>
           /\ CausesOf(RunAllDetectors(d)) \cap {"UNKNOWN", "INCORRECT_AGGREGATION"} = {}
           /\ Sourceless(d) = {}
  <1> DEFINE reports == d.daily_revenue_report
             recomputed == RecomputeFromSource(d)
             sold(k) == {o \in d.orders : <<Date(o.at), RegionOf[o.customer]>> = k /\ ~o.cancelled}
             paid(k) == {p \in d.payments :
                           <<Date(p.at), RegionOf[p.customer]>> = k /\ p.status = "successful"}
             returned(k) == {r \in d.refunds : <<Date(r.at), RegionOf[r.customer]>> = k}
             gross(k) == SalesInUsd(sold(k), d.fx_rates)
             refunds(k) == RefundsInUsd(returned(k), d.fx_rates)
             orders(k) == Cardinality(sold(k))
             payments(k) == Cardinality(paid(k))
             Agrees(k) == /\ reports[k].gross = gross(k)
                          /\ reports[k].refunds = refunds(k)
                          /\ reports[k].net = gross(k) - refunds(k)
                          /\ reports[k].orders = orders(k)
                          /\ reports[k].payments = payments(k)
             Added(k) == reports[k].net = reports[k].gross - reports[k].refunds
  <1>1. \A k \in DOMAIN recomputed :
          /\ recomputed[k].gross = gross(k) /\ recomputed[k].refunds = refunds(k)
          /\ recomputed[k].orders = orders(k) /\ recomputed[k].payments = payments(k)
    BY DEF RecomputeFromSource
  <1>2. \A k : k \notin DOMAIN recomputed => sold(k) = {} /\ paid(k) = {} /\ returned(k) = {}
    BY DEF RecomputeFromSource
  <1>3. \A k \in DOMAIN reports :
          LET rows(table) == {row \in table : Date(row.at) = k[1] /\ RegionOf[row.customer] = k[2]}
          IN  /\ {o \in rows(d.orders) : ~o.cancelled} = sold(k)
              /\ {p \in rows(d.payments) : p.status = "successful"} = paid(k)
              /\ rows(d.refunds) = returned(k)
    <2> TAKE k \in DOMAIN reports
    <2>1. k \in Nat \X Regions
      BY DEF ReportsTyped
    <2>2. PICK a, b : k = <<a, b>>
      <3> HIDE DEF sold, paid, returned, reports
      <3> QED
        BY <2>1
    <2>3. k[1] = a /\ k[2] = b
      BY <2>2
    <2>4. \A day, region : <<day, region>> = <<a, b>> <=> day = a /\ region = b
      OBVIOUS
    <2> QED
      BY <2>2, <2>3, <2>4
  <1> HIDE DEF sold, paid, returned
  <1>4. ReportReconciles(d) <=> \A k \in DOMAIN reports : Agrees(k)
    BY <1>3 DEF ReportReconciles
  <1>5. RevenueReconciliation(d) = {} <=>
          \A k \in DOMAIN reports \cap DOMAIN recomputed : ~Disagrees(reports[k], recomputed[k])
    BY DEF RevenueReconciliation
  <1>6. IncorrectAggregation(d) = {} <=> \A k \in DOMAIN reports : Added(k)
    BY DEF IncorrectAggregation
  <1>7. CausesOf(RunAllDetectors(d)) \cap {"UNKNOWN", "INCORRECT_AGGREGATION"} = {} <=>
          RevenueReconciliation(d) = {} /\ IncorrectAggregation(d) = {}
    BY CausesAre DEF CausesOf, RunAllDetectors
  <1>8. ASSUME NEW k \in DOMAIN reports, k \in DOMAIN recomputed
        PROVE  Agrees(k) <=> ~Disagrees(reports[k], recomputed[k]) /\ Added(k)
    BY <1>1, <1>8 DEF Disagrees
  <1>9. ASSUME NEW k \in DOMAIN reports, k \notin DOMAIN recomputed
        PROVE  Agrees(k) <=> k \notin Sourceless(d) /\ Added(k)
    <2> DEFINE rep == reports[k]
    <2>1. gross(k) = 0 /\ refunds(k) = 0 /\ orders(k) = 0 /\ payments(k) = 0
      BY <1>2, <1>9, NothingInUsd, FS_EmptySet
    <2>2. /\ rep.gross \in Nat /\ rep.refunds \in Nat /\ rep.orders \in Nat /\ rep.payments \in Nat
          /\ rep.net \in Int
          /\ rep.orders = 0 => rep.gross = 0
      BY DEF ReportsTyped, ReportRows, SalesHaveOrders
    <2>3. k \in Sourceless(d) <=> rep.orders + rep.payments + rep.refunds > 0
      BY <1>9 DEF Sourceless
    <2> HIDE DEF gross, refunds, orders, payments, rep
    <2>4. AskedEither(rep.gross, rep.refunds, rep.orders, rep.payments, rep.net)
      BY <2>2, NothingReported
    <2> QED
      BY <2>1, <2>3, <2>4 DEF rep, AskedEither
  <1>10. Sourceless(d) \subseteq DOMAIN reports \ DOMAIN recomputed
    BY DEF Sourceless
  <1> HIDE DEF reports, recomputed, Agrees, Added
  <1> QED
    BY <1>4, <1>5, <1>6, <1>7, <1>8, <1>9, <1>10

\* The controls and the validation agree on the report after every injection.
THEOREM ControlsAgree == Spec => []ControlsAgreeWithValidation
  <1>1. draws \in Seeds /\ TypeInv /\ InjectedInv => ControlsAgreeWithValidation
    <2> SUFFICES ASSUME draws \in Seeds, TypeInv, InjectedInv, injected # None
                 PROVE  ReportReconciles(db) <=>
                          /\ CausesOf(alerts) \cap {"UNKNOWN", "INCORRECT_AGGREGATION"} = {}
                          /\ Sourceless(db) = {}
      BY DEF ControlsAgreeWithValidation, Sourceless
    <2>1. config \in Configs /\ injected.type \in Types
      BY DEF InjectedInv
    <2>2. Typed(Clean(config))
      BY <2>1, CleanTyped
    <2>3. SalesHaveOrders(Clean(config))
      BY <2>1, SeedsAreDrawn, CleanReports DEF SalesHaveOrders, Clean
    <2>4. SalesHaveOrders(db)
      BY <2>1, <2>2, <2>3, EffectsKeepSales DEF InjectedInv
    <2>5. ReportsTyped(db.daily_revenue_report)
      BY DEF TypeInv, Typed
    <2> QED
      BY <2>4, <2>5, ValidationAgrees DEF InjectedInv
  <1> QED
    BY <1>1, DataTypes, InjectedStays, DrawsStay, PTL

-------------------------------------------------------------------------------
(* What each control sees of the fault that it is there for.               *)

\* What a control raises is among the causes (detection/runner.py).
LEMMA RaisedIsHeard ==
  ASSUME NEW d, NEW control \in {DuplicatePayment(d), StaleFxRate(d), MissingCustomerMapping(d),
           SchemaChange(d), DelayedPipeline(d), NullContamination(d), IncorrectAggregation(d),
           ApiErrorBurst(d)},
         NEW a \in control
  PROVE  a.cause \in CausesOf(RunAllDetectors(d))
  BY DEF CausesOf, RunAllDetectors

\* The payment that is there twice has one key at two times.
LEMMA DuplicateIsSeen ==
  ASSUME NEW d, Typed(d), IsFiniteSet(d.payments), NEW target, NEW e \in Duplicate(d, target)
  PROVE  DuplicatePayment(e) # {}
  <1>1. PICK p \in d.payments :
          LET q == [p EXCEPT !.id = <<p.id[1], 1>>, !.at = @ + 2, !.status = "successful"]
          IN  /\ e = WithLog([d EXCEPT !.payments = @ \cup {q}],
                             Log(<<"dup", target>>, "payment_reconciliation_pipeline",
                                 p.at + 2, "WARN"))
    BY DEF Duplicate
  <1> DEFINE q == [p EXCEPT !.id = <<p.id[1], 1>>, !.at = @ + 2, !.status = "successful"]
             more == [d EXCEPT !.payments = @ \cup {q}]
             log == Log(<<"dup", target>>, "payment_reconciliation_pipeline", p.at + 2, "WARN")
  <1>2. p \in PaymentRows
    BY DEF Typed
  <1>3. q.key = p.key /\ q.at = p.at + 2 /\ p.at \in Nat
    BY <1>2 DEF PaymentRows, Minutes
  <1>4. q # p
    <2> DEFINE t == p.at
    <2>1. t \in Nat /\ q.at = t + 2
      BY <1>3
    <2> HIDE DEF t, q
    <2>2. t + 2 # t
      BY <2>1
    <2> QED
      BY <2>1, <2>2 DEF t
  <1>5. more.payments = d.payments \cup {q} /\ DOMAIN more = Tables
    BY DEF Typed, Tables
  <1> HIDE DEF q, more, log
  <1>6. e = WithLog(more, log)
    BY <1>1 DEF q, more, log
  <1>7. e.payments = d.payments \cup {q}
    BY <1>5, <1>6 DEF WithLog, Tables
  <1> DEFINE same == {x \in e.payments : x.key = p.key}
  <1>8. IsFiniteSet(same)
    BY <1>7, FS_AddElement, FS_Subset
  <1>9. {p, q} \subseteq same
    BY <1>3, <1>7
  <1>10. Cardinality({p, q}) = 2
    <2>1. Cardinality({p}) = 1 /\ IsFiniteSet({p})
      BY FS_Singleton
    <2>2. q \notin {p} /\ {p, q} = {p} \cup {q}
      BY <1>4
    <2>3. Cardinality({p} \cup {q}) = Cardinality({p}) + 1
      BY Zenon, <2>1, <2>2, FS_AddElement
    <2> HIDE DEF same
    <2> QED
      BY <2>1, <2>2, <2>3
  <1>11. Cardinality(same) > 1
    <2>1. Cardinality({p, q}) <= Cardinality(same) /\ Cardinality(same) \in Nat
      BY <1>8, <1>9, FS_Subset, FS_CardinalityType
    <2> HIDE DEF same
    <2> QED
      BY <1>10, <2>1
  <1>12. p.key \in DuplicateKeys(e.payments)
    <2>1. p \in e.payments
      BY <1>7
    <2> QED
      BY <1>11, <2>1 DEF DuplicateKeys
  <1> QED
    BY <1>12 DEF DuplicatePayment

\* The rate of the day before, of a currency that is converted.
LEMMA StaleFxIsSeen ==
  ASSUME NEW d, Typed(d), NEW day \in Nat, NEW currency, currency # Reporting,
         NEW e \in StaleFx(d, <<day, currency>>)
  PROVE  StaleFxRate(e) # {}
  <1> DEFINE k == <<day, currency>>
             j == <<day - 1, currency>>
             stale == [d EXCEPT !.fx_rates[k] = d.fx_rates[j]]
             log == Log(<<"stalefx">>, "fx_rate_pipeline", At(day, 0), "WARN")
  <1>1. {k, j} \subseteq DOMAIN d.fx_rates /\ e = WithLog(stale, log)
    BY DEF StaleFx
  <1>2. /\ stale.fx_rates = [d.fx_rates EXCEPT ![k] = d.fx_rates[j]]
        /\ DOMAIN stale = Tables
    BY DEF Typed, Tables
  <1> HIDE DEF stale, log
  <1>3. e.fx_rates = [d.fx_rates EXCEPT ![k] = d.fx_rates[j]]
    BY <1>1, <1>2 DEF WithLog, Tables
  <1>4. j # k
    BY day - 1 # day
  <1>5. /\ DOMAIN e.fx_rates = DOMAIN d.fx_rates
        /\ e.fx_rates[k] = d.fx_rates[j] /\ e.fx_rates[j] = d.fx_rates[j]
    <2> HIDE DEF k, j
    <2> QED
      BY <1>1, <1>3, <1>4
  <1>6. k[1] = day /\ k[2] = currency
    OBVIOUS
  <1>7. /\ k \in DOMAIN e.fx_rates /\ k[2] # Reporting /\ <<k[1] - 1, k[2]>> \in DOMAIN e.fx_rates
        /\ e.fx_rates[k] = e.fx_rates[<<k[1] - 1, k[2]>>]
    BY <1>1, <1>5, <1>6
  <1> HIDE DEF k, j
  <1> QED
    BY <1>7 DEF StaleFxRate

\* A customer at least has lost its mapping.
LEMMA MissingMappingIsSeen ==
  ASSUME NEW d, Typed(d), NEW target \in MissingMappingTargets(d),
         NEW e \in MissingMapping(d, target)
  PROVE  MissingCustomerMapping(e) # {}
  <1> DEFINE new == [c \in DOMAIN d.customers |-> IF c \in target THEN "null" ELSE d.customers[c]]
             x == [d EXCEPT !.customers = new]
  <1>1. PICK n : e = WithLog(x, Log(<<"mapping">>, "customer_mapping_pipeline", At(n, 2), "ERROR"))
    BY DEF MissingMapping
  <1>2. x.customers = new /\ DOMAIN x = Tables
    BY DEF Typed, Tables
  <1> HIDE DEF x
  <1>3. e.customers = new
    BY <1>1, <1>2 DEF WithLog, Tables
  <1>4. PICK c \in target : c \in DOMAIN d.customers
    <2>1. target \subseteq DOMAIN d.customers /\ Cardinality(target) = Sample
      BY DEF MissingMappingTargets
    <2>2. target # {}
      BY <2>1, SampleIsPositive, FS_EmptySet
    <2> QED
      BY <2>1, <2>2
  <1>5. c \in DOMAIN e.customers /\ e.customers[c] = "null"
    BY <1>3, <1>4
  <1> QED
    BY <1>5 DEF MissingCustomerMapping

\* The event is there.
LEMMA RenamedFieldIsSeen ==
  ASSUME NEW d, Typed(d), NEW target, NEW e \in RenameField(d, target)
  PROVE  SchemaChange(e) # {}
  <1> DEFINE at == At(target[2], 2)
             event == <<target[1].table, target[1].field>>
             x == [d EXCEPT
                     !.schema_events = @ \cup {event},
                     !.pipeline_runs = @ \cup {FailedRun(<<"schema", target[2]>>, "orders_ingest",
                                                         at, at)},
                     !.staging_records = @ \cup {[id |-> 0, entity |-> target[1].entity,
                                                  fields |-> {target[1].new}]}]
  <1>1. e = WithLog(x, Log(<<"schema">>, "orders_ingest", at, "ERROR"))
    BY DEF RenameField
  <1>2. x.schema_events = d.schema_events \cup {event} /\ DOMAIN x = Tables
    BY DEF Typed, Tables
  <1> HIDE DEF x, event, at
  <1>3. event \in e.schema_events
    BY <1>1, <1>2 DEF WithLog, Tables
  <1> QED
    BY <1>3 DEF SchemaChange

\* A day with orders has lost its reports.
LEMMA DelayIsSeen ==
  ASSUME NEW d, Typed(d), NEW target \in OrderDates(d), NEW e \in DelayPipeline(d, target)
  PROVE  DelayedPipeline(e) # {}
  <1> DEFINE late(r) == IF r.id = <<"revenue_aggregation_pipeline", target>>
                        THEN [r EXCEPT !.completed = CompletedLate(r.started), !.status = "delayed"]
                        ELSE r
             kept == {k \in DOMAIN d.daily_revenue_report : k[1] # target}
             runs == {late(r) : r \in d.pipeline_runs}
             reports == [k \in kept |-> d.daily_revenue_report[k]]
             more == [d EXCEPT !.pipeline_runs = runs, !.daily_revenue_report = reports]
  <1>1. e = WithLog(more, Log(<<"delay">>, "revenue_aggregation_pipeline", At(target, 19), "ERROR"))
    BY DEF DelayPipeline
  <1>2. /\ more.daily_revenue_report = reports /\ more.orders = d.orders /\ DOMAIN more = Tables
    BY DEF Typed, Tables
  <1> HIDE DEF more
  <1>3. e.daily_revenue_report = reports /\ e.orders = d.orders
    BY <1>1, <1>2 DEF WithLog, Tables
  <1>4. DOMAIN reports = kept
    OBVIOUS
  <1> HIDE DEF reports
  <1>5. target \in {Date(o.at) : o \in e.orders} \ {k[1] : k \in DOMAIN e.daily_revenue_report}
    BY <1>3, <1>4 DEF OrderDates
  <1> QED
    BY <1>5 DEF DelayedPipeline

\* The staged orders have no gross amount.
LEMMA NullsAreSeen ==
  ASSUME NEW d, Typed(d), NEW target, NEW e \in ContaminateWithNulls(d, target)
  PROVE  NullContamination(e) # {}
  <1> DEFINE row(n) == [id |-> n, entity |-> "order", fields |-> {"order_id", "currency"}]
             x == [d EXCEPT !.staging_records = @ \cup {row(n) : n \in 0 .. 7}]
  <1>1. e = WithLog(x, Log(<<"null">>, "orders_ingest", At(target, 3), "ERROR"))
    BY DEF ContaminateWithNulls
  <1>2. x.staging_records = d.staging_records \cup {row(n) : n \in 0 .. 7} /\ DOMAIN x = Tables
    BY DEF Typed, Tables
  <1> HIDE DEF x
  <1>3. row(0) \in e.staging_records
    BY <1>1, <1>2, 0 \in 0 .. 7 DEF WithLog, Tables
  <1>4. row(0).entity = "order" /\ row(0).fields = {"order_id", "currency"}
    OBVIOUS
  <1> HIDE DEF row
  <1>5. RequiredField[row(0).entity] \notin row(0).fields
    BY <1>4 DEF RequiredField
  <1> QED
    BY <1>3, <1>5 DEF NullContamination

\* Something was refunded, so that adding is not subtracting.
LEMMA WrongNetIsSeen ==
  ASSUME NEW d, Typed(d), NEW target \in AggregationTargets(d), NEW e \in AddRefunds(d, target)
  PROVE  IncorrectAggregation(e) # {}
  <1> DEFINE old == d.daily_revenue_report
             wrong(rep) == [rep EXCEPT !.net = rep.gross + rep.refunds]
             new == [j \in DOMAIN old |-> IF j = target THEN wrong(old[j]) ELSE old[j]]
             rep == old[target]
  <1>1. e.daily_revenue_report = new
    BY DEF AddRefunds, Typed, Tables
  <1>2. target \in DOMAIN old /\ rep.refunds > 0 /\ rep \in ReportRows
    BY DEF AggregationTargets, Typed, ReportsTyped
  <1> HIDE DEF rep
  <1>3. /\ rep.gross \in Nat /\ rep.refunds \in Nat
        /\ wrong(rep).gross = rep.gross /\ wrong(rep).refunds = rep.refunds
        /\ wrong(rep).net = rep.gross + rep.refunds
    BY <1>2 DEF ReportRows
  <1> HIDE DEF old, wrong
  <1>4. target \in DOMAIN new /\ new[target] = wrong(rep)
    BY <1>2 DEF rep
  <1> HIDE DEF new
  <1>5. wrong(rep).net # wrong(rep).gross - wrong(rep).refunds
    <2> DEFINE g == rep.gross
               r == rep.refunds
    <2>1. g \in Nat /\ r \in Nat /\ r > 0
      BY <1>2, <1>3
    <2> HIDE DEF g, r
    <2>2. g + r # g - r
      BY <2>1
    <2> QED
      BY <1>3, <2>2 DEF g, r
  <1> QED
    BY <1>1, <1>4, <1>5 DEF IncorrectAggregation

\* Minutes of an hour after three are of the day.
LEMMA AfterThree ==
  ASSUME NEW t \in Nat, NEW n \in 0 .. 24
  PROVE  Date(At(t, 3) + n) = t
  <1>1. t * 1440 + 180 + n \in Nat /\ (t * 1440 + 180 + n) \div 1440 = t
    OBVIOUS
  <1> QED
    BY <1>1 DEF Date, At, Day, Hour

\* Twenty-five errors of one service on one day, where there were no logs.
LEMMA ApiFailureIsSeen ==
  ASSUME NEW d, Typed(d), d.system_logs = {}, NEW target \in Nat, NEW e \in FailUpstream(d, target)
  PROVE  ApiErrorBurst(e) # {}
  <1> DEFINE at == At(target, 3)
             error(n) == Log(<<"api", n>>, "payment_provider_api", at + n, "ERROR")
             errors == {error(n) : n \in 0 .. 24}
             k == <<"payment_provider_api", target>>
             f == [n \in 0 .. 24 |-> error(n)]
  <1>1. e.system_logs = errors
    BY DEF FailUpstream, Typed, Tables
  <1>2. \A n \in 0 .. 24 : /\ error(n).level = "ERROR" /\ error(n).id = <<"api", n>>
                           /\ error(n).service = "payment_provider_api" /\ error(n).at = at + n
    BY DEF Log
  <1>3. \A n \in 0 .. 24 : Date(at + n) = target
    BY AfterThree
  <1> HIDE DEF error, at
  <1>4. f \in Bijection(0 .. 24, errors)
    <2>1. \A m, n \in 0 .. 24 : error(m) = error(n) => m = n
      <3> SUFFICES ASSUME NEW m \in 0 .. 24, NEW n \in 0 .. 24, error(m) = error(n) PROVE m = n
        OBVIOUS
      <3>1. <<"api", m>> = <<"api", n>>
        BY <1>2
      <3> QED
        BY <3>1
    <2> QED
      BY <2>1 DEF Bijection, Injection, IsInjective, Surjection
  <1>5. Cardinality(errors) = 25
    <2>1. IsFiniteSet(0 .. 24) /\ Cardinality(0 .. 24) = 25
      <3>1. /\ IsFiniteSet(0 .. 24)
            /\ Cardinality(0 .. 24) = IF 0 > 24 THEN 0 ELSE 24 - 0 + 1
        BY FS_Interval, 0 \in Int, 24 \in Int
      <3> QED
        BY <3>1
    <2>2. ExistsBijection(0 .. 24, errors)
      BY <1>4 DEF ExistsBijection
    <2> HIDE DEF errors
    <2> QED
      BY <2>1, <2>2, FS_Bijection
  <1>6. \A l \in errors : l.level = "ERROR" /\ <<l.service, Date(l.at)>> = k
    BY <1>2, <1>3
  <1>7. errors # {}
    BY 0 \in 0 .. 24
  <1> HIDE DEF errors, k
  <1>8. {l \in {x \in errors : x.level = "ERROR"} : <<l.service, Date(l.at)>> = k} = errors
    BY <1>6
  <1>9. /\ k \in {<<l.service, Date(l.at)>> : l \in {x \in errors : x.level = "ERROR"}}
        /\ Cardinality(errors) >= Threshold
    BY <1>5, <1>6, <1>7 DEF Threshold
  <1> DEFINE raised == {x \in errors : x.level = "ERROR"}
             of(j) == {l \in raised : <<l.service, Date(l.at)>> = j}
             bursts == {j \in {<<l.service, Date(l.at)>> : l \in raised} :
                          Cardinality(of(j)) >= Threshold}
  <1>10. k \in bursts
    BY <1>8, <1>9
  <1>11. ApiErrorBurst(e) = {Alert(<<"system_logs", j>>, "UPSTREAM_API_FAILURE", "high") : j \in bursts}
    BY Zenon, <1>1 DEF ApiErrorBurst
  <1> HIDE DEF bursts
  <1> QED
    BY <1>10, <1>11

-------------------------------------------------------------------------------
(* The leading cause.                                                      *)

NamedIn(A) == {n \in DOMAIN AllDetectors : AllDetectors[n] \in CausesOf(A) \ {"UNKNOWN"}}

CountOf(A, n) == Cardinality({a \in A : a.cause = AllDetectors[n]})

\* Each control is listed once.
LEMMA DetectorsDiffer ==
  /\ DOMAIN AllDetectors = 1 .. 11
  /\ \A m, n \in 1 .. 11 : AllDetectors[m] = AllDetectors[n] => m = n
  BY DEF AllDetectors

\* A cause that is named alone leads, and of two the one that has as many alerts and comes
\* first (evaluation/baseline.py).
LEMMA LeadingIs ==
  ASSUME NEW A, NEW i \in 1 .. 11, NEW j \in 1 .. 11, i <= j, NamedIn(A) # {},
         NamedIn(A) \subseteq {i, j}, CountOf(A, i) \in Nat, CountOf(A, j) \in Nat
  PROVE  /\ Leading(A) \in {AllDetectors[i], AllDetectors[j]}
         /\ i \in NamedIn(A) /\ CountOf(A, i) >= CountOf(A, j) => Leading(A) = AllDetectors[i]
  <1> DEFINE named == NamedIn(A)
             count(n) == CountOf(A, n)
             Leads(n) == \A k \in named : count(n) > count(k) \/ (count(n) = count(k) /\ n <= k)
             first == CHOOSE n \in named : Leads(n)
  <1>1. Leading(A) = AllDetectors[first]
    BY DEF Leading, NamedIn, CountOf
  <1> HIDE DEF named, count
  <1>2. named # {} /\ named \subseteq {i, j} /\ count(i) \in Nat /\ count(j) \in Nat
    BY DEF named, count
  <1>3. \E n \in named : Leads(n)
    <2> DEFINE x == count(i)
               y == count(j)
    <2>1. x \in Nat /\ y \in Nat /\ i \in Nat /\ j \in Nat
      BY <1>2
    <2> HIDE DEF count
    <2>2. CASE j \notin named
      <3>1. i \in named /\ \A k \in named : k = i
        BY <1>2, <2>2
      <3>2. Leads(i)
        BY <2>1, <3>1
      <3> QED
        BY <3>1, <3>2
    <2>3. CASE i \notin named
      <3>1. j \in named /\ \A k \in named : k = j
        BY <1>2, <2>3
      <3>2. Leads(j)
        BY <2>1, <3>1
      <3> QED
        BY <3>1, <3>2
    <2>4. CASE i \in named /\ j \in named
      <3>1. \A k \in named : k = i \/ k = j
        BY <1>2
      <3>2. CASE x >= y
        <4>1. Leads(i)
          BY <2>1, <3>1, <3>2
        <4> QED
          BY <2>4, <4>1
      <3>3. CASE y > x
        <4>1. Leads(j)
          BY <2>1, <3>1, <3>3
        <4> QED
          BY <2>4, <4>1
      <3> QED
        BY <2>1, <3>2, <3>3
    <2> QED
      BY <2>2, <2>3, <2>4
  <1>4. first \in named /\ Leads(first)
    BY <1>3
  <1>5. i \in named /\ count(i) >= count(j) => first = i
    <2> SUFFICES ASSUME i \in named, count(i) >= count(j), first # i PROVE FALSE
      OBVIOUS
    <2>1. first = j /\ Leads(j)
      BY <1>2, <1>4
    <2> HIDE DEF first
    <2> QED
      BY <1>2, <2>1
  <1> HIDE DEF first
  <1> QED
    BY <1>1, <1>2, <1>4, <1>5 DEF named, count

\* The controls that speak are those of the causes (detection/detectors.py).
LEMMA WhoSpeaks ==
  ASSUME NEW e, NEW c \in CausesOf(RunAllDetectors(e))
  PROVE  \/ c = "DUPLICATE_TRANSACTION" /\ DuplicatePayment(e) # {}
         \/ c = "STALE_FX_RATE" /\ StaleFxRate(e) # {}
         \/ c = "MISSING_CUSTOMER_MAPPING" /\ MissingCustomerMapping(e) # {}
         \/ c = "SCHEMA_CONTRACT_CHANGE" /\ SchemaChange(e) # {}
         \/ c = "DELAYED_PIPELINE" /\ DelayedPipeline(e) # {}
         \/ c = "TIMEZONE_CONVERSION_ERROR" /\ TimezoneShift(e) # {}
         \/ c = "NULL_CONTAMINATION" /\ NullContamination(e) # {}
         \/ c = "PARTIAL_LOAD" /\ PartialLoad(e) # {}
         \/ c = "INCORRECT_AGGREGATION" /\ IncorrectAggregation(e) # {}
         \/ c = "UPSTREAM_API_FAILURE" /\ ApiErrorBurst(e) # {}
         \/ c = "UNKNOWN"
  <1>1. PICK a \in RunAllDetectors(e) : c = a.cause
    BY DEF CausesOf
  <1> QED
    BY <1>1, CausesAre DEF RunAllDetectors

\* The alerts of a cause are those of its control.
LEMMA AlertsByCause ==
  ASSUME NEW e
  PROVE  LET of(cause) == {a \in RunAllDetectors(e) : a.cause = cause}
         IN  /\ of("SCHEMA_CONTRACT_CHANGE") = SchemaChange(e)
             /\ of("NULL_CONTAMINATION") = NullContamination(e)
             /\ of("TIMEZONE_CONVERSION_ERROR") = TimezoneShift(e)
             /\ of("PARTIAL_LOAD") = PartialLoad(e)
  BY CausesAre DEF RunAllDetectors

-------------------------------------------------------------------------------
(* What a control reads decides whether it speaks.                         *)

\* A control that was silent is silent as long as nothing that it reads has changed.
LEMMA SilentAsBefore ==
  ASSUME NEW d, NEW e, RunAllDetectors(d) = {}
  PROVE  /\ e.payments = d.payments => DuplicatePayment(e) = {}
         /\ e.fx_rates = d.fx_rates => StaleFxRate(e) = {}
         /\ e.customers = d.customers => MissingCustomerMapping(e) = {}
         /\ e.schema_events = d.schema_events => SchemaChange(e) = {}
         /\ e.staging_records = d.staging_records => NullContamination(e) = {}
         /\ e.orders = d.orders => PartialLoad(e) = {}
         /\ e.daily_revenue_report = d.daily_revenue_report => IncorrectAggregation(e) = {}
         /\ e.system_logs = d.system_logs => ApiErrorBurst(e) = {}
  <1>1. /\ DuplicatePayment(d) = {} /\ StaleFxRate(d) = {} /\ MissingCustomerMapping(d) = {}
        /\ SchemaChange(d) = {} /\ NullContamination(d) = {} /\ PartialLoad(d) = {}
        /\ IncorrectAggregation(d) = {} /\ ApiErrorBurst(d) = {}
    BY DEF RunAllDetectors
  <1>2. e.payments = d.payments => DuplicatePayment(e) = DuplicatePayment(d)
    BY Zenon DEF DuplicatePayment
  <1>3. e.fx_rates = d.fx_rates => StaleFxRate(e) = StaleFxRate(d)
    BY Zenon DEF StaleFxRate
  <1>4. e.customers = d.customers => MissingCustomerMapping(e) = MissingCustomerMapping(d)
    BY Zenon DEF MissingCustomerMapping
  <1>5. e.schema_events = d.schema_events => SchemaChange(e) = SchemaChange(d)
    BY Zenon DEF SchemaChange
  <1>6. e.staging_records = d.staging_records => NullContamination(e) = NullContamination(d)
    BY Zenon DEF NullContamination
  <1>7. e.orders = d.orders => PartialLoad(e) = PartialLoad(d)
    BY Zenon DEF PartialLoad, OrderDates
  <1>8. e.daily_revenue_report = d.daily_revenue_report =>
          IncorrectAggregation(e) = IncorrectAggregation(d)
    BY Zenon DEF IncorrectAggregation
  <1>9. e.system_logs = d.system_logs => ApiErrorBurst(e) = ApiErrorBurst(d)
    BY Zenon DEF ApiErrorBurst
  <1> QED
    BY <1>1, <1>2, <1>3, <1>4, <1>5, <1>6, <1>7, <1>8, <1>9

\* One log is no burst.
LEMMA OneLogIsNoBurst == ASSUME NEW e, NEW l, e.system_logs = {l} PROVE ApiErrorBurst(e) = {}
  <1> DEFINE errors == {x \in {l} : x.level = "ERROR"}
             of(j) == {x \in errors : <<x.service, Date(x.at)>> = j}
             bursts == {j \in {<<x.service, Date(x.at)>> : x \in errors} :
                          Cardinality(of(j)) >= Threshold}
  <1>1. ApiErrorBurst(e) = {Alert(<<"system_logs", j>>, "UPSTREAM_API_FAILURE", "high") : j \in bursts}
    BY Zenon DEF ApiErrorBurst
  <1>2. \A j : of(j) \in SUBSET {l}
    OBVIOUS
  <1> HIDE DEF of
  <1>3. ASSUME NEW j PROVE ~(Cardinality(of(j)) >= Threshold)
    <2>1. IsFiniteSet({l}) /\ Cardinality({l}) = 1
      BY FS_Singleton
    <2>2. IsFiniteSet(of(j)) /\ Cardinality(of(j)) <= 1
      BY <1>2, <2>1, FS_Subset
    <2>3. Cardinality(of(j)) \in Nat
      BY <2>2, FS_CardinalityType
    <2> QED
      BY <2>2, <2>3 DEF Threshold
  <1>4. bursts = {}
    BY <1>3
  <1> HIDE DEF bursts
  <1> QED
    BY <1>1, <1>4

\* Fewer payments have no more keys in common.
LEMMA FewerPayments ==
  ASSUME NEW d, NEW e, RunAllDetectors(d) = {}, IsFiniteSet(d.payments), e.payments \subseteq d.payments
  PROVE  DuplicatePayment(e) = {}
  <1>1. DuplicateKeys(d.payments) = {}
    BY DEF RunAllDetectors, DuplicatePayment
  <1> DEFINE same(S, k) == {p \in S : p.key = k}
  <1>2. ASSUME NEW p \in e.payments PROVE ~(Cardinality(same(e.payments, p.key)) > 1)
    <2>1. ~(Cardinality(same(d.payments, p.key)) > 1)
      BY <1>1 DEF DuplicateKeys
    <2>2. same(e.payments, p.key) \subseteq same(d.payments, p.key) /\ same(d.payments, p.key) \subseteq d.payments
      OBVIOUS
    <2> DEFINE S == same(e.payments, p.key)
               T == same(d.payments, p.key)
    <2> HIDE DEF same
    <2>3. IsFiniteSet(T) /\ IsFiniteSet(S) /\ Cardinality(S) <= Cardinality(T)
      BY <2>2, FS_Subset
    <2>4. Cardinality(S) \in Nat /\ Cardinality(T) \in Nat
      BY <2>3, FS_CardinalityType
    <2> QED
      BY <2>1, <2>3, <2>4
  <1>3. DuplicateKeys(e.payments) = {}
    BY <1>2 DEF DuplicateKeys
  <1> QED
    BY <1>3 DEF DuplicatePayment

ReportedDays(d) == {k[1] : k \in DOMAIN d.daily_revenue_report}

\* No run is late and every day has a report.
LEMMA InTime ==
  ASSUME NEW d, NEW e, RunAllDetectors(d) = {},
         \A r \in e.pipeline_runs : r \in d.pipeline_runs
           \/ (r.status = "failed" /\ ~(r.completed - r.started > MaxDuration)),
         OrderDates(e) \subseteq ReportedDays(e)
  PROVE  DelayedPipeline(e) = {}
  <1> DEFINE late(x) == {r \in x.pipeline_runs : r.status \in {"delayed", "running"}
                                                 \/ r.completed - r.started > MaxDuration}
             unreported == OrderDates(e) \ ReportedDays(e)
  <1>1. late(d) = {}
    <2>1. DelayedPipeline(d) = {}
      BY DEF RunAllDetectors
    <2> QED
      BY <2>1 DEF DelayedPipeline
  <1>2. late(e) = {}
    BY <1>1
  <1>3. DelayedPipeline(e) =
          {Alert(<<"pipeline_run", r.id>>, "DELAYED_PIPELINE", "medium") : r \in late(e)}
            \cup {Alert(<<"daily_revenue_report", n>>, "DELAYED_PIPELINE", "medium") : n \in unreported}
    BY Zenon DEF DelayedPipeline, OrderDates, ReportedDays
  <1>4. unreported = {}
    OBVIOUS
  <1> HIDE DEF late, unreported
  <1> QED
    BY <1>2, <1>3, <1>4

\* Where nothing was delayed, every day with orders has a report.
LEMMA DaysAreReported ==
  ASSUME NEW d, RunAllDetectors(d) = {}
  PROVE  OrderDates(d) \subseteq ReportedDays(d)
  <1>1. DelayedPipeline(d) = {}
    BY DEF RunAllDetectors
  <1>2. {Date(o.at) : o \in d.orders} \ {k[1] : k \in DOMAIN d.daily_revenue_report} = {}
    BY <1>1 DEF DelayedPipeline
  <1> QED
    BY <1>2 DEF OrderDates, ReportedDays

SoldAt(orders, k) == {o \in orders : <<Date(o.at), RegionOf[o.customer]>> = k /\ ~o.cancelled}

\* No source has more orders than its report, so nothing has moved to another day.
LEMMA NothingMoved ==
  ASSUME NEW e,
         \A k \in DOMAIN e.daily_revenue_report :
           /\ e.daily_revenue_report[k].orders \in Nat
           /\ Cardinality(SoldAt(e.orders, k)) \in Nat
           /\ Cardinality(SoldAt(e.orders, k)) <= e.daily_revenue_report[k].orders
  PROVE  TimezoneShift(e) = {}
  <1> DEFINE recomputed == RecomputeFromSource(e)
             reports == e.daily_revenue_report
             diff(k) == reports[k].orders - recomputed[k].orders
  <1>1. \A k \in DOMAIN recomputed : recomputed[k].orders = Cardinality(SoldAt(e.orders, k))
    BY DEF RecomputeFromSource, SoldAt
  <1>2. \A k \in DOMAIN recomputed \cap DOMAIN reports : ~(diff(k) < 0)
    <2> SUFFICES ASSUME NEW k \in DOMAIN recomputed \cap DOMAIN reports PROVE ~(diff(k) < 0)
      OBVIOUS
    <2> DEFINE m == reports[k].orders
               n == recomputed[k].orders
    <2>1. m \in Nat /\ n \in Nat /\ n <= m
      BY <1>1
    <2> HIDE DEF m, n
    <2>2. ~(m - n < 0)
      BY <2>1
    <2> QED
      BY <2>2 DEF m, n
  <1> QED
    BY <1>2 DEF TimezoneShift

-------------------------------------------------------------------------------
(* What the controls make of each injection.                               *)

\* A clean data set: the logs, events and staged records of an incident are the only ones.
Ready(d) ==
  /\ Typed(d)
  /\ IsFiniteSet(d.orders) /\ IsFiniteSet(d.payments)
  /\ IsFiniteSet(DOMAIN d.daily_revenue_report)
  /\ d.system_logs = {} /\ d.schema_events = {} /\ d.staging_records = {}
  /\ \A k \in DOMAIN d.daily_revenue_report :
       d.daily_revenue_report[k].orders = Cardinality(SoldAt(d.orders, k))

\* The generator makes such a data set.
LEMMA CleanIsReady == ASSUME draws \in Seeds, NEW c \in Configs PROVE Ready(Clean(c))
  <1> DEFINE w == draws[c]
             d == Generate(w)
             O == GenOrders(w)
             P == GenPayments(w)
             R == GenRefunds(w)
  <1>1. Drawn(w) /\ Clean(c) = d
    BY SeedsAreDrawn DEF Clean
  <1>2. /\ d.orders = O /\ d.payments = P
        /\ d.system_logs = {} /\ d.schema_events = {} /\ d.staging_records = {}
        /\ d.daily_revenue_report = GenReports(O, P, R, w.fx)
    BY DEF Generate
  <1>3. IsFiniteSet(O) /\ IsFiniteSet(P) /\ IsFiniteSet(R)
    BY <1>1, CleanOrders, CleanPayments, CleanRefunds
  <1>4. \A k \in DOMAIN d.daily_revenue_report :
          d.daily_revenue_report[k].orders = Cardinality(SoldAt(d.orders, k))
    BY <1>1, CleanReportAgrees DEF SoldAt
  <1> HIDE DEF d, O, P, R
  <1>5. IsFiniteSet(DOMAIN d.daily_revenue_report)
    <2> DEFINE key(row) == <<Date(row.at), RegionOf[row.customer]>>
               rows == Sold(O) \cup {p \in P : p.status = "successful"} \cup R
               keys == {key(row) : row \in rows}
               f == [row \in rows |-> key(row)]
    <2>1. DOMAIN d.daily_revenue_report = keys
      BY <1>2 DEF GenReports
    <2>2. IsFiniteSet(rows)
      <3>1. Sold(O) \subseteq O /\ {p \in P : p.status = "successful"} \subseteq P
        BY DEF Sold
      <3>2. IsFiniteSet(Sold(O)) /\ IsFiniteSet({p \in P : p.status = "successful"})
        BY <1>3, <3>1, FS_Subset
      <3> QED
        BY <1>3, <3>2, FS_Union
    <2>3. f \in Surjection(rows, keys)
      <3> HIDE DEF key, rows
      <3> QED
        BY DEF Surjection
    <2> HIDE DEF rows, keys, f
    <2> QED
      BY <2>1, <2>2, <2>3, FS_Surjection
  <1> QED
    BY <1>1, <1>2, <1>3, <1>4, <1>5, CleanTyped DEF Ready

\* As long as no orders are added, and none are reported less, nothing has moved.
LEMMA NoOrdersAdded ==
  ASSUME NEW d, Ready(d), NEW e, e.orders \subseteq d.orders,
         DOMAIN e.daily_revenue_report \subseteq DOMAIN d.daily_revenue_report,
         \A k \in DOMAIN e.daily_revenue_report :
           e.daily_revenue_report[k].orders = d.daily_revenue_report[k].orders
  PROVE  TimezoneShift(e) = {}
  <1>1. ASSUME NEW k \in DOMAIN e.daily_revenue_report
        PROVE  /\ e.daily_revenue_report[k].orders \in Nat
               /\ Cardinality(SoldAt(e.orders, k)) \in Nat
               /\ Cardinality(SoldAt(e.orders, k)) <= e.daily_revenue_report[k].orders
    <2>1. e.daily_revenue_report[k].orders = Cardinality(SoldAt(d.orders, k))
      BY DEF Ready
    <2>2. SoldAt(e.orders, k) \subseteq SoldAt(d.orders, k) /\ SoldAt(d.orders, k) \subseteq d.orders
      BY DEF SoldAt
    <2>3. IsFiniteSet(SoldAt(d.orders, k))
      BY <2>2, FS_Subset DEF Ready
    <2>4. /\ IsFiniteSet(SoldAt(e.orders, k))
          /\ Cardinality(SoldAt(e.orders, k)) <= Cardinality(SoldAt(d.orders, k))
      BY <2>2, <2>3, FS_Subset
    <2> QED
      BY <2>1, <2>3, <2>4, FS_CardinalityType
  <1> QED
    BY <1>1, NothingMoved

\* Seven injectors write one log.
LEMMA LoggedOnce ==
  ASSUME NEW d, DOMAIN d = Tables, d.system_logs = {}, NEW target,
         NEW e \in UNION {Duplicate(d, target), StaleFx(d, target), MissingMapping(d, target),
                          RenameField(d, target), DelayPipeline(d, target),
                          ContaminateWithNulls(d, target), LoadPartially(d, target)}
  PROVE  \E l : e.system_logs = {l}
  <1> DEFINE Logged(x) == \E l : x.system_logs = {l}
  <1>1. ASSUME NEW x, DOMAIN x = Tables, x.system_logs = {}, NEW l PROVE Logged(WithLog(x, l))
    BY <1>1 DEF WithLog, Tables
  <1>2. CASE e \in Duplicate(d, target)
    <2>1. PICK p, q, l : e = WithLog([d EXCEPT !.payments = @ \cup {q}], l)
      BY <1>2 DEF Duplicate
    <2> DEFINE x == [d EXCEPT !.payments = @ \cup {q}]
    <2>2. DOMAIN x = Tables /\ x.system_logs = {}
      BY DEF Tables
    <2>3. e = WithLog(x, l)
      BY <2>1
    <2> HIDE DEF x, Logged
    <2>4. Logged(e)
      BY <1>1, <2>2, <2>3
    <2> QED
      BY <2>4 DEF Logged
  <1>3. CASE e \in StaleFx(d, target)
    <2>1. PICK v, l : e = WithLog([d EXCEPT !.fx_rates = v], l)
      BY <1>3 DEF StaleFx
    <2> DEFINE x == [d EXCEPT !.fx_rates = v]
    <2>2. DOMAIN x = Tables /\ x.system_logs = {}
      BY DEF Tables
    <2>3. e = WithLog(x, l)
      BY <2>1
    <2> HIDE DEF x, Logged
    <2>4. Logged(e)
      BY <1>1, <2>2, <2>3
    <2> QED
      BY <2>4 DEF Logged
  <1>4. CASE e \in MissingMapping(d, target)
    <2>1. PICK v, l : e = WithLog([d EXCEPT !.customers = v], l)
      BY <1>4 DEF MissingMapping
    <2> DEFINE x == [d EXCEPT !.customers = v]
    <2>2. DOMAIN x = Tables /\ x.system_logs = {}
      BY DEF Tables
    <2>3. e = WithLog(x, l)
      BY <2>1
    <2> HIDE DEF x, Logged
    <2>4. Logged(e)
      BY <1>1, <2>2, <2>3
    <2> QED
      BY <2>4 DEF Logged
  <1>5. CASE e \in RenameField(d, target)
    <2>1. PICK u, v, y, l : e = WithLog([d EXCEPT !.schema_events = u, !.pipeline_runs = v,
                                                  !.staging_records = y], l)
      BY <1>5 DEF RenameField
    <2> DEFINE x == [d EXCEPT !.schema_events = u, !.pipeline_runs = v, !.staging_records = y]
    <2>2. DOMAIN x = Tables /\ x.system_logs = {}
      BY DEF Tables
    <2>3. e = WithLog(x, l)
      BY <2>1
    <2> HIDE DEF x, Logged
    <2>4. Logged(e)
      BY <1>1, <2>2, <2>3
    <2> QED
      BY <2>4 DEF Logged
  <1>6. CASE e \in DelayPipeline(d, target)
    <2>1. PICK u, v, l : e = WithLog([d EXCEPT !.pipeline_runs = u, !.daily_revenue_report = v], l)
      BY <1>6 DEF DelayPipeline
    <2> DEFINE x == [d EXCEPT !.pipeline_runs = u, !.daily_revenue_report = v]
    <2>2. DOMAIN x = Tables /\ x.system_logs = {}
      BY DEF Tables
    <2>3. e = WithLog(x, l)
      BY <2>1
    <2> HIDE DEF x, Logged
    <2>4. Logged(e)
      BY <1>1, <2>2, <2>3
    <2> QED
      BY <2>4 DEF Logged
  <1>7. CASE e \in ContaminateWithNulls(d, target)
    <2>1. PICK v, l : e = WithLog([d EXCEPT !.staging_records = v], l)
      BY <1>7 DEF ContaminateWithNulls
    <2> DEFINE x == [d EXCEPT !.staging_records = v]
    <2>2. DOMAIN x = Tables /\ x.system_logs = {}
      BY DEF Tables
    <2>3. e = WithLog(x, l)
      BY <2>1
    <2> HIDE DEF x, Logged
    <2>4. Logged(e)
      BY <1>1, <2>2, <2>3
    <2> QED
      BY <2>4 DEF Logged
  <1>8. CASE e \in LoadPartially(d, target)
    <2>1. PICK u, v, y, z, l : e = WithLog([d EXCEPT !.refunds = u, !.payments = v, !.shipments = y,
                                                     !.orders = z], l)
      BY <1>8 DEF LoadPartially
    <2> DEFINE x == [d EXCEPT !.refunds = u, !.payments = v, !.shipments = y, !.orders = z]
    <2>2. DOMAIN x = Tables /\ x.system_logs = {}
      BY DEF Tables
    <2>3. e = WithLog(x, l)
      BY <2>1
    <2> HIDE DEF x, Logged
    <2>4. Logged(e)
      BY <1>1, <2>2, <2>3
    <2> QED
      BY <2>4 DEF Logged
  <1> QED
    BY <1>2, <1>3, <1>4, <1>5, <1>6, <1>7, <1>8

-------------------------------------------------------------------------------
(* Which causes an injection can lead to.                                  *)

\* Besides the given ones, no control but the reconciliation speaks.
Suspects(e, causes) == CausesOf(RunAllDetectors(e)) \subseteq causes \cup {"UNKNOWN"}

\* Without a change to orders and reports, and as long as what ran has ended in time, the
\* controls of the books are as silent as before (detection/detectors.py).
LEMMA SameBooks ==
  ASSUME NEW d, Ready(d), RunAllDetectors(d) = {}, NEW e, e.orders = d.orders,
         e.daily_revenue_report = d.daily_revenue_report,
         \A r \in e.pipeline_runs : r \in d.pipeline_runs
           \/ (r.status = "failed" /\ ~(r.completed - r.started > MaxDuration))
  PROVE  /\ DelayedPipeline(e) = {} /\ TimezoneShift(e) = {}
         /\ PartialLoad(e) = {} /\ IncorrectAggregation(e) = {}
  <1>1. OrderDates(e) \subseteq ReportedDays(e)
    <2>1. OrderDates(d) \subseteq ReportedDays(d)
      BY DaysAreReported
    <2>2. OrderDates(e) = OrderDates(d) /\ ReportedDays(e) = ReportedDays(d)
      BY DEF OrderDates, ReportedDays
    <2> QED
      BY <2>1, <2>2
  <1>2. DelayedPipeline(e) = {}
    BY <1>1, InTime
  <1>3. TimezoneShift(e) = {}
    BY NoOrdersAdded
  <1>4. PartialLoad(e) = {} /\ IncorrectAggregation(e) = {}
    BY SilentAsBefore
  <1> QED
    BY <1>2, <1>3, <1>4

\* Of the injectors that write one table and a log, only the control of that table speaks.
LEMMA OneTableIsSuspected ==
  ASSUME NEW d, Ready(d), RunAllDetectors(d) = {}, NEW target, NEW e
  PROVE  /\ e \in Duplicate(d, target) => Suspects(e, {"DUPLICATE_TRANSACTION"})
         /\ e \in StaleFx(d, target) => Suspects(e, {"STALE_FX_RATE"})
         /\ e \in MissingMapping(d, target) => Suspects(e, {"MISSING_CUSTOMER_MAPPING"})
         /\ e \in ContaminateWithNulls(d, target) => Suspects(e, {"NULL_CONTAMINATION"})
  <1> DEFINE tables == {"payments", "fx_rates", "customers", "staging_records"}
  <1>1. DOMAIN d = Tables /\ d.system_logs = {}
    BY DEF Ready, Typed
  <1>2. ASSUME NEW t \in tables, ChangesOnly(e, d, {t, "system_logs"}),
               \E l : e.system_logs = {l}
        PROVE  /\ DelayedPipeline(e) = {} /\ TimezoneShift(e) = {}
               /\ PartialLoad(e) = {} /\ IncorrectAggregation(e) = {}
               /\ ApiErrorBurst(e) = {} /\ SchemaChange(e) = {}
               /\ t # "payments" => DuplicatePayment(e) = {}
               /\ t # "fx_rates" => StaleFxRate(e) = {}
               /\ t # "customers" => MissingCustomerMapping(e) = {}
               /\ t # "staging_records" => NullContamination(e) = {}
    <2>1. /\ e.orders = d.orders /\ e.daily_revenue_report = d.daily_revenue_report
          /\ e.pipeline_runs = d.pipeline_runs /\ e.schema_events = d.schema_events
          /\ t # "payments" => e.payments = d.payments
          /\ t # "fx_rates" => e.fx_rates = d.fx_rates
          /\ t # "customers" => e.customers = d.customers
          /\ t # "staging_records" => e.staging_records = d.staging_records
      BY <1>2 DEF ChangesOnly, Tables
    <2>2. /\ DelayedPipeline(e) = {} /\ TimezoneShift(e) = {}
          /\ PartialLoad(e) = {} /\ IncorrectAggregation(e) = {}
      BY <2>1, SameBooks
    <2>3. ApiErrorBurst(e) = {}
      BY <1>2, OneLogIsNoBurst
    <2> QED
      BY <2>1, <2>2, <2>3, SilentAsBefore
  <1>3. ASSUME e \in Duplicate(d, target) PROVE Suspects(e, {"DUPLICATE_TRANSACTION"})
    <2>1. ChangesOnly(e, d, {"payments", "system_logs"})
      BY <1>1, <1>3, SmallEffects
    <2>2. \E l : e.system_logs = {l}
      BY <1>1, <1>3, LoggedOnce
    <2>3. \A c \in CausesOf(RunAllDetectors(e)) : c \in {"DUPLICATE_TRANSACTION", "UNKNOWN"}
      <3> SUFFICES ASSUME NEW c \in CausesOf(RunAllDetectors(e)) PROVE c \in {"DUPLICATE_TRANSACTION", "UNKNOWN"}
        OBVIOUS
      <3> QED
        BY <1>2, <2>1, <2>2, WhoSpeaks
    <2> QED
      BY <2>3 DEF Suspects
  <1>4. ASSUME e \in StaleFx(d, target) PROVE Suspects(e, {"STALE_FX_RATE"})
    <2>1. ChangesOnly(e, d, {"fx_rates", "system_logs"})
      BY <1>1, <1>4, SmallEffects
    <2>2. \E l : e.system_logs = {l}
      BY <1>1, <1>4, LoggedOnce
    <2>3. \A c \in CausesOf(RunAllDetectors(e)) : c \in {"STALE_FX_RATE", "UNKNOWN"}
      <3> SUFFICES ASSUME NEW c \in CausesOf(RunAllDetectors(e)) PROVE c \in {"STALE_FX_RATE", "UNKNOWN"}
        OBVIOUS
      <3> QED
        BY <1>2, <2>1, <2>2, WhoSpeaks
    <2> QED
      BY <2>3 DEF Suspects
  <1>5. ASSUME e \in MissingMapping(d, target) PROVE Suspects(e, {"MISSING_CUSTOMER_MAPPING"})
    <2>1. ChangesOnly(e, d, {"customers", "system_logs"})
      BY <1>1, <1>5, SmallEffects
    <2>2. \E l : e.system_logs = {l}
      BY <1>1, <1>5, LoggedOnce
    <2>3. \A c \in CausesOf(RunAllDetectors(e)) : c \in {"MISSING_CUSTOMER_MAPPING", "UNKNOWN"}
      <3> SUFFICES ASSUME NEW c \in CausesOf(RunAllDetectors(e)) PROVE c \in {"MISSING_CUSTOMER_MAPPING", "UNKNOWN"}
        OBVIOUS
      <3> QED
        BY <1>2, <2>1, <2>2, WhoSpeaks
    <2> QED
      BY <2>3 DEF Suspects
  <1>6. ASSUME e \in ContaminateWithNulls(d, target) PROVE Suspects(e, {"NULL_CONTAMINATION"})
    <2>1. ChangesOnly(e, d, {"staging_records", "system_logs"})
      BY <1>1, <1>6, SmallEffects
    <2>2. \E l : e.system_logs = {l}
      BY <1>1, <1>6, LoggedOnce
    <2>3. \A c \in CausesOf(RunAllDetectors(e)) : c \in {"NULL_CONTAMINATION", "UNKNOWN"}
      <3> SUFFICES ASSUME NEW c \in CausesOf(RunAllDetectors(e)) PROVE c \in {"NULL_CONTAMINATION", "UNKNOWN"}
        OBVIOUS
      <3> QED
        BY <1>2, <2>1, <2>2, WhoSpeaks
    <2> QED
      BY <2>3 DEF Suspects
  <1> QED
    BY <1>3, <1>4, <1>5, <1>6

\* A failed run that takes no more than the twenty-five minutes of an incident is not late.
LEMMA FailedInTime ==
  ASSUME NEW at \in Nat, NEW id, NEW pipeline
  PROVE  LET quick(r) == r.status = "failed" /\ ~(r.completed - r.started > MaxDuration)
         IN  quick(FailedRun(id, pipeline, at, at)) /\ quick(FailedRun(id, pipeline, at, at + 25))
  <1>1. ~(at - at > 3 * 60) /\ ~((at + 25) - at > 3 * 60)
    OBVIOUS
  <1> QED
    BY <1>1 DEF FailedRun, MaxDuration, Hour

\* A renamed field is an event of the schema, and its record one without an amount.
LEMMA RenamingIsSuspected ==
  ASSUME NEW d, Ready(d), RunAllDetectors(d) = {}, NEW target, target[2] \in Nat,
         NEW e \in RenameField(d, target)
  PROVE  Suspects(e, {"SCHEMA_CONTRACT_CHANGE", "NULL_CONTAMINATION"})
  <1> DEFINE at == At(target[2], 2)
             event == <<target[1].table, target[1].field>>
             run == FailedRun(<<"schema", target[2]>>, "orders_ingest", at, at)
             row == [id |-> 0, entity |-> target[1].entity, fields |-> {target[1].new}]
             x == [d EXCEPT !.schema_events = @ \cup {event}, !.pipeline_runs = @ \cup {run},
                            !.staging_records = @ \cup {row}]
  <1>1. DOMAIN d = Tables /\ d.system_logs = {}
    BY DEF Ready, Typed
  <1>2. e = WithLog(x, Log(<<"schema">>, "orders_ingest", at, "ERROR"))
    BY DEF RenameField
  <1>3. x.pipeline_runs = d.pipeline_runs \cup {run} /\ DOMAIN x = Tables
    BY <1>1 DEF Tables
  <1>4. at \in Nat
    BY DatesAreNat
  <1> HIDE DEF x, event, at, row
  <1>5. e.pipeline_runs = d.pipeline_runs \cup {run}
    BY <1>2, <1>3 DEF WithLog, Tables
  <1>6. run.status = "failed" /\ ~(run.completed - run.started > MaxDuration)
    BY <1>4, FailedInTime
  <1> HIDE DEF run
  <1>7. ChangesOnly(e, d, {"schema_events", "pipeline_runs", "staging_records", "system_logs"})
    BY <1>1, LargeEffects
  <1>8. /\ e.orders = d.orders /\ e.daily_revenue_report = d.daily_revenue_report
        /\ e.payments = d.payments /\ e.fx_rates = d.fx_rates /\ e.customers = d.customers
    BY <1>7 DEF ChangesOnly, Tables
  <1>9. /\ DelayedPipeline(e) = {} /\ TimezoneShift(e) = {}
        /\ PartialLoad(e) = {} /\ IncorrectAggregation(e) = {}
    BY <1>5, <1>6, <1>8, SameBooks
  <1>10. DuplicatePayment(e) = {} /\ StaleFxRate(e) = {} /\ MissingCustomerMapping(e) = {}
    BY <1>8, SilentAsBefore
  <1>11. \E l : e.system_logs = {l}
    BY <1>1, LoggedOnce
  <1>12. ApiErrorBurst(e) = {}
    BY <1>11, OneLogIsNoBurst
  <1> QED
    BY <1>9, <1>10, <1>12, WhoSpeaks DEF Suspects

\* A failure of the provider is one of logs and payments.
LEMMA UpstreamIsSuspected ==
  ASSUME NEW d, Ready(d), RunAllDetectors(d) = {}, NEW target \in Nat,
         NEW e \in FailUpstream(d, target)
  PROVE  Suspects(e, {"UPSTREAM_API_FAILURE"})
  <1> DEFINE at == At(target, 3)
             run == FailedRun(<<"api", target>>, "payment_reconciliation_pipeline", at, at + 25)
  <1>1. DOMAIN d = Tables /\ d.system_logs = {} /\ IsFiniteSet(d.payments)
    BY DEF Ready, Typed
  <1>2. e.pipeline_runs = d.pipeline_runs \cup {run} /\ e.payments \subseteq d.payments
    BY <1>1 DEF FailUpstream, Tables
  <1>3. at \in Nat
    BY DatesAreNat
  <1> HIDE DEF at
  <1>4. run.status = "failed" /\ ~(run.completed - run.started > MaxDuration)
    BY <1>3, FailedInTime
  <1> HIDE DEF run
  <1>5. ChangesOnly(e, d, {"system_logs", "pipeline_runs", "payments", "refunds"})
    BY <1>1, LargeEffects
  <1>6. /\ e.orders = d.orders /\ e.daily_revenue_report = d.daily_revenue_report
        /\ e.fx_rates = d.fx_rates /\ e.customers = d.customers
        /\ e.schema_events = d.schema_events /\ e.staging_records = d.staging_records
    BY <1>5 DEF ChangesOnly, Tables
  <1>7. /\ DelayedPipeline(e) = {} /\ TimezoneShift(e) = {}
        /\ PartialLoad(e) = {} /\ IncorrectAggregation(e) = {}
    BY <1>2, <1>4, <1>6, SameBooks
  <1>8. /\ StaleFxRate(e) = {} /\ MissingCustomerMapping(e) = {} /\ SchemaChange(e) = {}
        /\ NullContamination(e) = {}
    BY <1>6, SilentAsBefore
  <1>9. DuplicatePayment(e) = {}
    BY <1>1, <1>2, FewerPayments
  <1> QED
    BY <1>7, <1>8, <1>9, WhoSpeaks DEF Suspects

\* Fewer reports have no more wrong sums.
LEMMA FewerReports ==
  ASSUME NEW d, NEW e, RunAllDetectors(d) = {},
         DOMAIN e.daily_revenue_report \subseteq DOMAIN d.daily_revenue_report,
         \A k \in DOMAIN e.daily_revenue_report :
           e.daily_revenue_report[k] = d.daily_revenue_report[k]
  PROVE  IncorrectAggregation(e) = {}
  <1>1. IncorrectAggregation(d) = {}
    BY DEF RunAllDetectors
  <1> QED
    BY <1>1 DEF IncorrectAggregation

\* A delay is one of runs and reports.
LEMMA DelayIsSuspected ==
  ASSUME NEW d, Ready(d), RunAllDetectors(d) = {}, NEW target, NEW e \in DelayPipeline(d, target)
  PROVE  Suspects(e, {"DELAYED_PIPELINE"})
  <1> DEFINE late(r) == IF r.id = <<"revenue_aggregation_pipeline", target>>
                        THEN [r EXCEPT !.completed = CompletedLate(r.started), !.status = "delayed"]
                        ELSE r
             old == d.daily_revenue_report
             kept == {k \in DOMAIN old : k[1] # target}
             runs == {late(r) : r \in d.pipeline_runs}
             reports == [k \in kept |-> old[k]]
             more == [d EXCEPT !.pipeline_runs = runs, !.daily_revenue_report = reports]
  <1>1. DOMAIN d = Tables /\ d.system_logs = {}
    BY DEF Ready, Typed
  <1>2. e = WithLog(more, Log(<<"delay">>, "revenue_aggregation_pipeline", At(target, 19), "ERROR"))
    BY DEF DelayPipeline
  <1>3. more.daily_revenue_report = reports /\ DOMAIN more = Tables
    BY <1>1 DEF Tables
  <1>4. DOMAIN reports \subseteq DOMAIN old /\ \A k \in DOMAIN reports : reports[k] = old[k]
    OBVIOUS
  <1> HIDE DEF more, reports
  <1>5. e.daily_revenue_report = reports
    BY <1>2, <1>3 DEF WithLog, Tables
  <1>6. ChangesOnly(e, d, {"pipeline_runs", "daily_revenue_report", "system_logs"})
    BY <1>1, SmallEffects
  <1>7. /\ e.orders = d.orders /\ e.payments = d.payments
        /\ e.fx_rates = d.fx_rates /\ e.customers = d.customers
        /\ e.schema_events = d.schema_events /\ e.staging_records = d.staging_records
    BY <1>6 DEF ChangesOnly, Tables
  <1>8. TimezoneShift(e) = {}
    <2>1. \A k \in DOMAIN e.daily_revenue_report :
            e.daily_revenue_report[k].orders = d.daily_revenue_report[k].orders
      BY <1>4, <1>5
    <2>2. DOMAIN e.daily_revenue_report \subseteq DOMAIN d.daily_revenue_report
      BY <1>4, <1>5
    <2> QED
      BY <1>7, <2>1, <2>2, NoOrdersAdded
  <1>9. IncorrectAggregation(e) = {}
    BY <1>4, <1>5, FewerReports
  <1>10. /\ DuplicatePayment(e) = {} /\ StaleFxRate(e) = {} /\ MissingCustomerMapping(e) = {}
         /\ SchemaChange(e) = {} /\ NullContamination(e) = {} /\ PartialLoad(e) = {}
    BY <1>7, SilentAsBefore
  <1>11. \E l : e.system_logs = {l}
    BY <1>1, LoggedOnce
  <1>12. ApiErrorBurst(e) = {}
    BY <1>11, OneLogIsNoBurst
  <1> QED
    BY <1>8, <1>9, <1>10, <1>12, WhoSpeaks DEF Suspects

\* A wrong sum is one of the report alone.
LEMMA WrongNetIsSuspected ==
  ASSUME NEW d, Ready(d), RunAllDetectors(d) = {}, NEW target, NEW e \in AddRefunds(d, target)
  PROVE  Suspects(e, {"INCORRECT_AGGREGATION"})
  <1> DEFINE old == d.daily_revenue_report
             wrong(rep) == [rep EXCEPT !.net = rep.gross + rep.refunds]
             new == [j \in DOMAIN old |-> IF j = target THEN wrong(old[j]) ELSE old[j]]
  <1>1. DOMAIN d = Tables /\ d.system_logs = {} /\ ReportsTyped(old)
    BY DEF Ready, Typed
  <1>2. e.daily_revenue_report = new
    BY <1>1 DEF AddRefunds, Tables
  <1>3. DOMAIN new = DOMAIN old /\ \A k \in DOMAIN new : new[k].orders = old[k].orders
    BY <1>1 DEF ReportsTyped, ReportRows
  <1> HIDE DEF new, old
  <1>4. ChangesOnly(e, d, {"daily_revenue_report"})
    BY <1>1, SmallEffects
  <1>5. /\ e.orders = d.orders /\ e.payments = d.payments /\ e.pipeline_runs = d.pipeline_runs
        /\ e.fx_rates = d.fx_rates /\ e.customers = d.customers /\ e.system_logs = d.system_logs
        /\ e.schema_events = d.schema_events /\ e.staging_records = d.staging_records
    BY <1>4 DEF ChangesOnly, Tables
  <1>6. TimezoneShift(e) = {}
    BY <1>2, <1>3, <1>5, NoOrdersAdded DEF old
  <1>7. OrderDates(e) \subseteq ReportedDays(e)
    <2>1. OrderDates(d) \subseteq ReportedDays(d)
      BY DaysAreReported
    <2>2. OrderDates(e) = OrderDates(d) /\ ReportedDays(e) = ReportedDays(d)
      BY <1>2, <1>3, <1>5 DEF OrderDates, ReportedDays, old
    <2> QED
      BY <2>1, <2>2
  <1>8. DelayedPipeline(e) = {}
    BY <1>5, <1>7, InTime
  <1>9. /\ DuplicatePayment(e) = {} /\ StaleFxRate(e) = {} /\ MissingCustomerMapping(e) = {}
        /\ SchemaChange(e) = {} /\ NullContamination(e) = {} /\ PartialLoad(e) = {}
        /\ ApiErrorBurst(e) = {}
    BY <1>5, SilentAsBefore
  <1> QED
    BY <1>6, <1>8, <1>9, WhoSpeaks DEF Suspects

\* A partial load is one of orders and what belongs to them.
LEMMA PartialLoadIsSuspected ==
  ASSUME NEW d, Ready(d), RunAllDetectors(d) = {}, NEW target, NEW e \in LoadPartially(d, target)
  PROVE  Suspects(e, {"PARTIAL_LOAD"})
  <1>1. DOMAIN d = Tables /\ d.system_logs = {} /\ IsFiniteSet(d.payments)
    BY DEF Ready, Typed
  <1>2. e.orders \subseteq d.orders /\ e.payments \subseteq d.payments
    <2>1. PICK drop :
            e = WithLog([d EXCEPT !.refunds = {r \in @ : r.order \notin drop},
                                  !.payments = {p \in @ : p.order \notin drop},
                                  !.shipments = {s \in @ : s.order \notin drop},
                                  !.orders = {o \in @ : o.id \notin drop}],
                        Log(<<"partial">>, "orders_ingest", At(target, 4), "WARN"))
      BY DEF LoadPartially
    <2> QED
      BY <1>1, <2>1 DEF WithLog, Tables
  <1>3. ChangesOnly(e, d, {"orders", "payments", "refunds", "shipments", "system_logs"})
    BY <1>1, LargeEffects
  <1>4. /\ e.daily_revenue_report = d.daily_revenue_report /\ e.pipeline_runs = d.pipeline_runs
        /\ e.fx_rates = d.fx_rates /\ e.customers = d.customers
        /\ e.schema_events = d.schema_events /\ e.staging_records = d.staging_records
    BY <1>3 DEF ChangesOnly, Tables
  <1>5. TimezoneShift(e) = {}
    BY <1>2, <1>4, NoOrdersAdded
  <1>6. OrderDates(e) \subseteq ReportedDays(e)
    <2>1. OrderDates(d) \subseteq ReportedDays(d)
      BY DaysAreReported
    <2>2. OrderDates(e) \subseteq OrderDates(d) /\ ReportedDays(e) = ReportedDays(d)
      BY <1>2, <1>4 DEF OrderDates, ReportedDays
    <2> QED
      BY <2>1, <2>2
  <1>7. DelayedPipeline(e) = {}
    BY <1>4, <1>6, InTime
  <1>8. /\ StaleFxRate(e) = {} /\ MissingCustomerMapping(e) = {}
        /\ SchemaChange(e) = {} /\ NullContamination(e) = {} /\ IncorrectAggregation(e) = {}
    BY <1>4, SilentAsBefore
  <1>9. DuplicatePayment(e) = {}
    BY <1>1, <1>2, FewerPayments
  <1>10. \E l : e.system_logs = {l}
    BY <1>1, LoggedOnce
  <1>11. ApiErrorBurst(e) = {}
    BY <1>10, OneLogIsNoBurst
  <1> QED
    BY <1>5, <1>7, <1>8, <1>9, <1>11, WhoSpeaks DEF Suspects

-------------------------------------------------------------------------------
(* A shifted day.                                                          *)

\* Six hours after eight in the evening is the next day.
LEMMA SixHoursOn ==
  ASSUME NEW t \in Nat, HourOf(t) >= 20
  PROVE  Date(t + 6 * Hour) = Date(t) + 1
  <1>1. (t % 1440) \div 60 >= 20
    BY DEF HourOf, Day, Hour
  <1>2. t \div 1440 \in Nat /\ t % 1440 \in 0 .. 1439 /\ t = 1440 * (t \div 1440) + (t % 1440)
    OBVIOUS
  <1>3. ASSUME NEW q \in Nat, NEW r \in 0 .. 1439, r \div 60 >= 20
        PROVE  (1440 * q + r + 360) \div 1440 = q + 1
    <2>1. r >= 1200
      BY <1>3
    <2> QED
      BY <2>1
  <1>4. (t + 360) \div 1440 = t \div 1440 + 1
    BY <1>1, <1>2, <1>3
  <1> QED
    BY <1>4 DEF Date, Day, Hour

Shifted(d, target) == {[o EXCEPT !.at = @ + 6 * Hour] : o \in Late(d, target)}

\* What is moved is moved to the next day (incidents/injectors.py).
LEMMA ShiftedToNextDay ==
  ASSUME NEW d, Typed(d), NEW target, NEW o \in Shifted(d, target)
  PROVE  Date(o.at) = target + 1
  <1>1. PICK x \in Late(d, target) : o = [x EXCEPT !.at = x.at + 6 * Hour]
    BY DEF Shifted
  <1>2. x \in OrderRows /\ HourOf(x.at) >= 20 /\ Date(x.at) = target
    BY DEF Late, Typed
  <1>3. x.at \in Nat /\ o.at = x.at + 6 * Hour
    BY <1>1, <1>2 DEF OrderRows, Minutes
  <1> QED
    BY <1>2, <1>3, SixHoursOn

\* If the control of time zones speaks, there is a report of the next day, so that the one of
\* late pipelines is silent.
LEMMA ShiftIsTimely ==
  ASSUME NEW d, Ready(d), RunAllDetectors(d) = {}, NEW target, NEW e \in ShiftTimezone(d, target),
         TimezoneShift(e) # {}
  PROVE  DelayedPipeline(e) = {}
  <1>1. DOMAIN d = Tables /\ Typed(d)
    BY DEF Ready, Typed
  <1>2. ChangesOnly(e, d, {"orders"})
    BY <1>1, SmallEffects
  <1>3. e.orders \subseteq d.orders \cup Shifted(d, target)
    BY <1>1 DEF ShiftTimezone, Shifted, Tables
  <1>4. e.daily_revenue_report = d.daily_revenue_report /\ e.pipeline_runs = d.pipeline_runs
    BY <1>2 DEF ChangesOnly, Tables
  <1>5. target + 1 \in ReportedDays(d)
    <2> SUFFICES ASSUME target + 1 \notin ReportedDays(d) PROVE TimezoneShift(e) = {}
      OBVIOUS
    <2>1. ASSUME NEW k \in DOMAIN e.daily_revenue_report
          PROVE  SoldAt(e.orders, k) \subseteq SoldAt(d.orders, k)
      <3>1. k[1] # target + 1
        BY <1>4, <2>1 DEF ReportedDays
      <3>2. \A o \in SoldAt(e.orders, k) : o \in e.orders /\ Date(o.at) = k[1]
        BY DEF SoldAt
      <3>3. \A o \in SoldAt(e.orders, k) : o \in d.orders
        BY <1>1, <1>3, <3>1, <3>2, ShiftedToNextDay
      <3> QED
        BY <3>3 DEF SoldAt
    <2>2. ASSUME NEW k \in DOMAIN e.daily_revenue_report
          PROVE  /\ e.daily_revenue_report[k].orders \in Nat
                 /\ Cardinality(SoldAt(e.orders, k)) \in Nat
                 /\ Cardinality(SoldAt(e.orders, k)) <= e.daily_revenue_report[k].orders
      <3>1. e.daily_revenue_report[k].orders = Cardinality(SoldAt(d.orders, k))
        BY <1>4 DEF Ready
      <3>2. SoldAt(d.orders, k) \subseteq d.orders
        BY DEF SoldAt
      <3>3. IsFiniteSet(SoldAt(d.orders, k))
        BY <3>2, FS_Subset DEF Ready
      <3>4. /\ IsFiniteSet(SoldAt(e.orders, k))
            /\ Cardinality(SoldAt(e.orders, k)) <= Cardinality(SoldAt(d.orders, k))
        BY <2>1, <3>3, FS_Subset
      <3> QED
        BY <3>1, <3>3, <3>4, FS_CardinalityType
    <2> QED
      BY <2>2, NothingMoved
  <1>6. OrderDates(e) \subseteq ReportedDays(e)
    <2>1. OrderDates(d) \subseteq ReportedDays(d)
      BY DaysAreReported
    <2>2. OrderDates(e) \subseteq OrderDates(d) \cup {target + 1}
      BY <1>1, <1>3, ShiftedToNextDay DEF OrderDates
    <2>3. ReportedDays(e) = ReportedDays(d)
      BY <1>4 DEF ReportedDays
    <2> QED
      BY <1>5, <2>1, <2>2, <2>3
  <1> QED
    BY <1>4, <1>6, InTime

\* A shift that is seen is one of orders: of days that lost some and gained some, and of days
\* that have become thin.
LEMMA ShiftIsSuspected ==
  ASSUME NEW d, Ready(d), RunAllDetectors(d) = {}, NEW target, NEW e \in ShiftTimezone(d, target),
         TimezoneShift(e) # {}
  PROVE  Suspects(e, {"TIMEZONE_CONVERSION_ERROR", "PARTIAL_LOAD"})
  <1>1. DOMAIN d = Tables
    BY DEF Ready, Typed
  <1>2. ChangesOnly(e, d, {"orders"})
    BY <1>1, SmallEffects
  <1>3. /\ e.daily_revenue_report = d.daily_revenue_report /\ e.payments = d.payments
        /\ e.fx_rates = d.fx_rates /\ e.customers = d.customers /\ e.system_logs = d.system_logs
        /\ e.schema_events = d.schema_events /\ e.staging_records = d.staging_records
    BY <1>2 DEF ChangesOnly, Tables
  <1>4. DelayedPipeline(e) = {}
    BY ShiftIsTimely
  <1>5. /\ DuplicatePayment(e) = {} /\ StaleFxRate(e) = {} /\ MissingCustomerMapping(e) = {}
        /\ SchemaChange(e) = {} /\ NullContamination(e) = {} /\ IncorrectAggregation(e) = {}
        /\ ApiErrorBurst(e) = {}
    BY <1>3, SilentAsBefore
  <1> QED
    BY <1>4, <1>5, WhoSpeaks DEF Suspects

-------------------------------------------------------------------------------
(* The fault leads.                                                        *)

\* The shifted days and the thin days can be counted.
LEMMA ShiftAlertsAreCounted ==
  ASSUME NEW e, IsFiniteSet(DOMAIN e.daily_revenue_report), IsFiniteSet(e.orders)
  PROVE  Cardinality(TimezoneShift(e)) \in Nat /\ Cardinality(PartialLoad(e)) \in Nat
  <1>1. Cardinality(TimezoneShift(e)) \in Nat
    <2> DEFINE reports == DOMAIN e.daily_revenue_report
               alert(k) == Alert(<<"daily_revenue_report", k>>, "TIMEZONE_CONVERSION_ERROR", "medium")
               f == [k \in reports |-> alert(k)]
               A == {alert(k) : k \in reports}
    <2>1. TimezoneShift(e) \subseteq A
      BY DEF TimezoneShift
    <2> HIDE DEF alert, reports
    <2>2. f \in Surjection(reports, A)
      BY DEF Surjection
    <2>3. IsFiniteSet(reports)
      BY DEF reports
    <2> HIDE DEF A, f
    <2>4. IsFiniteSet(A)
      BY <2>2, <2>3, FS_Surjection
    <2> QED
      BY <2>1, <2>4, FS_Subset, FS_CardinalityType
  <1>2. Cardinality(PartialLoad(e)) \in Nat
    <2> DEFINE orders == e.orders
               alert(o) == Alert(<<"orders", Date(o.at)>>, "PARTIAL_LOAD", "high")
               f == [o \in orders |-> alert(o)]
               A == {alert(o) : o \in orders}
    <2>1. PartialLoad(e) \subseteq A
      BY DEF PartialLoad, OrderDates
    <2> HIDE DEF alert, orders
    <2>2. f \in Surjection(orders, A)
      BY DEF Surjection
    <2>3. IsFiniteSet(orders)
      BY DEF orders
    <2> HIDE DEF A, f
    <2>4. IsFiniteSet(A)
      BY <2>2, <2>3, FS_Surjection
    <2> QED
      BY <2>1, <2>4, FS_Subset, FS_CardinalityType
  <1> QED
    BY <1>1, <1>2

\* One event, and one kind of staged record.
LEMMA RenamingAlertsAreCounted ==
  ASSUME NEW d, Ready(d), NEW target, NEW e \in RenameField(d, target)
  PROVE  /\ Cardinality(SchemaChange(e)) = 1
         /\ Cardinality(NullContamination(e)) \in Nat /\ Cardinality(NullContamination(e)) <= 1
  <1> DEFINE at == At(target[2], 2)
             event == <<target[1].table, target[1].field>>
             run == FailedRun(<<"schema", target[2]>>, "orders_ingest", at, at)
             row == [id |-> 0, entity |-> target[1].entity, fields |-> {target[1].new}]
             x == [d EXCEPT !.schema_events = @ \cup {event}, !.pipeline_runs = @ \cup {run},
                            !.staging_records = @ \cup {row}]
  <1>1. DOMAIN d = Tables /\ d.schema_events = {} /\ d.staging_records = {}
    BY DEF Ready, Typed
  <1>2. e = WithLog(x, Log(<<"schema">>, "orders_ingest", at, "ERROR"))
    BY DEF RenameField
  <1>3. x.schema_events = {event} /\ x.staging_records = {row} /\ DOMAIN x = Tables
    BY <1>1 DEF Tables
  <1> HIDE DEF x, event, at, row
  <1>4. e.schema_events = {event} /\ e.staging_records = {row}
    BY <1>2, <1>3 DEF WithLog, Tables
  <1> DEFINE one == Alert(<<"schema_event", event>>, "SCHEMA_CONTRACT_CHANGE", "high")
             two == Alert(<<"staging_records", row.entity>>, "NULL_CONTAMINATION", "medium")
  <1>5. SchemaChange(e) = {one}
    BY <1>4 DEF SchemaChange
  <1>6. NullContamination(e) \subseteq {two}
    BY <1>4 DEF NullContamination
  <1> HIDE DEF one, two
  <1>7. /\ IsFiniteSet({one}) /\ Cardinality({one}) = 1
        /\ IsFiniteSet({two}) /\ Cardinality({two}) = 1
    BY FS_Singleton
  <1>8. IsFiniteSet(NullContamination(e)) /\ Cardinality(NullContamination(e)) <= Cardinality({two})
    BY <1>6, <1>7, FS_Subset
  <1> QED
    BY <1>5, <1>7, <1>8, FS_CardinalityType

\* A cause that is suspected alone leads.
LEMMA AloneLeads ==
  ASSUME NEW A, NEW i \in 1 .. 10, AllDetectors[i] \in CausesOf(A),
         CausesOf(A) \subseteq {AllDetectors[i], "UNKNOWN"}
  PROVE  Leading(A) = AllDetectors[i]
  <1>1. AllDetectors[i] # "UNKNOWN"
    <2>1. i # 11 /\ i \in 1 .. 11 /\ AllDetectors[11] = "UNKNOWN"
      BY DEF AllDetectors
    <2> QED
      BY <2>1, DetectorsDiffer, 11 \in 1 .. 11
  <1>2. NamedIn(A) = {i}
    <2>1. i \in NamedIn(A)
      BY <1>1, DetectorsDiffer, i \in 1 .. 11 DEF NamedIn
    <2>2. \A n \in NamedIn(A) : n = i
      BY DetectorsDiffer, i \in 1 .. 11 DEF NamedIn
    <2> QED
      BY <2>1, <2>2
  <1> DEFINE named == NamedIn(A)
             count(n) == CountOf(A, n)
             Leads(n) == \A k \in named : count(n) > count(k) \/ (count(n) = count(k) /\ n <= k)
             first == CHOOSE n \in named : Leads(n)
  <1>3. Leading(A) = IF named = {} THEN "UNKNOWN" ELSE AllDetectors[first]
    BY DEF Leading, NamedIn, CountOf
  <1> HIDE DEF named, count
  <1>4. named = {i}
    BY <1>2 DEF named
  <1>5. Leads(i)
    BY <1>4
  <1>6. first \in named
    BY <1>4, <1>5
  <1> HIDE DEF first
  <1> QED
    BY <1>3, <1>4, <1>6

\* What an injection of each type but two leads to is one cause (incidents/injectors.py).
LEMMA OneCauseIsSuspected ==
  ASSUME NEW d, Ready(d), RunAllDetectors(d) = {},
         NEW type \in Types \ {"schema_change", "timezone_conversion_error"},
         NEW target \in Targets(type, d), NEW e \in Effects(type, target, d)
  PROVE  \E i \in 1 .. 10 : RootCauseFor[type] = AllDetectors[i] /\ Suspects(e, {AllDetectors[i]})
  <1>1. CASE type = "duplicate_transaction"
    <2>1. Suspects(e, {"DUPLICATE_TRANSACTION"})
      BY <1>1, OneTableIsSuspected DEF Effects
    <2> QED
      BY <1>1, <2>1, 1 \in 1 .. 10 DEF RootCauseFor, AllDetectors
  <1>2. CASE type = "stale_fx_rate"
    <2>1. Suspects(e, {"STALE_FX_RATE"})
      BY <1>2, OneTableIsSuspected DEF Effects
    <2> QED
      BY <1>2, <2>1, 2 \in 1 .. 10 DEF RootCauseFor, AllDetectors
  <1>3. CASE type = "missing_customer_mapping"
    <2>1. Suspects(e, {"MISSING_CUSTOMER_MAPPING"})
      BY <1>3, OneTableIsSuspected DEF Effects
    <2> QED
      BY <1>3, <2>1, 3 \in 1 .. 10 DEF RootCauseFor, AllDetectors
  <1>4. CASE type = "delayed_pipeline"
    <2>1. Suspects(e, {"DELAYED_PIPELINE"})
      BY <1>4, DelayIsSuspected DEF Effects
    <2> QED
      BY <1>4, <2>1, 5 \in 1 .. 10 DEF RootCauseFor, AllDetectors
  <1>5. CASE type = "null_contamination"
    <2>1. Suspects(e, {"NULL_CONTAMINATION"})
      BY <1>5, OneTableIsSuspected DEF Effects
    <2> QED
      BY <1>5, <2>1, 7 \in 1 .. 10 DEF RootCauseFor, AllDetectors
  <1>6. CASE type = "partial_load"
    <2>1. Suspects(e, {"PARTIAL_LOAD"})
      BY <1>6, PartialLoadIsSuspected DEF Effects
    <2> QED
      BY <1>6, <2>1, 8 \in 1 .. 10 DEF RootCauseFor, AllDetectors
  <1>7. CASE type = "incorrect_aggregation"
    <2>1. Suspects(e, {"INCORRECT_AGGREGATION"})
      BY <1>7, WrongNetIsSuspected DEF Effects
    <2> QED
      BY <1>7, <2>1, 9 \in 1 .. 10 DEF RootCauseFor, AllDetectors
  <1>8. CASE type = "upstream_api_failure"
    <2>1. target \in Nat
      BY <1>8, TargetsTyped DEF TargetTyped, Ready
    <2>2. Suspects(e, {"UPSTREAM_API_FAILURE"})
      BY <1>8, <2>1, UpstreamIsSuspected DEF Effects
    <2> QED
      BY <1>8, <2>2, 10 \in 1 .. 10 DEF RootCauseFor, AllDetectors
  <1> QED
    BY <1>1, <1>2, <1>3, <1>4, <1>5, <1>6, <1>7, <1>8 DEF Types, IncidentTypes

\* On a clean data set without alerts, a fault that is seen leads; of a shifted day, the thin days
\* may lead instead (evaluation/baseline.py).
LEMMA FaultLeads ==
  ASSUME NEW d, Ready(d), RunAllDetectors(d) = {}, NEW type \in Types,
         NEW target \in Targets(type, d), NEW e \in Effects(type, target, d),
         RootCauseFor[type] \in CausesOf(RunAllDetectors(e))
  PROVE  \/ Leading(RunAllDetectors(e)) = RootCauseFor[type]
         \/ type = "timezone_conversion_error" /\ Leading(RunAllDetectors(e)) = "PARTIAL_LOAD"
  <1> DEFINE A == RunAllDetectors(e)
  <1>1. CASE type \notin {"schema_change", "timezone_conversion_error"}
    <2>1. PICK i \in 1 .. 10 : RootCauseFor[type] = AllDetectors[i] /\ Suspects(e, {AllDetectors[i]})
      BY <1>1, OneCauseIsSuspected
    <2>2. AllDetectors[i] \in CausesOf(A) /\ CausesOf(A) \subseteq {AllDetectors[i], "UNKNOWN"}
      BY <2>1 DEF Suspects
    <2> HIDE DEF A
    <2>3. Leading(A) = AllDetectors[i]
      BY <2>2, AloneLeads
    <2> QED
      BY <2>1, <2>3 DEF A
  <1>2. CASE type = "schema_change"
    <2>1. target[2] \in Nat /\ e \in RenameField(d, target)
      BY <1>2, TargetsTyped DEF TargetTyped, Ready, Effects
    <2>2. Suspects(e, {"SCHEMA_CONTRACT_CHANGE", "NULL_CONTAMINATION"})
      BY <2>1, RenamingIsSuspected
    <2>3. AllDetectors[4] = "SCHEMA_CONTRACT_CHANGE" /\ AllDetectors[7] = "NULL_CONTAMINATION"
      BY DEF AllDetectors
    <2>4. CountOf(A, 4) = 1 /\ CountOf(A, 7) \in Nat /\ CountOf(A, 7) <= 1
      <3>1. /\ {a \in A : a.cause = AllDetectors[4]} = SchemaChange(e)
            /\ {a \in A : a.cause = AllDetectors[7]} = NullContamination(e)
        BY <2>3, AlertsByCause
      <3> HIDE DEF A
      <3>2. /\ CountOf(A, 4) = Cardinality(SchemaChange(e))
            /\ CountOf(A, 7) = Cardinality(NullContamination(e))
        BY <3>1 DEF CountOf
      <3> QED
        BY <2>1, <3>2, RenamingAlertsAreCounted
    <2>5. RootCauseFor[type] = AllDetectors[4]
      BY <1>2, <2>3 DEF RootCauseFor
    <2>6. 4 \in NamedIn(A)
      BY <2>3, <2>5, DetectorsDiffer, 4 \in 1 .. 11 DEF NamedIn
    <2>7. NamedIn(A) \subseteq {4, 7}
      BY <2>2, <2>3, DetectorsDiffer, 4 \in 1 .. 11, 7 \in 1 .. 11 DEF NamedIn, Suspects
    <2> HIDE DEF A
    <2>8. Leading(A) = AllDetectors[4]
      BY <2>4, <2>6, <2>7, LeadingIs, 4 \in 1 .. 11, 7 \in 1 .. 11
    <2> QED
      BY <2>5, <2>8 DEF A
  <1>3. CASE type = "timezone_conversion_error"
    <2>1. e \in ShiftTimezone(d, target)
      BY <1>3 DEF Effects
    <2>2. AllDetectors[6] = "TIMEZONE_CONVERSION_ERROR" /\ AllDetectors[8] = "PARTIAL_LOAD"
      BY DEF AllDetectors
    <2>3. RootCauseFor[type] = AllDetectors[6]
      BY <1>3, <2>2 DEF RootCauseFor
    <2>4. TimezoneShift(e) # {}
      <3>1. \E a \in A : a.cause = "TIMEZONE_CONVERSION_ERROR"
        BY <2>2, <2>3 DEF CausesOf
      <3>2. {a \in A : a.cause = "TIMEZONE_CONVERSION_ERROR"} # {}
        BY <3>1
      <3> QED
        BY <3>2, AlertsByCause
    <2>5. Suspects(e, {"TIMEZONE_CONVERSION_ERROR", "PARTIAL_LOAD"})
      BY <2>1, <2>4, ShiftIsSuspected
    <2>6. CountOf(A, 6) \in Nat /\ CountOf(A, 8) \in Nat
      <3>1. IsFiniteSet(e.orders) /\ IsFiniteSet(DOMAIN e.daily_revenue_report)
        <4>1. ChangesOnly(e, d, {"orders"}) /\ DOMAIN d = Tables
          BY <2>1, SmallEffects DEF Ready, Typed
        <4>2. e.orders \subseteq d.orders \cup Shifted(d, target)
          BY <2>1, <4>1 DEF ShiftTimezone, Shifted, Tables
        <4>3. IsFiniteSet(Shifted(d, target))
          <5> DEFINE late == Late(d, target)
                     moved(o) == [o EXCEPT !.at = @ + 6 * Hour]
                     M == {moved(o) : o \in late}
                     f == [o \in late |-> moved(o)]
          <5>1. late \subseteq d.orders
            BY DEF Late
          <5>2. Shifted(d, target) = M
            BY DEF Shifted
          <5> HIDE DEF late, moved
          <5>3. f \in Surjection(late, M)
            BY DEF Surjection
          <5> HIDE DEF M, f
          <5>4. IsFiniteSet(late)
            BY <5>1, FS_Subset DEF Ready
          <5> QED
            BY <5>2, <5>3, <5>4, FS_Surjection
        <4>4. IsFiniteSet(d.orders \cup Shifted(d, target))
          BY <4>3, FS_Union DEF Ready
        <4>5. e.daily_revenue_report = d.daily_revenue_report
          BY <4>1 DEF ChangesOnly, Tables
        <4> QED
          BY <4>2, <4>4, <4>5, FS_Subset DEF Ready
      <3>2. Cardinality(TimezoneShift(e)) \in Nat /\ Cardinality(PartialLoad(e)) \in Nat
        BY <3>1, ShiftAlertsAreCounted
      <3> QED
        BY <2>2, <3>2, AlertsByCause DEF CountOf
    <2>7. 6 \in NamedIn(A)
      BY <2>2, <2>3, DetectorsDiffer, 6 \in 1 .. 11 DEF NamedIn
    <2>8. NamedIn(A) \subseteq {6, 8}
      BY <2>2, <2>5, DetectorsDiffer, 6 \in 1 .. 11, 8 \in 1 .. 11 DEF NamedIn, Suspects
    <2> HIDE DEF A
    <2>9. Leading(A) \in {AllDetectors[6], AllDetectors[8]}
      BY <2>6, <2>7, <2>8, LeadingIs, 6 \in 1 .. 11, 8 \in 1 .. 11
    <2> QED
      BY <1>3, <2>2, <2>3, <2>9 DEF A
  <1> QED
    BY <1>1, <1>2, <1>3

\* A fault that is seen where nothing was reported before leads the alerts, but for a shifted day
\* whose move makes other days thin (incidents/injectors.py, detection/detectors.py,
\* evaluation/baseline.py).
THEOREM FaultsAreNamed == Spec => []BaselineNamesTheFault
  <1>1. draws \in Seeds /\ InjectedInv => BaselineNamesTheFault
    <2> SUFFICES ASSUME draws \in Seeds, InjectedInv, injected # None, Fits,
                        Cause \in CausesOf(alerts), RunAllDetectors(Clean(config)) = {}
                 PROVE  \/ Leading(alerts) = Cause
                        \/ /\ injected.type = "timezone_conversion_error"
                           /\ Leading(alerts) = "PARTIAL_LOAD"
      BY DEF BaselineNamesTheFault
    <2> DEFINE d == Clean(config)
    <2>1. /\ config \in Configs /\ injected.type \in Types
          /\ db \in Effects(injected.type, injected.target, d)
          /\ alerts = RunAllDetectors(db) /\ injected.target \in Targets(injected.type, d)
      BY DEF InjectedInv, Fits
    <2>2. Ready(d)
      BY <2>1, CleanIsReady
    <2>3. RunAllDetectors(d) = {}
      OBVIOUS
    <2> HIDE DEF d
    <2> QED
      BY <2>1, <2>2, <2>3, FaultLeads DEF Cause
  <1> QED
    BY <1>1, InjectedStays, DrawsStay, PTL

-------------------------------------------------------------------------------
(* The median.                                                             *)

\* If more than half of the values are n and above, so is the median (statistics.median).
LEMMA MedianIsHigh ==
  ASSUME NEW D, IsFiniteSet(D), NEW B \in Nat, NEW f \in [D -> 0 .. B], NEW n \in Nat,
         2 * Cardinality({x \in D : f[x] >= n}) > Cardinality(D)
  PROVE  TwiceMedian(f) \in Nat /\ TwiceMedian(f) >= 2 * n
  <1> DEFINE N == Cardinality(D)
             C == Cardinality({x \in D : f[x] >= n})
             below(v) == Cardinality({x \in D : f[x] < v})
             upTo(v) == Cardinality({x \in D : f[x] <= v})
             Ranks(v, k) == below(v) < k /\ k <= upTo(v)
             values == {f[x] : x \in D}
             ranked(k) == CHOOSE v \in values : Ranks(v, k)
  <1>1. TwiceMedian(f) = ranked((N + 1) \div 2) + ranked(N \div 2 + 1)
    <2>1. DOMAIN f = D
      OBVIOUS
    <2> QED
      BY <2>1 DEF TwiceMedian
  <1>2. \A S \in SUBSET D : IsFiniteSet(S) /\ Cardinality(S) \in Nat /\ Cardinality(S) <= N
    BY FS_Subset, FS_CardinalityType
  <1>3. N \in Nat /\ C \in Nat /\ C <= N /\ 2 * C > N
    BY <1>2, FS_CardinalityType
  <1>4. \A v : below(v) \in Nat /\ upTo(v) \in Nat
    BY <1>2
  <1>5. N - C = below(n)
    <2> DEFINE high == {x \in D : f[x] >= n}
               low == {x \in D : f[x] < n}
    <2>1. low = D \ high
      OBVIOUS
    <2>2. high \subseteq D
      OBVIOUS
    <2> HIDE DEF high, low
    <2>3. D \cap high = high
      BY <2>2
    <2>4. Cardinality(D \ high) = Cardinality(D) - Cardinality(D \cap high)
      BY FS_Difference
    <2> QED
      BY <2>1, <2>3, <2>4 DEF high, low
  <1>6. ASSUME NEW k \in 1 .. N PROVE \E v \in values : Ranks(v, k)
    <2> DEFINE enough == {v \in Nat : k <= upTo(v)}
    <2>1. B \in enough
      <3>1. {x \in D : f[x] <= B} = D
        OBVIOUS
      <3> QED
        BY <1>3, <3>1
    <2>2. PICK v \in enough : \A u \in enough : v <= u
      BY <2>1, LeastOf
    <2>3. below(v) < k
      <3>1. CASE v = 0
        <4>1. {x \in D : f[x] < v} = {}
          BY <3>1
        <4>2. below(v) = 0
          BY <4>1, FS_EmptySet
        <4> HIDE DEF below
        <4> QED
          BY <4>2
      <3>2. CASE v # 0
        <4>1. v - 1 \in Nat /\ ~(v <= v - 1)
          BY <3>2
        <4>2. v - 1 \notin enough
          BY <2>2, <4>1
        <4>3. {x \in D : f[x] < v} = {x \in D : f[x] <= v - 1}
          BY <4>1
        <4>4. below(v) = upTo(v - 1)
          BY <4>3
        <4> HIDE DEF below, upTo
        <4> QED
          BY <1>4, <4>1, <4>2, <4>4
      <3> QED
        BY <3>1, <3>2
    <2>4. v \in values
      <3> SUFFICES ASSUME \A x \in D : f[x] # v PROVE FALSE
        OBVIOUS
      <3>1. {x \in D : f[x] < v} = {x \in D : f[x] <= v}
        OBVIOUS
      <3>2. below(v) = upTo(v)
        BY <3>1
      <3> HIDE DEF below, upTo
      <3> QED
        BY <1>4, <2>2, <2>3, <3>2
    <2> QED
      BY <2>2, <2>3, <2>4
  <1>7. ASSUME NEW k \in 1 .. N, N - C < k PROVE ranked(k) \in Nat /\ ranked(k) >= n
    <2>1. ranked(k) \in values /\ Ranks(ranked(k), k)
      BY <1>6
    <2> DEFINE v == ranked(k)
    <2>2. values \subseteq Nat
      OBVIOUS
    <2>3. v \in Nat /\ k <= upTo(v)
      BY <2>1, <2>2
    <2> HIDE DEF v
    <2>4. ASSUME v < n PROVE FALSE
      <3>1. {x \in D : f[x] <= v} \subseteq {x \in D : f[x] < n}
        BY <2>3, <2>4
      <3>2. upTo(v) <= below(n)
        BY <1>2, <3>1, FS_Subset
      <3> HIDE DEF upTo, below, C
      <3> QED
        BY <1>3, <1>4, <1>5, <1>7, <2>3, <3>2
    <2>5. v >= n
      BY <2>3, <2>4
    <2> QED
      BY <2>3, <2>5 DEF v
  <1>8. /\ (N + 1) \div 2 \in 1 .. N /\ N - C < (N + 1) \div 2
        /\ N \div 2 + 1 \in 1 .. N /\ N - C < N \div 2 + 1
    <2> HIDE DEF N, C
    <2> QED
      BY <1>3
  <1> DEFINE a == ranked((N + 1) \div 2)
             b == ranked(N \div 2 + 1)
  <1>9. a \in Nat /\ a >= n /\ b \in Nat /\ b >= n
    BY <1>7, <1>8
  <1> HIDE DEF a, b
  <1>10. a + b \in Nat /\ a + b >= 2 * n
    BY <1>9
  <1> QED
    BY <1>1, <1>10 DEF a, b

\* More than half of three, or of five and more, is lost.
LEMMA MoreThanHalf ==
  ASSUME NEW n \in Nat, n = 3 \/ n >= 5, NEW r, r = n - (7 * n) \div 10
  PROVE  r \in Nat \ {0} /\ r <= n /\ 4 * r < 2 * n
  OBVIOUS

-------------------------------------------------------------------------------
(* A load that loses most of a day.                                        *)

OrdersOf(orders, day) == {o \in orders : Date(o.at) = day}

Ids(orders) == {o.id : o \in orders}

OrdersWithout(orders, drop) == {o \in orders : o.id \notin drop}

\* No two orders have the same number.
Numbered(orders) == \A o, p \in orders : o.id = p.id => o = p

\* As many orders are lost as numbers are dropped, and those of the other days stay.
LEMMA WhatIsLeft ==
  ASSUME NEW O, IsFiniteSet(O), Numbered(O), NEW day, NEW drop \in SUBSET Ids(OrdersOf(O, day)),
         NEW left, left = OrdersWithout(O, drop)
  PROVE  /\ Cardinality(Ids(OrdersOf(O, day))) = Cardinality(OrdersOf(O, day))
         /\ Cardinality(OrdersOf(left, day)) = Cardinality(OrdersOf(O, day)) - Cardinality(drop)
         /\ \A m : m # day => OrdersOf(left, m) = OrdersOf(O, m)
  <1> DEFINE T == OrdersOf(O, day)
             gone == {o \in T : o.id \in drop}
  <1>1. T \subseteq O /\ gone \subseteq T
    BY DEF OrdersOf
  <1>2. IsFiniteSet(T) /\ IsFiniteSet(gone)
    BY <1>1, FS_Subset
  <1>3. ASSUME NEW S \in SUBSET T PROVE Cardinality(Ids(S)) = Cardinality(S)
    <2> DEFINE f == [o \in S |-> o.id]
    <2>1. \A o, p \in S : f[o] = f[p] => o = p
      BY <1>1 DEF Numbered
    <2>2. f \in Bijection(S, Ids(S))
      BY <2>1 DEF Bijection, Injection, Surjection, IsInjective, Ids
    <2> HIDE DEF f
    <2>3. ExistsBijection(S, Ids(S))
      BY <2>2 DEF ExistsBijection
    <2>4. IsFiniteSet(S)
      BY <1>2, FS_Subset
    <2> QED
      BY <2>3, <2>4, FS_Bijection
  <1>4. Ids(gone) = drop
    BY DEF Ids
  <1>5. Cardinality(gone) = Cardinality(drop)
    BY <1>1, <1>3, <1>4
  <1>6. OrdersOf(left, day) = T \ gone
    BY DEF OrdersOf, OrdersWithout
  <1>7. Cardinality(T \ gone) = Cardinality(T) - Cardinality(gone)
    <2>1. T \cap gone = gone
      BY <1>1
    <2>2. Cardinality(T \ gone) = Cardinality(T) - Cardinality(T \cap gone)
      BY <1>2, FS_Difference
    <2> QED
      BY <2>1, <2>2
  <1>8. ASSUME NEW m, m # day PROVE OrdersOf(left, m) = OrdersOf(O, m)
    <2> SUFFICES ASSUME NEW o \in O, Date(o.at) = m PROVE o.id \notin drop
      BY DEF OrdersOf, OrdersWithout
    <2>1. ASSUME o.id \in drop PROVE FALSE
      <3>1. PICK p \in T : p.id = o.id
        BY <2>1 DEF Ids
      <3>2. p = o /\ Date(p.at) = day
        BY <1>1, <3>1 DEF OrdersOf, Numbered
      <3> QED
        BY <1>8, <3>2
    <2> QED
      BY <2>1
  <1> QED
    BY <1>1, <1>3, <1>5, <1>6, <1>7, <1>8

\* The median day is not thin: more than half of the days have n orders or more, and a day
\* with less than half of n is reported (detection/detectors.py, detect_partial_load).
LEMMA ThinDayIsSeen ==
  ASSUME NEW e, IsFiniteSet(e.orders), Cardinality(OrderDates(e)) >= 5, NEW n \in Nat,
         NEW day \in OrderDates(e), 4 * Cardinality(OrdersOf(e.orders, day)) < 2 * n,
         NEW fuller \in SUBSET OrderDates(e),
         \A m \in fuller : Cardinality(OrdersOf(e.orders, m)) >= n,
         2 * Cardinality(fuller) > Cardinality(OrderDates(e))
  PROVE  PartialLoad(e) # {}
  <1> DEFINE D == OrderDates(e)
             B == Cardinality(e.orders)
             f == [m \in D |-> Cardinality(OrdersOf(e.orders, m))]
             full == {m \in D : f[m] >= n}
  <1>1. IsFiniteSet(D)
    <2> DEFINE g == [o \in e.orders |-> Date(o.at)]
    <2>1. g \in Surjection(e.orders, D)
      BY DEF Surjection, OrderDates
    <2> QED
      BY <2>1, FS_Surjection
  <1>2. B \in Nat /\ f \in [D -> 0 .. B]
    <2>1. B \in Nat
      BY FS_CardinalityType
    <2>2. ASSUME NEW m \in D PROVE Cardinality(OrdersOf(e.orders, m)) \in 0 .. B
      <3>1. OrdersOf(e.orders, m) \subseteq e.orders
        BY DEF OrdersOf
      <3>2. /\ IsFiniteSet(OrdersOf(e.orders, m))
            /\ Cardinality(OrdersOf(e.orders, m)) <= B
        BY <3>1, FS_Subset
      <3> QED
        BY <2>1, <3>2, FS_CardinalityType
    <2> QED
      BY <2>1, <2>2
  <1>3. 2 * Cardinality(full) > Cardinality(D)
    <2>1. fuller \subseteq full /\ full \subseteq D
      OBVIOUS
    <2> HIDE DEF full
    <2>2. IsFiniteSet(full) /\ Cardinality(fuller) <= Cardinality(full)
      BY <1>1, <2>1, FS_Subset
    <2>3. IsFiniteSet(fuller)
      BY <1>1, FS_Subset
    <2>4. Cardinality(full) \in Nat /\ Cardinality(fuller) \in Nat /\ Cardinality(D) \in Nat
      BY <1>1, <2>2, <2>3, FS_CardinalityType
    <2> HIDE DEF D
    <2>5. 2 * Cardinality(fuller) > Cardinality(D)
      BY DEF D
    <2> QED
      BY <2>2, <2>4, <2>5
  <1>4. TwiceMedian(f) \in Nat /\ TwiceMedian(f) >= 2 * n
    <2> HIDE DEF f, B, D
    <2>1. 2 * Cardinality({m \in D : f[m] >= n}) > Cardinality(D)
      BY <1>3
    <2> QED
      BY <1>1, <1>2, <2>1, MedianIsHigh
  <1>5. 4 * f[day] < TwiceMedian(f)
    <2> DEFINE r == f[day]
               t == TwiceMedian(f)
    <2>1. r \in Nat /\ 4 * r < 2 * n
      <3>1. r = Cardinality(OrdersOf(e.orders, day))
        OBVIOUS
      <3>2. r \in 0 .. B
        BY <1>2
      <3> HIDE DEF r, B, f
      <3> QED
        BY <1>2, <3>1, <3>2
    <2>2. t \in Nat /\ t >= 2 * n
      BY <1>4
    <2> HIDE DEF r, t
    <2>3. 4 * r < t
      BY <2>1, <2>2
    <2> QED
      BY <2>3 DEF r, t
  <1>6. PartialLoad(e) =
          {Alert(<<"orders", m>>, "PARTIAL_LOAD", "high") :
             m \in IF Cardinality(DOMAIN f) < 5 THEN {} ELSE {m \in DOMAIN f : 4 * f[m] < TwiceMedian(f)}}
    BY Zenon DEF PartialLoad, OrdersOf
  <1>7. DOMAIN f = D /\ ~(Cardinality(D) < 5)
    <2>1. Cardinality(D) \in Nat
      BY <1>1, FS_CardinalityType
    <2>2. Cardinality(D) >= 5
      OBVIOUS
    <2>3. DOMAIN f = D
      OBVIOUS
    <2> HIDE DEF D
    <2> QED
      BY <2>1, <2>2, <2>3
  <1> HIDE DEF f
  <1>8. day \in {m \in DOMAIN f : 4 * f[m] < TwiceMedian(f)}
    BY <1>5, <1>7
  <1> QED
    BY <1>6, <1>7, <1>8

\* A load of three orders, or of five and more, that others are as full as, is seen when it
\* loses seven tenths (incidents/injectors.py, PartialLoadInjector).
LEMMA LoadIsSeen ==
  ASSUME NEW d, Ready(d), Numbered(d.orders), NEW day \in OrderDates(d), ThinOnceLost(d, day),
         NEW e \in LoadPartially(d, day)
  PROVE  PartialLoad(e) # {}
  <1> DEFINE O == d.orders
             T == OrdersOf(O, day)
             ids == Ids(T)
             n == Cardinality(T)
             fuller == {m \in OrderDates(d) \ {day} : Cardinality(OrdersOf(O, m)) >= n}
  <1>1. DOMAIN d = Tables /\ IsFiniteSet(O)
    BY DEF Ready, Typed
  <1>2. PICK drop \in SUBSET ids :
          /\ Cardinality(drop) = (7 * Cardinality(ids)) \div 10
          /\ e.orders = OrdersWithout(O, drop)
    <2> DEFINE without(drop) ==
          [d EXCEPT !.refunds = {r \in @ : r.order \notin drop},
                    !.payments = {p \in @ : p.order \notin drop},
                    !.shipments = {s \in @ : s.order \notin drop},
                    !.orders = {o \in @ : o.id \notin drop}]
               log == Log(<<"partial">>, "orders_ingest", At(day, 4), "WARN")
    <2>1. LoadPartially(d, day) =
            {WithLog(without(drop), log) :
               drop \in {S \in SUBSET ids : Cardinality(S) = (7 * Cardinality(ids)) \div 10}}
      BY Zenon DEF LoadPartially, OrdersOf, Ids
    <2> HIDE DEF without
    <2>2. PICK drop \in SUBSET ids :
            /\ Cardinality(drop) = (7 * Cardinality(ids)) \div 10
            /\ e = WithLog(without(drop), log)
      BY <2>1
    <2>3. e.orders = OrdersWithout(O, drop)
      BY <1>1, <2>2 DEF WithLog, Tables, without, OrdersWithout
    <2> QED
      BY <2>2, <2>3
  <1>3. /\ Cardinality(ids) = n
        /\ Cardinality(OrdersOf(e.orders, day)) = n - Cardinality(drop)
        /\ \A m : m # day => OrdersOf(e.orders, m) = OrdersOf(O, m)
    BY <1>1, <1>2, WhatIsLeft
  <1>4. n \in Nat /\ (n = 3 \/ n >= 5)
    <2>1. T \subseteq O
      BY DEF OrdersOf
    <2>2. n \in Nat
      BY <1>1, <2>1, FS_Subset, FS_CardinalityType
    <2>3. n = 3 \/ n >= 5
      BY DEF ThinOnceLost, OrdersOf
    <2> QED
      BY <2>2, <2>3
  <1> DEFINE r == Cardinality(OrdersOf(e.orders, day))
  <1>5. r = n - (7 * n) \div 10
    BY <1>2, <1>3
  <1>6. r \in Nat \ {0} /\ 4 * r < 2 * n
    <2> HIDE DEF r, n
    <2> QED
      BY <1>4, <1>5, MoreThanHalf
  <1>7. OrdersOf(e.orders, day) # {}
    BY <1>6, FS_EmptySet
  <1>8. OrderDates(e) = OrderDates(d)
    <2>1. \A x, m : m \in OrderDates(x) <=> OrdersOf(x.orders, m) # {}
      BY DEF OrderDates, OrdersOf
    <2>2. \A m : OrdersOf(e.orders, m) # {} <=> OrdersOf(O, m) # {}
      <3>1. OrdersOf(O, day) # {}
        BY <2>1
      <3> QED
        BY <1>3, <1>7, <3>1
    <2>3. \A m : m \in OrderDates(e) <=> m \in OrderDates(d)
      BY <2>1, <2>2
    <2> QED
      BY <2>3
  <1>9. Cardinality(OrderDates(d)) >= 5 /\ 2 * Cardinality(fuller) > Cardinality(OrderDates(d))
    BY Zenon DEF ThinOnceLost, OrdersOf
  <1>10. \A m \in fuller : Cardinality(OrdersOf(e.orders, m)) >= n
    BY <1>3
  <1>11. IsFiniteSet(e.orders)
    BY <1>1, <1>2, FS_Subset DEF OrdersWithout
  <1>12. fuller \in SUBSET OrderDates(e) /\ day \in OrderDates(e)
    BY <1>8
  <1>13. /\ Cardinality(OrderDates(e)) >= 5 /\ 2 * Cardinality(fuller) > Cardinality(OrderDates(e))
         /\ 4 * Cardinality(OrdersOf(e.orders, day)) < 2 * n
    BY <1>6, <1>8, <1>9
  <1> HIDE DEF fuller, n, r
  <1> QED
    BY <1>4, <1>10, <1>11, <1>12, <1>13, ThinDayIsSeen

-------------------------------------------------------------------------------
(* A shift that counts.                                                    *)

KeyOf(row) == <<Date(row.at), RegionOf[row.customer]>>

\* The rows that make a day and region worth a row of the report.
Counted(e) == Sold(e.orders) \cup {p \in e.payments : p.status = "successful"} \cup e.refunds

\* What is computed from the source (detection/reconcile.py).
LEMMA RecomputedAre ==
  ASSUME NEW e
  PROVE  /\ \A k : k \in DOMAIN RecomputeFromSource(e) <=> \E row \in Counted(e) : KeyOf(row) = k
         /\ \A k \in DOMAIN RecomputeFromSource(e) :
              RecomputeFromSource(e)[k].orders = Cardinality(SoldAt(e.orders, k))
  <1> DEFINE sold(k) == {o \in e.orders : KeyOf(o) = k /\ ~o.cancelled}
             paid(k) == {p \in e.payments : KeyOf(p) = k /\ p.status = "successful"}
             returned(k) == {r \in e.refunds : KeyOf(r) = k}
             all == {KeyOf(row) : row \in e.orders \cup e.payments \cup e.refunds}
  <1>1. DOMAIN RecomputeFromSource(e) = {k \in all : sold(k) \cup paid(k) \cup returned(k) # {}}
    BY DEF RecomputeFromSource, KeyOf
  <1>2. \A k : (\E row \in Counted(e) : KeyOf(row) = k) <=> sold(k) \cup paid(k) \cup returned(k) # {}
    BY DEF Counted, Sold
  <1>3. \A k : sold(k) \cup paid(k) \cup returned(k) # {} => k \in all
    OBVIOUS
  <1>4. \A k \in DOMAIN RecomputeFromSource(e) :
          RecomputeFromSource(e)[k].orders = Cardinality(SoldAt(e.orders, k))
    BY DEF RecomputeFromSource, SoldAt
  <1> HIDE DEF sold, paid, returned, all
  <1> QED
    BY <1>1, <1>2, <1>3, <1>4

\* The orders of a clean data set are numbered, and what is sold is reported (generator.py).
LEMMA CleanOrdersCount ==
  ASSUME draws \in Seeds, NEW c \in Configs
  PROVE  /\ Numbered(Clean(c).orders)
         /\ \A o \in Sold(Clean(c).orders) : KeyOf(o) \in DOMAIN Clean(c).daily_revenue_report
  <1> DEFINE w == draws[c]
             O == GenOrders(w)
             P == GenPayments(w)
             R == GenRefunds(w)
  <1>1. Clean(c).orders = O /\ Clean(c).daily_revenue_report = GenReports(O, P, R, w.fx)
    BY DEF Clean, Generate
  <1>2. Numbered(O)
    <2> DEFINE row(k) == [id |-> k, customer |-> w.sales[k].customer, at |-> w.sales[k].at,
                          gross |-> w.sales[k].gross,
                          cancelled |-> w.sales[k].status = "cancelled"]
    <2>1. O = {row(k) : k \in DOMAIN w.sales}
      BY DEF GenOrders
    <2>2. \A k : row(k).id = k
      OBVIOUS
    <2> HIDE DEF row, O
    <2> QED
      BY <2>1, <2>2 DEF Numbered
  <1> HIDE DEF O, P, R
  <1>3. \A o \in Sold(O) : KeyOf(o) \in DOMAIN GenReports(O, P, R, w.fx)
    BY DEF GenReports, KeyOf
  <1> QED
    BY <1>1, <1>2, <1>3

MovedOn(o) == [o EXCEPT !.at = @ + 6 * Hour]

\* What becomes of the orders (incidents/injectors.py, TimezoneConversionInjector).
LEMMA ShiftMovesOrders ==
  ASSUME NEW d, Ready(d), NEW t, NEW e \in ShiftTimezone(d, t)
  PROVE  /\ e.orders = (d.orders \ Late(d, t)) \cup {MovedOn(o) : o \in Late(d, t)}
         /\ e.payments = d.payments /\ e.refunds = d.refunds
         /\ e.daily_revenue_report = d.daily_revenue_report
         /\ IsFiniteSet(e.orders)
         /\ \A o \in Late(d, t) :
              /\ o \in d.orders /\ KeyOf(o) = <<t, "Asia">> /\ KeyOf(MovedOn(o)) = <<t + 1, "Asia">>
              /\ MovedOn(o).id = o.id /\ MovedOn(o).cancelled = o.cancelled
  <1>1. DOMAIN d = Tables /\ Typed(d) /\ IsFiniteSet(d.orders)
    BY DEF Ready, Typed
  <1>2. ChangesOnly(e, d, {"orders"})
    BY <1>1, SmallEffects
  <1>3. /\ e.payments = d.payments /\ e.refunds = d.refunds
        /\ e.daily_revenue_report = d.daily_revenue_report
    BY <1>2 DEF ChangesOnly, Tables
  <1> DEFINE L == Late(d, t)
             M == {MovedOn(o) : o \in L}
  <1>4. e.orders = (d.orders \ L) \cup M
    BY <1>1 DEF ShiftTimezone, Tables, MovedOn
  <1>5. L \subseteq d.orders
    BY DEF Late
  <1>6. IsFiniteSet(e.orders)
    <2> DEFINE f == [o \in L |-> MovedOn(o)]
    <2>1. f \in Surjection(L, M)
      BY DEF Surjection
    <2>2. IsFiniteSet(L) /\ IsFiniteSet(d.orders \ L)
      BY <1>1, <1>5, FS_Subset
    <2> HIDE DEF L, M, f
    <2>3. IsFiniteSet(M)
      BY <2>1, <2>2, FS_Surjection
    <2> QED
      BY <1>4, <2>2, <2>3, FS_Union
  <1>7. ASSUME NEW o \in L
        PROVE  /\ KeyOf(o) = <<t, "Asia">> /\ KeyOf(MovedOn(o)) = <<t + 1, "Asia">>
               /\ MovedOn(o).id = o.id /\ MovedOn(o).cancelled = o.cancelled
    <2>1. o \in OrderRows /\ RegionOf[o.customer] = "Asia" /\ Date(o.at) = t
      BY <1>1 DEF Late, Typed
    <2>2. MovedOn(o) \in Shifted(d, t)
      BY DEF Shifted, MovedOn
    <2>3. Date(MovedOn(o).at) = t + 1
      BY <1>1, <2>2, ShiftedToNextDay
    <2>4. /\ MovedOn(o).customer = o.customer /\ MovedOn(o).id = o.id
          /\ MovedOn(o).cancelled = o.cancelled
      BY <2>1 DEF MovedOn, OrderRows
    <2> HIDE DEF L
    <2> QED
      BY <2>1, <2>3, <2>4 DEF KeyOf
  <1> QED
    BY <1>3, <1>4, <1>5, <1>6, <1>7

\* As many more on one day as fewer on the other are within the tolerance of the control.
LEMMA SameNumberIsShifted ==
  ASSUME NEW a \in Nat, NEW b \in Nat, NEW m \in Nat \ {0}
  PROVE  LET x == a - (a - m)
             y == b - (b + m)
         IN  x > 0 /\ y < 0 /\ Abs(Abs(x) - Abs(y)) <= Max({2, Abs(x) \div 2})
  <1> DEFINE q == m \div 2
  <1>1. Max({2, q}) \in {2, q} /\ \A z \in {2, q} : Max({2, q}) >= z
    <2>1. q \in Nat
      OBVIOUS
    <2> HIDE DEF q
    <2>2. \E x \in {2, q} : \A z \in {2, q} : x >= z
      BY <2>1
    <2> QED
      BY <2>2 DEF Max
  <1>2. Max({2, q}) >= 2 /\ Max({2, q}) \in Int
    BY <1>1
  <1>3. a - (a - m) = m /\ b - (b + m) = -m
    OBVIOUS
  <1>4. Abs(m) = m /\ Abs(-m) = m /\ Abs(m - m) = 0
    BY DEF Abs
  <1> DEFINE y == Max({2, q})
  <1> HIDE DEF y
  <1>5. 0 <= y
    BY <1>2 DEF y
  <1> QED
    BY <1>3, <1>4, <1>5 DEF y

\* A day and region with more orders in its report than in the source is the one that the late
\* orders of Asia have left.
LEMMA OnlyTheirDayHasFewer ==
  ASSUME NEW d, Ready(d), NEW t \in Nat, NEW e \in ShiftTimezone(d, t), NEW k,
         Cardinality(SoldAt(d.orders, k)) > Cardinality(SoldAt(e.orders, k))
  PROVE  k = <<t, "Asia">> /\ \E o \in Late(d, t) : ~o.cancelled
  <1> DEFINE before == SoldAt(d.orders, k)
             after == SoldAt(e.orders, k)
  <1>1. before \subseteq d.orders /\ after \subseteq e.orders
    BY DEF SoldAt
  <1>2. IsFiniteSet(before) /\ IsFiniteSet(after)
    <2>1. IsFiniteSet(d.orders) /\ IsFiniteSet(e.orders)
      BY ShiftMovesOrders DEF Ready
    <2> QED
      BY <1>1, <2>1, FS_Subset
  <1>3. PICK o \in before : o \notin after
    <2> SUFFICES ASSUME before \subseteq after PROVE FALSE
      OBVIOUS
    <2>1. Cardinality(before) > Cardinality(after)
      OBVIOUS
    <2> HIDE DEF before, after
    <2>2. /\ Cardinality(before) <= Cardinality(after)
          /\ Cardinality(before) \in Nat /\ Cardinality(after) \in Nat
      BY <1>2, FS_Subset, FS_CardinalityType
    <2> QED
      BY <2>1, <2>2
  <1>4. o \in d.orders /\ ~o.cancelled /\ KeyOf(o) = k /\ o \notin e.orders
    BY <1>3 DEF SoldAt, KeyOf
  <1>5. o \in Late(d, t)
    BY <1>4, ShiftMovesOrders
  <1> QED
    BY <1>4, <1>5, ShiftMovesOrders

\* As many orders as have moved are missing on one day and too many on the next.
LEMMA MovedOrdersAreCounted ==
  ASSUME NEW d, Ready(d), Numbered(d.orders), NEW t \in Nat, NEW e \in ShiftTimezone(d, t),
         \E o \in Late(d, t) : ~o.cancelled
  PROVE  LET count(x, n) == Cardinality(SoldAt(x.orders, <<n, "Asia">>))
         IN  \E m \in Nat \ {0} :
               /\ count(d, t) \in Nat /\ count(e, t) = count(d, t) - m
               /\ count(d, t + 1) \in Nat /\ count(e, t + 1) = count(d, t + 1) + m
  <1> DEFINE L == Late(d, t)
             M == {o \in L : ~o.cancelled}
             N == {MovedOn(o) : o \in M}
             k == <<t, "Asia">>
             nx == <<t + 1, "Asia">>
             m == Cardinality(M)
  <1>1. k # nx
    OBVIOUS
  <1>2. /\ e.orders = (d.orders \ L) \cup {MovedOn(o) : o \in L}
        /\ \A o \in L : /\ o \in d.orders /\ KeyOf(o) = k /\ KeyOf(MovedOn(o)) = nx
                        /\ MovedOn(o).id = o.id /\ MovedOn(o).cancelled = o.cancelled
    BY ShiftMovesOrders
  <1> HIDE DEF L, k, nx
  <1>3. SoldAt(e.orders, k) = SoldAt(d.orders, k) \ M
    <2>1. \A o : o \in SoldAt(e.orders, k) <=> o \in e.orders /\ KeyOf(o) = k /\ ~o.cancelled
      BY DEF SoldAt, KeyOf
    <2>2. \A o : o \in SoldAt(d.orders, k) <=> o \in d.orders /\ KeyOf(o) = k /\ ~o.cancelled
      BY DEF SoldAt, KeyOf
    <2>3. \A o : o \in SoldAt(e.orders, k) <=> o \in SoldAt(d.orders, k) \ M
      BY <1>1, <1>2, <2>1, <2>2
    <2> QED
      BY <2>3
  <1>4. SoldAt(e.orders, nx) = SoldAt(d.orders, nx) \cup N
    <2>1. \A o : o \in SoldAt(e.orders, nx) <=> o \in e.orders /\ KeyOf(o) = nx /\ ~o.cancelled
      BY DEF SoldAt, KeyOf
    <2>2. \A o : o \in SoldAt(d.orders, nx) <=> o \in d.orders /\ KeyOf(o) = nx /\ ~o.cancelled
      BY DEF SoldAt, KeyOf
    <2>3. \A o : o \in SoldAt(e.orders, nx) <=> o \in SoldAt(d.orders, nx) \cup N
      BY <1>1, <1>2, <2>1, <2>2
    <2> QED
      BY <2>3
  <1>5. M \subseteq SoldAt(d.orders, k)
    BY <1>2 DEF SoldAt, KeyOf
  <1>6. SoldAt(d.orders, nx) \cap N = {}
    <2> SUFFICES ASSUME NEW o \in M, MovedOn(o) \in d.orders PROVE FALSE
      BY DEF SoldAt
    <2>1. MovedOn(o) = o
      BY <1>2 DEF Numbered
    <2> QED
      BY <1>1, <1>2, <2>1
  <1>7. IsFiniteSet(SoldAt(d.orders, k)) /\ IsFiniteSet(SoldAt(d.orders, nx))
    <2>1. SoldAt(d.orders, k) \subseteq d.orders /\ SoldAt(d.orders, nx) \subseteq d.orders
      BY DEF SoldAt
    <2> QED
      BY <2>1, FS_Subset DEF Ready
  <1>8. IsFiniteSet(M) /\ m \in Nat \ {0}
    <2>1. IsFiniteSet(M)
      BY <1>5, <1>7, FS_Subset
    <2>2. M # {}
      BY DEF L
    <2> HIDE DEF M
    <2> QED
      BY <2>1, <2>2, FS_EmptySet, FS_CardinalityType
  <1>9. IsFiniteSet(N) /\ Cardinality(N) = m
    <2> DEFINE f == [o \in M |-> MovedOn(o)]
    <2>1. \A o, p \in M : f[o] = f[p] => o = p
      BY <1>2 DEF Numbered
    <2>2. f \in Bijection(M, N)
      BY <2>1 DEF Bijection, Injection, Surjection, IsInjective
    <2> HIDE DEF f
    <2>3. ExistsBijection(M, N)
      BY <2>2 DEF ExistsBijection
    <2> HIDE DEF M, N
    <2> QED
      BY <1>8, <2>3, FS_Bijection
  <1> DEFINE a == SoldAt(d.orders, k)
             b == SoldAt(d.orders, nx)
  <1> HIDE DEF M, N, a, b
  <1>10. Cardinality(a \ M) = Cardinality(a) - m
    <2>1. a \cap M = M
      BY <1>5 DEF a
    <2>2. Cardinality(a \ M) = Cardinality(a) - Cardinality(a \cap M)
      BY <1>7, FS_Difference DEF a
    <2> QED
      BY <2>1, <2>2
  <1>11. Cardinality(b \cup N) = Cardinality(b) + m
    <2>1. Cardinality(b \cup N) = Cardinality(b) + Cardinality(N) - Cardinality(b \cap N)
      BY <1>7, <1>9, FS_Union DEF b
    <2>2. Cardinality(b \cap N) = 0
      BY <1>6, FS_EmptySet DEF b
    <2>3. Cardinality(b) \in Nat
      BY <1>7, FS_CardinalityType DEF b
    <2> HIDE DEF m
    <2> QED
      BY <1>8, <1>9, <2>1, <2>2, <2>3
  <1>12. Cardinality(a) \in Nat /\ Cardinality(b) \in Nat
    BY <1>7, FS_CardinalityType DEF a, b
  <1> HIDE DEF m
  <1> QED
    BY <1>3, <1>4, <1>8, <1>10, <1>11, <1>12 DEF a, b, k, nx

\* What is reported as shifted (detection/detectors.py, detect_timezone_shift).
LEMMA ShiftedIs ==
  ASSUME NEW e
  PROVE  LET recomputed == RecomputeFromSource(e)
             reports == e.daily_revenue_report
             both == DOMAIN recomputed \cap DOMAIN reports
             diff(k) == reports[k].orders - recomputed[k].orders
         IN  TimezoneShift(e) # {} <=>
               \E k \in both :
                 LET next == <<k[1] + 1, k[2]>>
                 IN  /\ next \in both /\ diff(k) > 0 /\ diff(next) < 0
                     /\ Abs(Abs(diff(k)) - Abs(diff(next))) <= Max({2, Abs(diff(k)) \div 2})
  BY Zenon DEF TimezoneShift

\* A shift is seen exactly if it counts (incidents/injectors.py, detection/detectors.py).
LEMMA ShiftIsSeen ==
  ASSUME NEW d, Ready(d), Numbered(d.orders),
         \A o \in Sold(d.orders) : KeyOf(o) \in DOMAIN d.daily_revenue_report,
         NEW t \in Nat, NEW e \in ShiftTimezone(d, t)
  PROVE  TimezoneShift(e) # {} <=> ShiftCounts(d, t)
  <1> DEFINE L == Late(d, t)
             k == <<t, "Asia">>
             nx == <<t + 1, "Asia">>
             recomputed == RecomputeFromSource(e)
             reports == e.daily_revenue_report
             both == DOMAIN recomputed \cap DOMAIN reports
             diff(j) == reports[j].orders - recomputed[j].orders
             moving == \E o \in L : ~o.cancelled
             kept == (Sold(d.orders) \ L) \cup {p \in d.payments : p.status = "successful"} \cup d.refunds
  <1>1. /\ e.orders = (d.orders \ L) \cup {MovedOn(o) : o \in L}
        /\ e.payments = d.payments /\ e.refunds = d.refunds /\ reports = d.daily_revenue_report
        /\ \A o \in L : /\ o \in d.orders /\ KeyOf(o) = k /\ KeyOf(MovedOn(o)) = nx
                        /\ MovedOn(o).id = o.id /\ MovedOn(o).cancelled = o.cancelled
    BY ShiftMovesOrders
  <1>2. ShiftCounts(d, t) <=>
          moving /\ nx \in DOMAIN reports /\ \E row \in kept : KeyOf(row) = k
    <2>1. \A row : KeyOf(row) = k <=> Date(row.at) = t /\ RegionOf[row.customer] = "Asia"
      BY DEF KeyOf
    <2> QED
      BY <1>1, <2>1 DEF ShiftCounts
  <1>3. /\ \A j : j \in DOMAIN recomputed <=> \E row \in Counted(e) : KeyOf(row) = j
        /\ \A j \in DOMAIN recomputed : recomputed[j].orders = Cardinality(SoldAt(e.orders, j))
    BY RecomputedAre
  <1>4. k # nx
    OBVIOUS
  <1>5. \A j \in both : diff(j) = Cardinality(SoldAt(d.orders, j)) - Cardinality(SoldAt(e.orders, j))
    BY <1>1, <1>3 DEF Ready
  <1>6. \A j : Cardinality(SoldAt(d.orders, j)) \in Nat /\ Cardinality(SoldAt(e.orders, j)) \in Nat
    <2>1. IsFiniteSet(d.orders) /\ IsFiniteSet(e.orders)
      BY ShiftMovesOrders DEF Ready
    <2>2. \A j : SoldAt(d.orders, j) \subseteq d.orders /\ SoldAt(e.orders, j) \subseteq e.orders
      BY DEF SoldAt
    <2> QED
      BY <2>1, <2>2, FS_Subset, FS_CardinalityType
  <1> DEFINE shifted(j, n) == /\ diff(j) > 0 /\ diff(n) < 0
                              /\ Abs(Abs(diff(j)) - Abs(diff(n))) <= Max({2, Abs(diff(j)) \div 2})
  <1>7. TimezoneShift(e) # {} <=> \E j \in both : <<j[1] + 1, j[2]>> \in both /\ shifted(j, <<j[1] + 1, j[2]>>)
    BY Zenon, ShiftedIs
  <1>8. \A row : row \in Counted(e) <=> row \in kept \/ \E o \in L : ~o.cancelled /\ row = MovedOn(o)
    <2>1. \A row : row \in Sold(e.orders) <=>
            row \in Sold(d.orders) \ L \/ \E o \in L : ~o.cancelled /\ row = MovedOn(o)
      <3> HIDE DEF L
      <3> QED
        BY <1>1 DEF Sold
    <2> HIDE DEF L
    <2> QED
      BY <1>1, <2>1 DEF Counted
  <1>9. ASSUME TimezoneShift(e) # {} PROVE ShiftCounts(d, t)
    <2>1. PICK j \in both : <<j[1] + 1, j[2]>> \in both /\ diff(j) > 0
      <3> HIDE DEF both, diff
      <3> QED
        BY <1>7, <1>9
    <2> DEFINE p == Cardinality(SoldAt(d.orders, j))
               q == Cardinality(SoldAt(e.orders, j))
    <2>2. p > q
      <3>1. diff(j) = p - q
        BY <1>5
      <3>2. p \in Nat /\ q \in Nat
        BY <1>6
      <3> HIDE DEF diff, p, q
      <3> QED
        BY <2>1, <3>1, <3>2
    <2>3. j = k /\ moving
      BY <2>2, OnlyTheirDayHasFewer
    <2>4. nx \in both
      BY <2>1, <2>3
    <2>5. PICK row \in Counted(e) : KeyOf(row) = k
      BY <1>3, <2>3
    <2>6. row \in kept
      <3> HIDE DEF L, k, nx, kept
      <3> QED
        BY <1>1, <1>4, <1>8, <2>5
    <2> QED
      BY <1>2, <2>3, <2>4, <2>5, <2>6
  <1>10. ASSUME ShiftCounts(d, t) PROVE TimezoneShift(e) # {}
    <2>1. moving /\ nx \in DOMAIN reports /\ \E row \in kept : KeyOf(row) = k
      BY <1>2, <1>10
    <2>2. PICK o \in L : ~o.cancelled
      BY <2>1
    <2>3. k \in DOMAIN recomputed /\ nx \in DOMAIN recomputed
      <3> HIDE DEF L, k, nx, kept, recomputed
      <3> QED
        BY <1>1, <1>3, <1>8, <2>1, <2>2
    <2>4. k \in DOMAIN reports
      BY <1>1, <2>2 DEF Sold
    <2> DEFINE a == Cardinality(SoldAt(d.orders, k))
               b == Cardinality(SoldAt(d.orders, nx))
    <2>5. PICK m \in Nat \ {0} : /\ Cardinality(SoldAt(e.orders, k)) = a - m
                                 /\ Cardinality(SoldAt(e.orders, nx)) = b + m
      BY <2>2, MovedOrdersAreCounted
    <2>6. diff(k) = a - (a - m) /\ diff(nx) = b - (b + m)
      <3> HIDE DEF diff
      <3> QED
        BY <1>5, <2>1, <2>3, <2>4, <2>5
    <2>7. a \in Nat /\ b \in Nat
      BY <1>6
    <2> HIDE DEF a, b, diff
    <2>8. shifted(k, nx)
      BY <2>6, <2>7, SameNumberIsShifted
    <2>9. nx = <<k[1] + 1, k[2]>>
      OBVIOUS
    <2> HIDE DEF k, nx, shifted
    <2>10. k \in both /\ nx \in both
      BY <2>1, <2>3, <2>4
    <2> HIDE DEF both
    <2> QED
      BY <1>7, <2>8, <2>9, <2>10
  <1> QED
    BY <1>9, <1>10

\* The controls see an injected fault, but for shifts that do not count and large partial loads
\* (incidents/injectors.py, detection/detectors.py).
THEOREM FaultsAreSeen == Spec => []FaultIsSeen
  <1>1. draws \in Seeds /\ InjectedInv => FaultIsSeen
    <2> SUFFICES ASSUME draws \in Seeds, InjectedInv, injected # None, Fits PROVE FaultIsSeen
      BY DEF FaultIsSeen
    <2> DEFINE d == Clean(config)
               type == injected.type
               target == injected.target
             seen == Cause \in CausesOf(alerts)
    <2>1. /\ config \in Configs /\ type \in Types /\ db \in Effects(type, target, d)
          /\ alerts = RunAllDetectors(db) /\ target \in Targets(type, d)
      BY DEF InjectedInv, Fits
    <2>2. Typed(d) /\ IsFiniteSet(d.payments) /\ d.system_logs = {}
      <3>1. d.payments = GenPayments(draws[config]) /\ d.system_logs = {}
        BY DEF Clean, Generate
      <3> HIDE DEF d
      <3>2. IsFiniteSet(d.payments)
        BY <2>1, <3>1, SeedsAreDrawn, CleanPayments
      <3> QED
        BY <2>1, <3>1, <3>2, CleanTyped DEF d
    <2> HIDE DEF d, type, target
    <2>3. InnerDates(d) \subseteq OrderDates(d) /\ OrderDates(d) \subseteq Nat
      BY <2>2, OrderDatesAreNat
    <2>4. ASSUME type = "duplicate_transaction" PROVE seen
      <3>1. DuplicatePayment(db) # {}
        BY <2>1, <2>2, <2>4, DuplicateIsSeen DEF Effects
      <3> QED
        BY <2>1, <2>4, <3>1, CausesAre, RaisedIsHeard DEF Cause, RootCauseFor, type
    <2>5. ASSUME type = "stale_fx_rate" PROVE seen
      <3>1. PICK day \in InnerDates(d), currency \in Currencies \ {Reporting} :
              target = <<day, currency>>
        BY <2>1, <2>5 DEF Targets, StaleFxTargets
      <3>2. day \in Nat /\ currency # Reporting /\ db \in StaleFx(d, <<day, currency>>)
        BY <2>1, <2>3, <2>5, <3>1 DEF Effects
      <3>3. StaleFxRate(db) # {}
        BY <2>2, <3>2, StaleFxIsSeen
      <3> QED
        BY <2>1, <2>5, <3>3, CausesAre, RaisedIsHeard DEF Cause, RootCauseFor, type
    <2>6. ASSUME type = "missing_customer_mapping" PROVE seen
      <3>1. MissingCustomerMapping(db) # {}
        BY <2>1, <2>2, <2>6, MissingMappingIsSeen DEF Effects, Targets
      <3> QED
        BY <2>1, <2>6, <3>1, CausesAre, RaisedIsHeard DEF Cause, RootCauseFor, type
    <2>7. ASSUME type = "schema_change" PROVE seen
      <3>1. SchemaChange(db) # {}
        BY <2>1, <2>2, <2>7, RenamedFieldIsSeen DEF Effects
      <3> QED
        BY <2>1, <2>7, <3>1, CausesAre, RaisedIsHeard DEF Cause, RootCauseFor, type
    <2>8. ASSUME type = "delayed_pipeline" PROVE seen
      <3>1. DelayedPipeline(db) # {}
        BY <2>1, <2>2, <2>3, <2>8, DelayIsSeen DEF Effects, Targets, DelayedTargets
      <3> QED
        BY <2>1, <2>8, <3>1, CausesAre, RaisedIsHeard DEF Cause, RootCauseFor, type
    <2>9. ASSUME type = "null_contamination" PROVE seen
      <3>1. NullContamination(db) # {}
        BY <2>1, <2>2, <2>9, NullsAreSeen DEF Effects
      <3> QED
        BY <2>1, <2>9, <3>1, CausesAre, RaisedIsHeard DEF Cause, RootCauseFor, type
    <2>10. ASSUME type = "incorrect_aggregation" PROVE seen
      <3>1. IncorrectAggregation(db) # {}
        BY <2>1, <2>2, <2>10, WrongNetIsSeen DEF Effects, Targets
      <3> QED
        BY <2>1, <2>10, <3>1, CausesAre, RaisedIsHeard DEF Cause, RootCauseFor, type
    <2>11. ASSUME type = "upstream_api_failure" PROVE seen
      <3>1. target \in Nat
        BY <2>1, <2>3, <2>11 DEF Targets, ApiFailureTargets
      <3>2. ApiErrorBurst(db) # {}
        BY <2>1, <2>2, <2>11, <3>1, ApiFailureIsSeen DEF Effects
      <3> QED
        BY <2>1, <2>11, <3>2, CausesAre, RaisedIsHeard DEF Cause, RootCauseFor, type
    <2>12. Ready(d) /\ Numbered(d.orders)
           /\ \A o \in Sold(d.orders) : KeyOf(o) \in DOMAIN d.daily_revenue_report
      BY <2>1, CleanIsReady, CleanOrdersCount DEF d
    <2>13. ASSUME type = "timezone_conversion_error" PROVE seen <=> ShiftCounts(d, target)
      <3>1. target \in Nat /\ db \in ShiftTimezone(d, target)
        BY <2>1, <2>3, <2>13 DEF Targets, Effects, TimezoneTargets
      <3>2. TimezoneShift(db) # {} <=> ShiftCounts(d, target)
        BY <2>12, <3>1, ShiftIsSeen
      <3>3. seen <=> {a \in alerts : a.cause = "TIMEZONE_CONVERSION_ERROR"} # {}
        BY <2>13 DEF Cause, RootCauseFor, type, CausesOf
      <3> QED
        BY <2>1, <3>2, <3>3, AlertsByCause
    <2>14. ASSUME type = "partial_load", ThinOnceLost(d, target) PROVE seen
      <3>1. target \in OrderDates(d) /\ db \in LoadPartially(d, target)
        BY <2>1, <2>3, <2>14 DEF Targets, Effects, PartialLoadTargets
      <3>2. PartialLoad(db) # {}
        BY <2>12, <2>14, <3>1, LoadIsSeen
      <3>3. seen <=> {a \in alerts : a.cause = "PARTIAL_LOAD"} # {}
        BY <2>14 DEF Cause, RootCauseFor, type, CausesOf
      <3> QED
        BY <2>1, <3>2, <3>3, AlertsByCause
    <2>15. ASSUME type \notin {"timezone_conversion_error", "partial_load"} PROVE seen
      BY <2>1, <2>4, <2>5, <2>6, <2>7, <2>8, <2>9, <2>10, <2>11, <2>15 DEF Types, IncidentTypes
    <2> QED
      BY <2>13, <2>14, <2>15 DEF FaultIsSeen, d, type, target
  <1> QED
    BY <1>1, InjectedStays, DrawsStay, PTL
===============================================================================
