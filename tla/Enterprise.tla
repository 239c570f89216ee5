------------------------------ MODULE Enterprise ------------------------------
(***************************************************************************)
(* The simulated enterprise: the tables (models/business.py and            *)
(* models/operational.py) and the clean baseline that the generator        *)
(* (simulator/generator.py) fills them with.                               *)
(*                                                                         *)
(* A time is a number of minutes since the first day, 00:00 UTC; money and *)
(* the unit of its rounding are whole numbers, a rate is in hundredths.    *)
(* The random numbers of one seed and configuration are "draws":           *)
(*   days   the number of days,                                            *)
(*   fx     (day, currency) -> rate, up to FxBuffer days after the last,   *)
(*   sales  a sequence of orders, each with what becomes of it.            *)
(* Left out are columns that no control, check or injector reads, the net  *)
(* and tax amounts (their sum is the gross amount by construction), and    *)
(* the INFO rows of system_logs.                                           *)
(***************************************************************************)
EXTENDS Integers, Sequences, FiniteSets, FiniteSetsExt

CONSTANTS
  Customers,
  RegionOf,     \* customer -> region
  CurrencyOf,   \* customer -> base currency
  Reporting,    \* the currency of the report, USD
  Pipelines,    \* names of the pipelines
  FxBuffer      \* days of rates after the last day of orders, 20 in the code

ASSUME CustomersAreAttributed ==
  DOMAIN RegionOf = Customers /\ DOMAIN CurrencyOf = Customers

\* A refund comes up to ten days and six hours after the order.
ASSUME FxBufferSuffices == FxBuffer \in Nat /\ FxBuffer > 10

Hour == 60
Day == 24 * Hour

Date(time) == time \div Day
HourOf(time) == (time % Day) \div Hour
At(day, hour) == day * Day + hour * Hour

Currencies == {CurrencyOf[c] : c \in Customers} \cup {Reporting}
Regions == {RegionOf[c] : c \in Customers}

Tables ==
  {"customers", "fx_rates", "orders", "payments", "refunds", "shipments", "pipeline_runs",
   "system_logs", "schema_events", "staging_records", "daily_revenue_report"}

\* To the reporting currency, rounded half up; no rate, no value (KeyError).
Convert(amount, currency, day, fx) ==
  IF currency = Reporting THEN amount ELSE (amount * fx[<<day, currency>>] + 50) \div 100

\* Amounts added up, each converted with the rate of its own day.
SalesInUsd(orders, fx) ==
  LET usd(o) == Convert(o.gross, CurrencyOf[o.customer], Date(o.at), fx)
  IN  MapThenSumSet(usd, orders)

RefundsInUsd(refunds, fx) ==
  LET usd(r) == Convert(r.amount, CurrencyOf[r.customer], Date(r.at), fx)
  IN  MapThenSumSet(usd, refunds)

-------------------------------------------------------------------------------
(* The generator.  Orders and payments are numbered in the order of the    *)
(* draws; the second part of a payment's number is 0 unless an incident    *)
(* added it.                                                               *)

FxDates(draws) == 0 .. draws.days + FxBuffer - 1

GenOrders(draws) ==
  {[id |-> k, customer |-> draws.sales[k].customer, at |-> draws.sales[k].at,
    gross |-> draws.sales[k].gross, cancelled |-> draws.sales[k].status = "cancelled"] :
     k \in DOMAIN draws.sales}

Paid(draws) == {k \in DOMAIN draws.sales : draws.sales[k].status # "cancelled"}

\* Cancelled orders leave no gap in the numbers of the payments.
PaymentId(draws, k) == <<Cardinality({i \in Paid(draws) : i <= k}), 0>>

\* One payment for each order that is not cancelled, up to six hours later.
GenPayments(draws) ==
  {[id |-> PaymentId(draws, k), order |-> k, customer |-> draws.sales[k].customer,
    at |-> draws.sales[k].at + draws.sales[k].delay, amount |-> draws.sales[k].gross,
    status |-> draws.sales[k].status, key |-> k] : k \in Paid(draws)}

Refunded(draws) ==
  {k \in Paid(draws) : draws.sales[k].status = "successful" /\ draws.sales[k].refundDays > 0}

GenRefunds(draws) ==
  {[payment |-> PaymentId(draws, k), order |-> k, customer |-> draws.sales[k].customer,
    at |-> draws.sales[k].at + draws.sales[k].delay + draws.sales[k].refundDays * Day,
    amount |-> draws.sales[k].refund] : k \in Refunded(draws)}

GenShipments(draws) == {[order |-> k] : k \in {i \in Paid(draws) : draws.sales[i].shipped}}

\* Each pipeline runs every day at four and is done within the half hour.
GenPipelineRuns(draws) ==
  {[id |-> <<p, d>>, pipeline |-> p, started |-> At(d, 4), completed |-> At(d, 4) + 25,
    status |-> "completed"] : p \in Pipelines, d \in 0 .. draws.days - 1}

\* Mutant: the report counts cancelled orders.
AllOrders(orders) == orders

Sold(orders) == {o \in orders : ~o.cancelled}

\* The published report: a row for each day and region with a sale, a payment
\* or a refund, each at its own date.
GenReports(orders, payments, refunds, fx) ==
  LET key(row) == <<Date(row.at), RegionOf[row.customer]>>
      sold == Sold(orders)
      successful == {p \in payments : p.status = "successful"}
      of(rows, k) == {row \in rows : key(row) = k}
      report(k) ==
        LET g == SalesInUsd(of(sold, k), fx)
            rt == RefundsInUsd(of(refunds, k), fx)
        IN  [gross |-> g, refunds |-> rt, net |-> g - rt,
             orders |-> Cardinality(of(sold, k)), payments |-> Cardinality(of(successful, k))]
  IN  [k \in {key(row) : row \in sold \cup successful \cup refunds} |-> report(k)]

\* The clean data set of a configuration: what generate leaves in the tables.
Generate(draws) ==
  [customers |-> [c \in Customers |-> "mapped"],
   fx_rates |-> draws.fx,
   orders |-> GenOrders(draws),
   payments |-> GenPayments(draws),
   refunds |-> GenRefunds(draws),
   shipments |-> GenShipments(draws),
   pipeline_runs |-> GenPipelineRuns(draws),
   system_logs |-> {},
   schema_events |-> {},
   staging_records |-> {},
   daily_revenue_report |->
     GenReports(GenOrders(draws), GenPayments(draws), GenRefunds(draws), draws.fx)]

\* A database whose tables have been created and never filled.
Empty ==
  [customers |-> <<>>, fx_rates |-> <<>>, orders |-> {}, payments |-> {}, refunds |-> {},
   shipments |-> {}, pipeline_runs |-> {}, system_logs |-> {}, schema_events |-> {},
   staging_records |-> {}, daily_revenue_report |-> <<>>]

-------------------------------------------------------------------------------
(* The rows.                                                               *)

Minutes == Nat

OrderRows ==
  [id : Nat, customer : Customers, at : Minutes, gross : Nat, cancelled : BOOLEAN]

PaymentRows ==
  [id : Nat \X {0, 1}, order : Nat, customer : Customers, at : Minutes, amount : Nat,
   status : {"successful", "failed", "pending"}, key : Nat]

RefundRows ==
  [payment : Nat \X {0, 1}, order : Nat, customer : Customers, at : Minutes, amount : Nat]

ReportRows == [gross : Nat, refunds : Nat, net : Int, orders : Nat, payments : Nat]
===============================================================================
