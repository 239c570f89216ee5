----------------------------- MODULE AtlasLineage ------------------------------
(***************************************************************************)
(* The lineage graph of the simulated enterprise                           *)
(* (lineage/graph_config.py).                                              *)
(***************************************************************************)

\* Reports, dashboards and business metrics.
Assets ==
  {"daily_revenue_report", "executive_revenue_dashboard", "finance_reconciliation_dashboard",
   "usd_net_revenue", "refund_rate_metric"}

Nodes ==
  Assets \cup
  {"crm_api", "fx_api", "payment_provider_api", "orders_system", "shipments_system",
   "atlas_postgres", "crm_customers", "customers", "customer_limits", "orders", "payments",
   "refunds", "fx_rates", "shipments", "staging_records", "crm_sync",
   "customer_mapping_pipeline", "orders_ingest", "payment_reconciliation_pipeline",
   "refund_pipeline", "fx_rate_pipeline", "shipment_pipeline", "revenue_aggregation_pipeline"}

\* Data flows from the first to the second.
Edges ==
  {<<"crm_api", "crm_sync">>, <<"crm_sync", "crm_customers">>,
   <<"crm_customers", "customer_mapping_pipeline">>,
   <<"customer_mapping_pipeline", "customers">>, <<"customers", "customer_limits">>,
   <<"orders_system", "orders_ingest">>, <<"orders_ingest", "staging_records">>,
   <<"staging_records", "orders">>, <<"customers", "orders">>,
   <<"payment_provider_api", "payment_reconciliation_pipeline">>,
   <<"orders", "payment_reconciliation_pipeline">>,
   <<"payment_reconciliation_pipeline", "payments">>, <<"payments", "refund_pipeline">>,
   <<"refund_pipeline", "refunds">>, <<"fx_api", "fx_rate_pipeline">>,
   <<"fx_rate_pipeline", "fx_rates">>, <<"shipments_system", "shipment_pipeline">>,
   <<"orders", "shipment_pipeline">>, <<"shipment_pipeline", "shipments">>,
   <<"orders", "revenue_aggregation_pipeline">>, <<"payments", "revenue_aggregation_pipeline">>,
   <<"refunds", "revenue_aggregation_pipeline">>,
   <<"fx_rates", "revenue_aggregation_pipeline">>,
   <<"revenue_aggregation_pipeline", "daily_revenue_report">>,
   <<"daily_revenue_report", "executive_revenue_dashboard">>,
   <<"daily_revenue_report", "finance_reconciliation_dashboard">>,
   <<"daily_revenue_report", "usd_net_revenue">>, <<"refunds", "refund_rate_metric">>}

\* Where the agent starts a query about a root cause.
RootCauseFocusNode ==
  [DUPLICATE_TRANSACTION |-> "payments",
   STALE_FX_RATE |-> "fx_rates",
   MISSING_CUSTOMER_MAPPING |-> "customers",
   SCHEMA_CONTRACT_CHANGE |-> "orders",
   DELAYED_PIPELINE |-> "revenue_aggregation_pipeline",
   TIMEZONE_CONVERSION_ERROR |-> "orders",
   NULL_CONTAMINATION |-> "staging_records",
   PARTIAL_LOAD |-> "orders",
   INCORRECT_AGGREGATION |-> "revenue_aggregation_pipeline",
   UPSTREAM_API_FAILURE |-> "payment_provider_api",
   UNKNOWN |-> "daily_revenue_report"]
===============================================================================
