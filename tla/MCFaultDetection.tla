--------------------------- MODULE MCFaultDetection ---------------------------
(***************************************************************************)
(* Small data sets: six days, an order of Europe at ten and orders of Asia *)
(* at four and at ten in the evening on each day but the third, which has  *)
(* up to two orders that vary, and a payment that fails; and two of five   *)
(* days.                                                                   *)
(***************************************************************************)
EXTENDS FaultDetection, TLC

CONSTANTS eu, jp, sg   \* customers

MCCustomers == {eu, jp, sg}
MCRegionOf == eu :> "Europe" @@ jp :> "Asia" @@ sg :> "Asia"
MCCurrencyOf == eu :> "EUR" @@ jp :> "JPY" @@ sg :> "USD"
MCPipelines ==
  {"orders_ingest", "payment_reconciliation_pipeline", "revenue_aggregation_pipeline"}

Sale(customer, at, status, delay, refundDays) ==
  [customer |-> customer, at |-> at, gross |-> 101, status |-> status, delay |-> delay,
   refundDays |-> refundDays, refund |-> IF refundDays > 0 THEN 51 ELSE 0, shipped |-> TRUE]

SalesOf(d, refundDays) ==
  <<Sale(eu, At(d, 10), "successful", 0, 0),
    Sale(jp, At(d, 4), "successful", 0, refundDays),
    Sale(sg, At(d, 22), "successful", 6 * Hour, 0)>>

\* The third day, of number 2, is left out.
SixDays ==
  SalesOf(0, 0) \o SalesOf(1, 1) \o SalesOf(3, 0) \o SalesOf(4, 0) \o SalesOf(5, 2)
    \o <<Sale(jp, At(4, 4), "failed", 0, 0)>>
FiveDays == SalesOf(0, 0) \o SalesOf(1, 0) \o SalesOf(3, 0) \o SalesOf(4, 0)

\* One, four, two, three and one order; one that moves from the second day to the third
\* makes the first and the last thin.
UnevenDays ==
  <<Sale(eu, At(0, 10), "successful", 0, 0)>> \o SalesOf(1, 0)
    \o <<Sale(eu, At(1, 12), "successful", 0, 0), Sale(eu, At(2, 10), "successful", 0, 0),
         Sale(jp, At(2, 4), "successful", 0, 0)>>
    \o SalesOf(3, 0) \o <<Sale(eu, At(4, 10), "successful", 0, 0)>>

VariableSales ==
  <<Sale(eu, At(2, 4), "cancelled", 0, 0),
    Sale(eu, At(3, 0) - 1, "successful", 6 * Hour, 1),
    Sale(jp, At(2, 23), "cancelled", 0, 0),
    Sale(jp, At(3, 0) - 1, "successful", 0, 2)>>

SaleSequences ==
  {<<>>} \cup {<<VariableSales[i]>> : i \in DOMAIN VariableSales}
    \cup {<<VariableSales[p[1]], VariableSales[p[2]]>> :
            p \in {q \in (1 .. 4) \X (1 .. 4) : q[1] <= q[2]}}

Fx(days, jpy) ==
  [k \in (0 .. days + FxBuffer - 1) \X {"EUR", "JPY", "USD"} |->
     CASE k[2] = "USD" -> 100
       [] k[2] = "EUR" -> 107 + (k[1] % 3)
       [] k[2] = "JPY" -> jpy[(k[1] % Len(jpy)) + 1]]

Draws(days, sales, jpy) == [days |-> days, fx |-> Fx(days, jpy), sales |-> sales]

Drifting == <<66, 67, 68>>
TwiceTheSame == <<66, 67, 67, 68>>

\* The small configuration has five days and no refunds.
MCConfigs == {"default", "small"}
LongSeeds ==
  [small : {Draws(5, FiveDays \o SalesOf(2, 0), Drifting)},
   default : {Draws(6, SixDays \o sales, Drifting) : sales \in SaleSequences}
               \cup {Draws(6, SixDays \o SalesOf(2, 0), TwiceTheSame)}
               \cup {Draws(5, UnevenDays, Drifting)}]

\* Three days for each configuration; then incidents can be planned twice.
ThreeDays(refundDays) == SalesOf(0, 0) \o SalesOf(1, refundDays) \o SalesOf(2, 0)
ShortSeeds ==
  [small : {Draws(3, ThreeDays(0), Drifting)}, default : {Draws(3, ThreeDays(1), Drifting)}]

MCSeeds == LongSeeds \cup ShortSeeds
MCMaxGenerations == [seed \in MCSeeds |-> IF seed \in ShortSeeds THEN 2 ELSE 1]
===============================================================================
