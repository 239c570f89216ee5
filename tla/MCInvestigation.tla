--------------------------- MODULE MCInvestigation ----------------------------
(***************************************************************************)
(* Two runs over three incidents: one with a named cause and a generic     *)
(* alert, one whose two alerts tie, one that no detector alerted on.       *)
(***************************************************************************)
EXTENDS Investigation

CONSTANTS i1, i2, i3

MCAlertCauses ==
  [i \in Incidents |->
     CASE i = i1 -> <<"UNKNOWN", "TIMEZONE_CONVERSION_ERROR">>
       [] i = i2 -> <<"SCHEMA_CONTRACT_CHANGE", "NULL_CONTAMINATION">>
       [] OTHER  -> <<>>]

MCSeverityOf ==
  [i \in Incidents |-> IF i = i2 THEN "high" ELSE "medium"]
===============================================================================
