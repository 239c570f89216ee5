--------------------------- MODULE MCIncidentStore ----------------------------
(***************************************************************************)
(* Two manifests: one raises a named and a generic alert, the other two    *)
(* named and a generic one.  No alert on the clean baseline.               *)
(*                                                                         *)
(* Requests differ in nothing but what they do, and a symmetry set is      *)
(* unsound where a liveness property is checked: instead, the requests are *)
(* numbered and take their operations in the order of MCOperationList, one *)
(* start for all those that differ in who does what.                       *)
(***************************************************************************)
EXTENDS IncidentStore

CONSTANTS m1, m2

MCFindings ==
  [c \in Contents |->
     CASE c = m1 -> << <<"DUPLICATE_TRANSACTION">>, <<"UNKNOWN">> >>
       [] c = m2 -> << <<"SCHEMA_CONTRACT_CHANGE", "NULL_CONTAMINATION">>, <<"UNKNOWN">> >>
       [] OTHER  -> << <<>>, <<>> >>]

\* Everything the API offers, on the incidents of one manifest.
MCOperationList ==
  << <<"seed">>, <<"inject", m1>>, <<"detect">>, <<"investigate", <<m1, 0>>>> >>
MCOperations == {MCOperationList[k] : k \in DOMAIN MCOperationList}

\* The operations that wipe, with both manifests.
MCWipes == {<<"seed">>, <<"inject", m1>>, <<"inject", m2>>, <<"evaluate", m2>>, <<"detect">>}

\* A request with a smaller number has the earlier operation in the list, or the same one.
InTurn ==
  \A q, r \in Requests : q < r =>
    \E j, k \in DOMAIN MCOperationList :
      /\ j <= k
      /\ op[q] = MCOperationList[j] /\ op[r] = MCOperationList[k]

MCInit == Init /\ InTurn

MCSpec == MCInit /\ [][Next]_vars /\ \A r \in Requests : WF_vars(Execute(r))
===============================================================================
