----------------------------- MODULE Regeneration ------------------------------
(***************************************************************************)
(* What requests may rely on when they regenerate the simulated data set   *)
(* (restore_clean_baseline) within a transaction: nothing in the program   *)
(* keeps two of them apart, but every generation has the same primary      *)
(* keys, so the one that deletes or inserts first has the data set to      *)
(* itself until its transaction ends, and it replaces the data set that    *)
(* was there when it began.                                                *)
(***************************************************************************)

CONSTANTS
  Requests,  \* requests that may regenerate the data set
  Nobody     \* no request

VARIABLES
  holder,    \* the request that has deleted or inserted the data set, or Nobody
  data       \* the transaction that generated the committed data set

vars == <<holder, data>>

Init == holder = Nobody /\ data \notin Requests

\* The wipe deletes the data set.
Take(r) == holder = Nobody /\ holder' = r /\ UNCHANGED data

\* The transaction commits with a data set of its own.
Publish(r) == holder = r /\ holder' = Nobody /\ data' = r

\* The transaction is rolled back.
Release(r) == holder = r /\ holder' = Nobody /\ UNCHANGED data

Next == \E r \in Requests : Take(r) \/ Publish(r) \/ Release(r)

Spec == Init /\ [][Next]_vars
===============================================================================
