---------------------------- MODULE IncidentStore -----------------------------
(***************************************************************************)
(* The requests that change the incident store (api/v1/demo.py,            *)
(* api/v1/incidents.py, api/v1/evaluations.py and the CLIs): seed, inject, *)
(* run-detection, investigate, evaluate.  FastAPI serves them in a thread  *)
(* pool, each in a session_scope of its own, so their statements           *)
(* interleave.  A request is the sequence of its statements; nothing else  *)
(* coordinates requests than the database, here PostgreSQL at its default, *)
(* READ COMMITTED: a statement sees what was committed when it began,      *)
(* waits for the rows that others are deleting, and a foreign or primary   *)
(* key violation makes it raise, which rolls the request back (500).       *)
(*                                                                         *)
(* The whole data set of the simulator is one row, "data": its primary     *)
(* keys are the same in every generation.  The flushes of one call of      *)
(* create_incident_from_alerts are one statement, as nobody sees or waits  *)
(* for the new rows in between.                                            *)
(***************************************************************************)
EXTENDS Playbook, FiniteSets

CONSTANTS
  Requests,    \* requests being served
  Operations,  \* what a request may be: <<"seed">>, <<"inject", m>>, <<"detect">>,
               \* <<"investigate", incident>>, <<"evaluate", m>>
  Manifests,   \* incident manifests
  Clean,       \* the content of the clean baseline
  Setup,       \* the transaction that left the initial store
  Findings     \* content of the data set -> detector -> suspected causes

ASSUME RequestsAreFinite == IsFiniteSet(Requests)

ASSUME NoNameClash ==
  Requests \cap Manifests = {} /\ Setup \notin Requests /\ Clean \notin Manifests

\* The key of an incident, an alert or an evidence row: whose it is, and a number.
Keys == (Requests \cup Manifests \cup {Setup, Clean}) \X Nat

ASSUME OperationsAssumption ==
  Operations \subseteq
    {<<"seed">>, <<"detect">>} \cup ({"inject", "evaluate"} \X Manifests) \cup ({"investigate"} \X Keys)

ASSUME FindingsAssumption ==
  \A content \in Manifests \cup {Clean}, d \in {1, 2} : Findings[content][d] \in Seq(RootCauses)

VARIABLES
  op,        \* the operation of each request
  at,        \* the statement it has come to
  status,    \* "idle", "open", or how it ended: "ok", "missing" (404), "error" (500)
  rows,      \* rows committed or inserted, and not removed for good
  gone,      \* rows that an open request has deleted
  snapshot,  \* rows a DELETE under way has chosen
  locking,   \* whether a DELETE is under way
  found,     \* suspected causes of the alerts the request's detectors raised
  context    \* alert evidence ids that the investigation was given

vars == <<op, at, status, rows, gone, snapshot, locking, found, context>>

Ended == {"ok", "missing", "error"}
Contents == Manifests \cup {Clean}

IncidentOf(m) == <<m, 0>>
BaselineKey == <<Clean, 0>>
NoParent == <<Setup, 0>>

Row(table, key, by, parent, alerts, content) ==
  [table |-> table, key |-> key, by |-> by, parent |-> parent, alerts |-> alerts,
   content |-> content]

DataRow(by, content) == Row("data", BaselineKey, by, NoParent, {}, content)
AlertRow(by, k) == Row("alerts", <<by, k>>, by, NoParent, {}, Clean)
EvidenceRow(by, k, incident) == Row("evidence", <<by, k>>, by, incident, {}, Clean)
RunRow(by, incident) == Row("agent_runs", <<by, 0>>, by, incident, {}, Clean)
TruthRow(by, incident) == Row("ground_truth", incident, by, incident, {}, Clean)
IncidentRow(by, key, alerts) == Row("incidents", key, by, NoParent, alerts, Clean)

-------------------------------------------------------------------------------
(* The statements of each operation.                                       *)

\* Mutant: a wipe that clears the alerts before what refers to them.
AlertsFirst ==
  <<"alerts", "evidence", "agent_runs", "ground_truth", "incidents", "data">>

\* _WIPE_ORDER; "data" stands for the tables of the simulated enterprise.
WipeOrder ==
  <<"evidence", "agent_runs", "ground_truth", "alerts", "incidents", "data">>

Tables == {"evidence", "agent_runs", "ground_truth", "alerts", "incidents", "data"}

\* restore_clean_baseline; with a manifest, also the injector's changes, which
\* nobody can come between.
Restore(content) ==
  [k \in DOMAIN WipeOrder |-> <<"delete", WipeOrder[k]>>] \o <<<<"load", content>>>>

\* run_all_detectors: the detectors in two groups, each with reads of its own.
Detectors == {1, 2}
RunDetectors == <<<<"detector", 1>>, <<"detector", 2>>>>

Pipeline(m) == Restore(m) \o RunDetectors \o <<<<"create", IncidentOf(m)>>>>

\* Mutant: the alerts are read before the AgentRun row is flushed.
ContextFirst(incident) ==
  <<<<"find", incident>>, <<"context", incident>>, <<"run", incident>>,
    <<"tool", incident>>>>

\* session.get, flush of the AgentRun row, build_context, the tools.
Investigate(incident) ==
  <<<<"find", incident>>, <<"run", incident>>, <<"context", incident>>,
    <<"tool", incident>>>>

Program ==
  [o \in Operations |->
     CASE o[1] = "seed"        -> Restore(Clean)
       [] o[1] = "inject"      -> Pipeline(o[2])
       [] o[1] = "detect"      -> RunDetectors \o <<<<"group">>>>
       [] o[1] = "investigate" -> Investigate(o[2])
       [] o[1] = "evaluate"    ->
            Restore(Clean) \o Pipeline(o[2]) \o Investigate(IncidentOf(o[2])) \o Restore(Clean)]

Init ==
  /\ op \in [Requests -> Operations]
  /\ at = [r \in Requests |-> 1]
  /\ status = [r \in Requests |-> "idle"]
  /\ \/ rows = {DataRow(Setup, Clean)}
     \/ \E m \in Manifests :
          rows = {DataRow(Setup, m), AlertRow(Setup, 1), TruthRow(Setup, IncidentOf(m)),
                  EvidenceRow(Setup, 1, IncidentOf(m)),
                  IncidentRow(Setup, IncidentOf(m), {<<Setup, 1>>})}
  /\ gone = [r \in Requests |-> {}]
  /\ snapshot = [r \in Requests |-> {}]
  /\ locking = [r \in Requests |-> FALSE]
  /\ found = [r \in Requests |-> <<>>]
  /\ context = [r \in Requests |-> {}]

-------------------------------------------------------------------------------
(* PostgreSQL.                                                             *)

Committed(x) == x = Setup \/ (x \in Requests /\ status[x] = "ok")

\* What anyone but the open requests themselves sees.
Store == {w \in rows : Committed(w.by)}

Visible(r) == {w \in rows \ gone[r] : w.by = r \/ Committed(w.by)}

Of(table, set) == {w \in set : w.table = table}

Uncommitted(r) == {q \in Requests \ {r} : ~Committed(q)}

At(r, name) ==
  /\ status[r] = "open"
  /\ at[r] <= Len(Program[op[r]])
  /\ Program[op[r]][at[r]][1] = name

Argument(r) == Program[op[r]][at[r]][2]

Children(w) == {c \in rows : w.table = "incidents" /\ c.parent = w.key}

\* Mutant: a DELETE passes by the rows that another request is deleting.
DeleteWaitsForChildren(r) ==
  {q \in Uncommitted(r) : \E w \in snapshot[r] \cap rows : \E c \in Children(w) : c.by = q}

\* Requests that hold a row or key which the statement of r has to lock: a
\* row they deleted, the key share lock of a child they inserted, or, for the
\* foreign key check after a DELETE, a child they deleted.
DeleteWaitsFor(r) ==
  {q \in Uncommitted(r) : \E w \in snapshot[r] \cap rows :
     w \in gone[q] \/ \E c \in Children(w) : c.by = q \/ c \in gone[q]}

\* Rows with the primary key that r is about to insert.
Rivals(r, table, key) == {w \in Of(table, rows \ gone[r]) : w.key = key}

InsertWaitsFor(r, table, key) ==
  {q \in Uncommitted(r) : \E w \in Rivals(r, table, key) : w.by = q \/ w \in gone[q]}

ParentWaitsFor(r, incident) ==
  {q \in Uncommitted(r) : \E w \in Of("incidents", Visible(r)) :
     w.key = incident /\ w \in gone[q]}

\* A DELETE chooses its rows and then waits; an INSERT that has to wait is one
\* that has not begun.
WaitsFor(r) ==
  CASE At(r, "delete") /\ locking[r] -> DeleteWaitsFor(r)
    [] At(r, "load")   -> InsertWaitsFor(r, "data", BaselineKey)
    [] At(r, "create") -> InsertWaitsFor(r, "incidents", Argument(r))
    [] At(r, "run") \/ At(r, "tool") -> ParentWaitsFor(r, Argument(r))
    [] OTHER -> {}

Advance(r) == at' = [at EXCEPT ![r] = @ + 1]

Insert(r, new) ==
  /\ rows' = rows \cup new
  /\ Advance(r)
  /\ UNCHANGED <<op, status, gone, snapshot, locking, found, context>>

\* Mutant: a failed request keeps its connection, and so its locks.
AbortKeepsLocks(r) ==
  /\ status' = [status EXCEPT ![r] = "error"]
  /\ UNCHANGED <<op, at, found, context, rows, gone, snapshot, locking>>

\* session_scope rolls back, closes the session and raises.
End(r, how) ==
  /\ status' = [status EXCEPT ![r] = how]
  /\ rows' = {w \in rows : w.by # r}
  /\ gone' = [gone EXCEPT ![r] = {}]
  /\ snapshot' = [snapshot EXCEPT ![r] = {}]
  /\ locking' = [locking EXCEPT ![r] = FALSE]
  /\ UNCHANGED <<op, at, found, context>>

Abort(r) == End(r, "error")

Begin(r) ==
  /\ status[r] = "idle"
  /\ status' = [status EXCEPT ![r] = "open"]
  /\ UNCHANGED <<op, at, rows, gone, snapshot, locking, found, context>>

StartDelete(r) ==
  /\ At(r, "delete")
  /\ ~locking[r]
  /\ snapshot' = [snapshot EXCEPT ![r] = Of(Argument(r), Visible(r))]
  /\ locking' = [locking EXCEPT ![r] = TRUE]
  /\ UNCHANGED <<op, at, status, rows, gone, found, context>>

\* A row that somebody else deleted meanwhile is skipped; a row that somebody
\* inserted meanwhile is not looked at, but a child of a deleted row is an error.
FinishDelete(r) ==
  LET doomed == snapshot[r] \cap rows
      orphans == (UNION {Children(w) : w \in doomed}) \ gone[r]
  IN  /\ At(r, "delete")
      /\ locking[r]
      /\ WaitsFor(r) = {}
      /\ \/ /\ orphans # {}
            /\ Abort(r)
         \/ /\ orphans = {}
            /\ rows' = {w \in rows : w \in doomed => w.by # r}
            /\ gone' = [gone EXCEPT ![r] = @ \cup {w \in doomed : w.by # r}]
            /\ snapshot' = [snapshot EXCEPT ![r] = {}]
            /\ locking' = [locking EXCEPT ![r] = FALSE]
            /\ Advance(r)
            /\ UNCHANGED <<op, status, found, context>>

-------------------------------------------------------------------------------
(* The statements.                                                         *)

\* The generator's bulk inserts, and the injection; the keys collide with those
\* of a generation that the wipe did not see.  A new data set, new findings.
Load(r) ==
  /\ At(r, "load")
  /\ WaitsFor(r) = {}
  /\ \/ /\ Rivals(r, "data", BaselineKey) # {}
        /\ Abort(r)
     \/ /\ Rivals(r, "data", BaselineKey) = {}
        /\ rows' = rows \cup {DataRow(r, Argument(r))}
        /\ found' = [found EXCEPT ![r] = <<>>]
        /\ Advance(r)
        /\ UNCHANGED <<op, status, gone, snapshot, locking, context>>

\* A group of detectors reads the data set that is visible now.
RunDetector(r) ==
  /\ At(r, "detector")
  /\ \E data \in Of("data", Visible(r)) :
       found' = [found EXCEPT ![r] = @ \o Findings[data.content][Argument(r)]]
  /\ Advance(r)
  /\ UNCHANGED <<op, status, rows, gone, snapshot, locking, context>>

AlertsOf(r) == DOMAIN found[r]

\* Alerts, incident and alert evidence of one call of create_incident_from_alerts.
Artifacts(r, incident, alerts) ==
  {AlertRow(r, k) : k \in alerts}
    \cup {EvidenceRow(r, k, incident) : k \in alerts}
    \cup {IncidentRow(r, incident, {<<r, k>> : k \in alerts})}

\* With a manifest: one incident for all alerts, and its ground truth.  Its id is
\* the manifest's, which an incident that the wipe did not see may have.
CreateIncident(r) ==
  /\ At(r, "create")
  /\ WaitsFor(r) = {}
  /\ \/ /\ Rivals(r, "incidents", Argument(r)) # {}
        /\ Abort(r)
     \/ /\ Rivals(r, "incidents", Argument(r)) = {}
        /\ Insert(r, Artifacts(r, Argument(r), AlertsOf(r)) \cup {TruthRow(r, Argument(r))})

NamedCauses(r) == {found[r][k] : k \in AlertsOf(r)} \ {"UNKNOWN"}

\* run_and_create_incidents: by suspected cause, the generic alerts joining the
\* named ones when these agree on one cause.
Group(r, cause) ==
  {k \in AlertsOf(r) :
     \/ found[r][k] = cause
     \/ found[r][k] = "UNKNOWN" /\ NamedCauses(r) = {cause}}

Groups(r) ==
  LET causes == IF Cardinality(NamedCauses(r)) = 1
                THEN NamedCauses(r)
                ELSE {found[r][k] : k \in AlertsOf(r)}
  IN  {Group(r, cause) : cause \in causes}

FirstOf(alerts) == CHOOSE k \in alerts : \A j \in alerts : k <= j

\* One incident, with an id of its own, for each group of alerts.
GroupAlerts(r) ==
  /\ At(r, "group")
  /\ Insert(r, UNION {Artifacts(r, <<r, FirstOf(g)>>, g) : g \in Groups(r)})

\* session.get(Incident), in the route.
Find(r) ==
  LET present == \E w \in Of("incidents", Visible(r)) : w.key = Argument(r)
  IN  /\ At(r, "find")
      /\ \/ /\ present
            /\ Advance(r)
            /\ UNCHANGED <<op, status, rows, gone, snapshot, locking, found, context>>
         \/ /\ ~present
            /\ End(r, "missing")

\* A row that refers to the incident: the AgentRun row, or a tool's evidence row.
InsertChild(r) ==
  LET incident == Argument(r)
      present == \E w \in Of("incidents", Visible(r)) : w.key = incident
  IN  /\ At(r, "run") \/ At(r, "tool")
      /\ WaitsFor(r) = {}
      /\ \/ ~present /\ Abort(r)
         \/ /\ present
            /\ Insert(r, IF At(r, "run")
                         THEN {RunRow(r, incident)}
                         ELSE {EvidenceRow(r, 0, incident)})

IsAlertEvidence(w) == w.table = "evidence" /\ w.key[2] # 0

\* build_context: the alert evidence of the incident.
BuildContext(r) ==
  /\ At(r, "context")
  /\ context' = [context EXCEPT ![r] =
       {w.key : w \in {v \in Visible(r) : IsAlertEvidence(v) /\ v.parent = Argument(r)}}]
  /\ Advance(r)
  /\ UNCHANGED <<op, status, rows, gone, snapshot, locking, found>>

\* session_scope commits.
Commit(r) ==
  /\ status[r] = "open"
  /\ at[r] > Len(Program[op[r]])
  /\ status' = [status EXCEPT ![r] = "ok"]
  /\ rows' = rows \ gone[r]
  /\ gone' = [gone EXCEPT ![r] = {}]
  /\ UNCHANGED <<op, at, snapshot, locking, found, context>>

-------------------------------------------------------------------------------

\* Requests that wait for each other in a circle.
Deadlock(S) == S # {} /\ \A r \in S : WaitsFor(r) \cap S # {}

\* r waits, and is one of a smallest circle.
InSmallestCircle(r) ==
  /\ WaitsFor(r) # {}
  /\ \E S \in SUBSET Requests :
       r \in S /\ Deadlock(S) /\ \A T \in (SUBSET S) \ {S} : ~Deadlock(T)

\* Mutant: the database does not look for deadlocks.
DeadlocksUnnoticed(r) == FALSE /\ Abort(r)

\* deadlock_timeout: one of the requests of a smallest circle is made to fail.
BreakDeadlock(r) == InSmallestCircle(r) /\ Abort(r)

\* A statement, or the process, fails for a reason of its own.
Fail(r) == status[r] = "open" /\ Abort(r)

Execute(r) ==
  \/ StartDelete(r) \/ FinishDelete(r) \/ Load(r) \/ RunDetector(r)
  \/ CreateIncident(r) \/ GroupAlerts(r) \/ Find(r) \/ InsertChild(r)
  \/ BuildContext(r) \/ Commit(r) \/ BreakDeadlock(r)

Next == \E r \in Requests : Begin(r) \/ Execute(r) \/ Fail(r)

Spec == Init /\ [][Next]_vars

\* The server goes on with a request it has accepted, and the database ends
\* every deadlock.
FairSpec == Spec /\ \A r \in Requests : WF_vars(Execute(r))

-------------------------------------------------------------------------------
(* Properties.                                                             *)

AllRows ==
  [table : Tables, key : Keys, by : Requests \cup {Setup}, parent : Keys,
   alerts : SUBSET Keys, content : Contents]

\* Every variable stays within its type; what is deleted is there.
TypeOK ==
  /\ op \in [Requests -> Operations]
  /\ at \in [Requests -> Nat \ {0}]
  /\ status \in [Requests -> {"idle", "open"} \cup Ended]
  /\ rows \in SUBSET AllRows
  /\ gone \in [Requests -> SUBSET rows]
  /\ snapshot \in [Requests -> SUBSET AllRows]
  /\ locking \in [Requests -> BOOLEAN]
  /\ found \in [Requests -> Seq(RootCauses)]
  /\ context \in [Requests -> SUBSET Keys]

\* No interleaving of wipes, injections, detections and investigations leaves a
\* part of what one request stored: alerts and the evidence that refers to them,
\* incidents and their alerts, manifest incidents and their ground truth, and the
\* AgentRun row and its tools' evidence are there together or not at all.  Only
\* some of it is enforced by foreign keys: alerts have none.
ArtifactsTogether ==
  LET evidence == Of("evidence", Store)
      incidents == Of("incidents", Store)
  IN  /\ {w.key : w \in Of("alerts", Store)} = {e.key : e \in {w \in evidence : IsAlertEvidence(w)}}
      /\ \A i \in incidents :
           i.alerts = {e.key : e \in {w \in evidence : IsAlertEvidence(w) /\ w.parent = i.key}}
      /\ {t.key : t \in Of("ground_truth", Store)} = {i.key : i \in incidents} \cap {IncidentOf(m) : m \in Manifests}
      /\ {a.key : a \in Of("agent_runs", Store)} = {e.key : e \in {w \in evidence : ~IsAlertEvidence(w)}}

View(r) == IF status[r] = "open" THEN Visible(r) ELSE Store

\* An investigation that has come to its tools was given the alert evidence of
\* the very incident its AgentRun row refers to, all of it, even if a wipe or a
\* re-injection under the same incident id went on meanwhile.
InvestigatesWhatIsStored ==
  \A r \in Requests : \A e \in Of("evidence", View(r)) : e.key = <<r, 0>> =>
    \A i \in Of("incidents", View(r)) : i.key = e.parent => context[r] = i.alerts

\* As long as requests are open, one of them can go on, or the database finds a circle of
\* waits to break: nobody waits for a request that has ended, and no detector is left
\* without a data set.
SomeoneGoesOn ==
  LET open == {r \in Requests : status[r] = "open"}
      reads(r) == At(r, "detector") => Of("data", Visible(r)) # {}
  IN  open # {} => \E r \in open : (WaitsFor(r) = {} /\ reads(r)) \/ InSmallestCircle(r)

\* Every request that is accepted ends, whatever rows, keys and parents of other wipes,
\* injections, investigations and detections it has to wait for: a wait ends with the
\* transaction waited for (session_scope commits or rolls back), and two wipes that wait
\* for each other, since an injection has committed between their statements, are a circle
\* that the database breaks.
RequestsEnd == \A r \in Requests : status[r] = "open" ~> status[r] \in Ended

-------------------------------------------------------------------------------
(* The promise of Regeneration, kept by locks and key collisions.          *)

Holders ==
  {r \in Requests : \E w \in Of("data", rows) : w \in gone[r] \/ (w.by = r /\ ~Committed(r))}

Holder == IF Holders = {} THEN Setup ELSE CHOOSE r \in Holders : TRUE

\* Whose data set is the committed one.
Generator == (CHOOSE w \in Of("data", Store) : TRUE).by

Regenerated == INSTANCE Regeneration WITH Nobody <- Setup, holder <- Holder, data <- Generator

\* However wipes, injections and evaluations interleave, one request at a time
\* regenerates the data set, and a generation that commits replaces the one that
\* was there when its request deleted it: what Evaluation builds on.
RegeneratesOneAtATime == [](Cardinality(Holders) <= 1) /\ Regenerated!Spec

-------------------------------------------------------------------------------
(* What the repository says of the wipe, and TLC refutes.                   *)

\* "... so a regenerate doubles as a full clean restore" (_WIPE_ORDER): once a seed
\* has put the clean data set in place, no ground truth says that an incident is
\* injected.
RestoreIsFull ==
  \A d \in Of("data", Store) : d.content = Clean => Of("ground_truth", Store) = {}
===============================================================================
