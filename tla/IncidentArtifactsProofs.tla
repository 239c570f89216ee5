----------------------- MODULE IncidentArtifactsProofs ------------------------
(***************************************************************************)
(* Proofs about IncidentStore for any requests and manifests: what one     *)
(* request stored is there as a whole or not at all, and an investigation  *)
(* is given the evidence of the incident that its report refers to.        *)
(***************************************************************************)
EXTENDS IncidentStoreProofs

-------------------------------------------------------------------------------
(* What belongs together.                                                  *)

ChildTables == {"evidence", "agent_runs", "ground_truth"}

AlertEvidence(S) == {w \in Of("evidence", S) : IsAlertEvidence(w)}

ToolEvidence(S) == {w \in Of("evidence", S) : ~IsAlertEvidence(w)}

Child(c, i) == c.table \in ChildTables /\ i.table = "incidents" /\ c.parent = i.key

Pair(a, e) == a.table = "alerts" /\ e \in AlertEvidence({e}) /\ a.key = e.key

AlertsPaired(S) ==
  /\ \A a \in Of("alerts", S) : \E e \in AlertEvidence(S) : e.key = a.key
  /\ \A e \in AlertEvidence(S) : \E a \in Of("alerts", S) : a.key = e.key

IncidentsWhole(S) ==
  \A i \in Of("incidents", S) :
    /\ \A e \in AlertEvidence(S) : e.parent = i.key => e.key \in i.alerts
    /\ \A k \in i.alerts : \E e \in AlertEvidence(S) : e.parent = i.key /\ e.key = k

TruthsPaired(S) ==
  /\ \A t \in Of("ground_truth", S) : \E i \in Of("incidents", S) : i.key = t.key
  /\ \A i \in Of("incidents", S) :
       i.key \in ManifestKeys => \E t \in Of("ground_truth", S) : t.key = i.key

RunsPaired(S) ==
  /\ \A a \in Of("agent_runs", S) : \E e \in ToolEvidence(S) : e.key = a.key
  /\ \A e \in ToolEvidence(S) : \E a \in Of("agent_runs", S) : a.key = e.key

\* Every child in S has its incident in V.
Parented(S, V) ==
  \A c \in S : c.table \in ChildTables => \E i \in Of("incidents", V) : i.key = c.parent

Whole(S) ==
  AlertsPaired(S) /\ IncidentsWhole(S) /\ TruthsPaired(S) /\ RunsPaired(S) /\ Parented(S, S)

-------------------------------------------------------------------------------
(* The invariant: every row, ...                                           *)

\* Whose keys rows have.
RowIs(w) ==
  /\ w.table \in {"alerts", "evidence", "agent_runs"} => w.key[1] = w.by
  /\ w.table = "alerts" => w.key[2] # 0
  /\ w.table = "agent_runs" => w.key[2] = 0
  /\ w.table = "ground_truth" => w.key = w.parent /\ w.key \in ManifestKeys
  /\ w.table = "incidents" => w.key \in ManifestKeys \/ (w.by \in Requests /\ w.key[1] = w.by)

\* Runs and their tools' evidence refer to the incident that was asked for.
IsAbout(w) ==
  w.table = "agent_runs" \/ w \in ToolEvidence({w}) =>
    w.by \in Requests /\ w.parent \in Subjects(op[w.by])

RowsInv == \A w \in rows : RowIs(w) /\ IsAbout(w)

\* Of two incidents with one key, one is deleted by the request that inserted the other.
OneIncident ==
  \A v, w \in Of("incidents", rows) : v.key = w.key /\ v # w =>
    \E r \in Requests : (v \in gone[r] /\ w.by = r) \/ (w \in gone[r] /\ v.by = r)

\* Nobody can refer to an incident that another request deletes.
Pinned ==
  \A r \in Requests : \A i \in gone[r], c \in rows : Child(c, i) => c \in gone[r] \/ c.by = r

-------------------------------------------------------------------------------
(* ... and every open request: what it has deleted and inserted so far.     *)

Earlier ==
  [t \in Tables |->
     CASE t = "evidence"     -> {}
       [] t = "agent_runs"   -> {"evidence"}
       [] t = "ground_truth" -> {"evidence", "agent_runs"}
       [] t = "alerts"       -> {"evidence", "agent_runs", "ground_truth"}
       [] t = "incidents"    -> {"evidence", "agent_runs", "ground_truth", "alerts"}
       [] t = "data"         -> Tables \ {"data"}]

\* The tables that a wipe under way has gone through.
Wiped(r) == IF At(r, "delete") THEN Earlier[Argument(r)] ELSE {}

Mine(r) == {w \in rows : w.by = r}

\* S is the store, G what is deleted of it, W the tables that the wipe has gone through.
Closed(S, G, W) ==
  /\ "evidence" \notin W \/ "incidents" \in W =>
       \A i \in S, c \in S : Child(c, i) /\ c \in G => i \in G
  /\ "alerts" \notin W \/ "incidents" \in W =>
       \A a \in S, e \in S : Pair(a, e) /\ a \in G => e \in G
  /\ "evidence" \notin W \/ "alerts" \in W =>
       \A a \in S, e \in S : Pair(a, e) /\ e \in G => a \in G

\* C is what a DELETE from table t has chosen.
Chosen(t, S, G, C) ==
  /\ t = "alerts" => \A a \in S, e \in S : Pair(a, e) /\ e \in G => a \in G \cup C
  /\ t = "incidents" =>
       \A i \in S, c \in S :
         Child(c, i) /\ (c \in G \/ \E a \in G : Pair(a, c)) => i \in G \cup C

\* M is what the request has inserted.
OwnWhole(M) ==
  /\ AlertsPaired(M) /\ IncidentsWhole(M) /\ TruthsPaired(M)
  /\ \A e \in AlertEvidence(M) : \E i \in Of("incidents", M) : i.key = e.parent

InTheMiddle(r) == At(r, "context") \/ At(r, "tool")

OwnRuns(r) ==
  IF InTheMiddle(r)
  THEN Of("agent_runs", Mine(r)) # {}
  ELSE Of("agent_runs", Mine(r)) # {} <=> ToolEvidence(Mine(r)) # {}

\* Investigates, and has come to the tools.
HasContext(r) == At(r, "tool") \/ ToolEvidence(Mine(r)) # {}

GivenIncident(r) ==
  \A i \in Of("incidents", Visible(r)) : i.key \in Subjects(op[r]) => context[r] = i.alerts

Local(r) ==
  /\ Parented(Mine(r), Visible(r))
  /\ Closed(Store, gone[r], Wiped(r))
  /\ locking[r] => Chosen(Argument(r), Store, gone[r], snapshot[r])
  /\ locking[r] => Of(Argument(r), Mine(r)) \subseteq snapshot[r]
  /\ \A w \in Mine(r) : w.table \notin Wiped(r)
  /\ "evidence" \notin Wiped(r) => OwnWhole(Mine(r)) /\ OwnRuns(r)
  /\ op[r] = <<"detect">> /\ at[r] <= 3 => Mine(r) = {}
  /\ HasContext(r) => GivenIncident(r)

\* An investigation that ended well, as long as what it stored is there.
Answered(r) ==
  \A e \in ToolEvidence(Store) : e.by = r =>
    \A i \in Of("incidents", Store) : i.key = e.parent => context[r] = i.alerts

ArtifactsInv ==
  /\ RowsInv /\ OneIncident /\ Pinned /\ Whole(Store)
  /\ \A r \in Requests : /\ status[r] = "idle" => at[r] = 1
                         /\ status[r] = "open" => Local(r)
                         /\ status[r] = "ok" => Answered(r)

-------------------------------------------------------------------------------
(* What a request sees is whole.                                           *)

\* The evidence of an alert has the same key as the alert, and so is alert evidence.
LEMMA PairIs ==
  ASSUME NEW a, NEW e
  PROVE  Pair(a, e) <=> a.table = "alerts" /\ e.table = "evidence" /\ e.key[2] # 0 /\ a.key = e.key
  BY DEF Pair, AlertEvidence, Of, IsAlertEvidence

\* S is whole, and so is what the request inserted, M; of S it deleted G.  No part of an
\* incident is deleted without the others, and none in S that M has a successor of is kept.
Apart(M, S, G) ==
  /\ G \subseteq S
  /\ \A i \in G, c \in S : Child(c, i) => c \in G
  /\ \A v \in Of("incidents", S), w \in Of("incidents", M) : v.key = w.key => v \in G
  /\ \A v, w \in Of("incidents", S) : v.key = w.key => v = w
  /\ \A w \in S \cup M : RowIs(w)
  /\ \A a \in Of("agent_runs", S), e \in ToolEvidence(S) : a.key = e.key => a.parent = e.parent

\* A part of a whole is kept whole.
LEMMA ViewIsWhole ==
  ASSUME NEW M, NEW S, NEW G, Apart(M, S, G), Whole(S), Closed(S, G, {}),
         OwnWhole(M), Parented(M, M \cup (S \ G))
  PROVE  /\ IncidentsWhole(M \cup (S \ G))
         /\ RunsPaired(M) => Whole(M \cup (S \ G))
  <1> DEFINE V == M \cup (S \ G)
  <1>1. /\ \A i \in S, c \in S : Child(c, i) => (c \in G <=> i \in G)
        /\ \A a \in S, e \in S : Pair(a, e) => (a \in G <=> e \in G)
    BY DEF Apart, Closed
  <1>2. \A w \in V : RowIs(w)
    BY DEF Apart
  <1>3. /\ \A w : w \in V <=> w \in M \/ (w \in S /\ w \notin G)
        /\ \A t, w : w \in Of(t, V) <=> w \in V /\ w.table = t
        /\ \A w : w \in AlertEvidence(V) <=> w \in V /\ w.table = "evidence" /\ w.key[2] # 0
        /\ \A w : w \in ToolEvidence(V) <=> w \in V /\ w.table = "evidence" /\ w.key[2] = 0
    BY DEF Of, AlertEvidence, ToolEvidence, IsAlertEvidence
  <1>4. \A c \in S \ G, i \in S : Child(c, i) => i \in S \ G
    BY <1>1
  <1> HIDE DEF V
  <1>5. AlertsPaired(V)
    <2>1. ASSUME NEW a \in Of("alerts", V) PROVE \E e \in AlertEvidence(V) : e.key = a.key
      <3>1. CASE a \in M
        <4>1. PICK e \in AlertEvidence(M) : e.key = a.key
          BY <2>1, <3>1 DEF OwnWhole, AlertsPaired, Of
        <4>2. e \in AlertEvidence(V)
          BY <1>3 DEF AlertEvidence, Of, IsAlertEvidence
        <4> QED
          BY <4>1, <4>2
      <3>2. CASE a \in S \ G
        <4>1. PICK e \in AlertEvidence(S) : e.key = a.key
          BY <2>1, <3>2 DEF Whole, AlertsPaired, Of
        <4>2. e \in S /\ Pair(a, e)
          BY <2>1, <4>1, PairIs DEF AlertEvidence, Of, IsAlertEvidence
        <4>3. e \in AlertEvidence(V)
          BY <1>1, <1>3, <3>2, <4>1, <4>2 DEF AlertEvidence, Of, IsAlertEvidence
        <4> QED
          BY <4>1, <4>3
      <3> QED
        BY <1>3, <2>1, <3>1, <3>2
    <2>2. ASSUME NEW e \in AlertEvidence(V) PROVE \E a \in Of("alerts", V) : a.key = e.key
      <3>1. CASE e \in M
        <4>1. PICK a \in Of("alerts", M) : a.key = e.key
          BY <1>3, <2>2, <3>1 DEF OwnWhole, AlertsPaired, AlertEvidence, Of, IsAlertEvidence
        <4>2. a \in Of("alerts", V)
          BY <1>3 DEF Of
        <4> QED
          BY <4>1, <4>2
      <3>2. CASE e \in S \ G
        <4>1. PICK a \in Of("alerts", S) : a.key = e.key
          BY <1>3, <2>2, <3>2 DEF Whole, AlertsPaired, AlertEvidence, Of, IsAlertEvidence
        <4>2. a \in S /\ Pair(a, e)
          BY <1>3, <2>2, <4>1, PairIs DEF Of
        <4>3. a \in Of("alerts", V)
          BY <1>1, <1>3, <3>2, <4>1, <4>2 DEF Of
        <4> QED
          BY <4>1, <4>3
      <3> QED
        BY <1>3, <2>2, <3>1, <3>2
    <2> QED
      BY <2>1, <2>2 DEF AlertsPaired
  <1>6. Parented(V, V)
    <2> SUFFICES ASSUME NEW c \in V, c.table \in ChildTables
                 PROVE  \E i \in Of("incidents", V) : i.key = c.parent
      BY DEF Parented
    <2>1. CASE c \in M
      BY <2>1 DEF Parented, V
    <2>2. CASE c \in S \ G
      <3>1. PICK i \in Of("incidents", S) : i.key = c.parent
        BY <2>2 DEF Whole, Parented
      <3>2. Child(c, i) /\ i \in S
        BY <3>1 DEF Child, Of
      <3>3. i \in Of("incidents", V)
        BY <1>3, <1>4, <2>2, <3>1, <3>2 DEF Of
      <3> QED
        BY <3>1, <3>3
    <2> QED
      BY <1>3, <2>1, <2>2
  <1>7. IncidentsWhole(V)
    <2> SUFFICES ASSUME NEW i \in Of("incidents", V)
                 PROVE  /\ \A e \in AlertEvidence(V) : e.parent = i.key => e.key \in i.alerts
                        /\ \A k \in i.alerts : \E e \in AlertEvidence(V) : e.parent = i.key /\ e.key = k
      BY DEF IncidentsWhole
    <2>1. CASE i \in M
      <3>1. i \in Of("incidents", M)
        BY <1>3, <2>1 DEF Of
      <3>2. ASSUME NEW e \in AlertEvidence(V), e.parent = i.key PROVE e \in M
        <4> SUFFICES ASSUME e \in S \ G PROVE FALSE
          BY <1>3
        <4>1. PICK j \in Of("incidents", S) : j.key = e.parent
          BY <1>3 DEF Whole, Parented, ChildTables
        <4>2. j \in G
          BY <3>1, <3>2, <4>1 DEF Apart
        <4>3. Child(e, j) /\ j \in S
          BY <1>3, <4>1 DEF Child, Of, ChildTables
        <4> QED
          BY <1>4, <4>2, <4>3
      <3>3. \A e \in AlertEvidence(V) : e \in M => e \in AlertEvidence(M)
        BY <1>3 DEF AlertEvidence, Of, IsAlertEvidence
      <3>4. \A e \in AlertEvidence(M) : e \in AlertEvidence(V)
        BY <1>3 DEF AlertEvidence, Of, IsAlertEvidence
      <3> QED
        BY <3>1, <3>2, <3>3, <3>4 DEF OwnWhole, IncidentsWhole
    <2>2. CASE i \in S \ G
      <3>1. i \in Of("incidents", S)
        BY <1>3, <2>2 DEF Of
      <3>2. ASSUME NEW e \in AlertEvidence(V), e.parent = i.key PROVE e \in AlertEvidence(S)
        <4>1. CASE e \in M
          <5>1. e \in AlertEvidence(M)
            BY <1>3, <4>1 DEF AlertEvidence, Of, IsAlertEvidence
          <5>2. PICK j \in Of("incidents", M) : j.key = e.parent
            BY <5>1 DEF OwnWhole
          <5>3. i \in G
            BY <3>1, <3>2, <5>2 DEF Apart
          <5> QED
            BY <2>2, <5>3
        <4>2. CASE e \in S
          BY <1>3, <4>2 DEF AlertEvidence, Of, IsAlertEvidence
        <4> QED
          BY <1>3, <4>1, <4>2
      <3>3. ASSUME NEW e \in AlertEvidence(S), e.parent = i.key PROVE e \in AlertEvidence(V)
        <4>1. e \in S /\ e.table = "evidence" /\ e.key[2] # 0
          BY DEF AlertEvidence, Of, IsAlertEvidence
        <4>2. Child(e, i)
          BY <3>1, <3>3, <4>1 DEF Child, Of, ChildTables
        <4>3. e \notin G
          BY <1>1, <2>2, <4>1, <4>2
        <4> QED
          BY <1>3, <4>1, <4>3
      <3> QED
        BY <3>1, <3>2, <3>3 DEF Whole, IncidentsWhole
    <2> QED
      BY <1>3, <2>1, <2>2
  <1>8. TruthsPaired(V)
    <2>1. ASSUME NEW t \in Of("ground_truth", V) PROVE \E i \in Of("incidents", V) : i.key = t.key
      <3>1. t \in V /\ t.table \in ChildTables
        BY <1>3 DEF ChildTables
      <3>2. t.key = t.parent
        BY <1>2, <1>3 DEF RowIs
      <3> QED
        BY <1>6, <3>1, <3>2 DEF Parented
    <2>2. ASSUME NEW i \in Of("incidents", V), i.key \in ManifestKeys
          PROVE  \E t \in Of("ground_truth", V) : t.key = i.key
      <3>1. CASE i \in M
        <4>1. PICK t \in Of("ground_truth", M) : t.key = i.key
          BY <1>3, <2>2, <3>1 DEF OwnWhole, TruthsPaired, Of
        <4> QED
          BY <1>3, <4>1 DEF Of
      <3>2. CASE i \in S \ G
        <4>1. PICK t \in Of("ground_truth", S) : t.key = i.key
          BY <1>3, <2>2, <3>2 DEF Whole, TruthsPaired, Of
        <4>2. t \in S /\ t.table = "ground_truth" /\ t.parent = t.key
          BY DEF Of, Apart, RowIs
        <4>3. Child(t, i)
          BY <1>3, <4>1, <4>2 DEF Child, ChildTables
        <4> QED
          BY <1>1, <1>3, <3>2, <4>1, <4>2, <4>3
      <3> QED
        BY <1>3, <3>1, <3>2
    <2> QED
      BY <2>1, <2>2 DEF TruthsPaired
  <1>9. ASSUME RunsPaired(M) PROVE RunsPaired(V)
    <2>1. /\ \A w : w \in ToolEvidence(S) <=> w \in S /\ w.table = "evidence" /\ w.key[2] = 0
          /\ \A w : w \in ToolEvidence(M) <=> w \in M /\ w.table = "evidence" /\ w.key[2] = 0
          /\ \A w : w \in Of("agent_runs", S) <=> w \in S /\ w.table = "agent_runs"
          /\ \A w : w \in Of("agent_runs", M) <=> w \in M /\ w.table = "agent_runs"
      BY DEF ToolEvidence, Of, IsAlertEvidence
    <2>2. ASSUME NEW a \in Of("agent_runs", S), NEW e \in ToolEvidence(S), a.key = e.key
          PROVE  a \in G <=> e \in G
      <3>1. a.parent = e.parent
        BY <2>2 DEF Apart
      <3>2. PICK i \in Of("incidents", S) : i.key = a.parent
        BY <2>1 DEF Whole, Parented, ChildTables
      <3>3. i \in S /\ Child(a, i) /\ Child(e, i)
        BY <2>1, <3>1, <3>2 DEF Child, Of, ChildTables
      <3> QED
        BY <1>1, <2>1, <3>3
    <2>3. ASSUME NEW a \in Of("agent_runs", V) PROVE \E e \in ToolEvidence(V) : e.key = a.key
      <3>1. CASE a \in M
        BY <1>3, <1>9, <2>1, <3>1 DEF RunsPaired
      <3>2. CASE a \in S \ G
        <4>1. PICK e \in ToolEvidence(S) : e.key = a.key
          BY <1>3, <2>1, <3>2 DEF Whole, RunsPaired
        <4> QED
          BY <1>3, <2>1, <2>2, <3>2, <4>1
      <3> QED
        BY <1>3, <3>1, <3>2
    <2>4. ASSUME NEW e \in ToolEvidence(V) PROVE \E a \in Of("agent_runs", V) : a.key = e.key
      <3>1. CASE e \in M
        BY <1>3, <1>9, <2>1, <3>1 DEF RunsPaired
      <3>2. CASE e \in S \ G
        <4>1. PICK a \in Of("agent_runs", S) : a.key = e.key
          BY <1>3, <2>1, <3>2 DEF Whole, RunsPaired
        <4> QED
          BY <1>3, <2>1, <2>2, <3>2, <4>1
      <3> QED
        BY <1>3, <3>1, <3>2
    <2> QED
      BY <2>3, <2>4 DEF RunsPaired
  <1> QED
    BY <1>5, <1>6, <1>7, <1>8, <1>9 DEF Whole, V

-------------------------------------------------------------------------------
(* What an open request sees.                                              *)

\* Its own rows, and those committed that it has not deleted.
LEMMA ViewOf ==
  ASSUME IInv, NEW r \in Requests, status[r] = "open"
  PROVE  /\ Visible(r) = Mine(r) \cup (Store \ gone[r])
         /\ gone[r] \subseteq Store /\ Mine(r) \cap Store = {} /\ ~Committed(r)
         /\ Store \subseteq rows /\ Mine(r) \subseteq rows
  <1>1. ~Committed(r)
    BY OpenIsUncommitted
  <1>2. \A w \in gone[r] : w \in rows /\ w.by # r /\ Committed(w.by)
    BY DEF IInv, TypeOK, GoneInv
  <1> QED
    BY <1>1, <1>2 DEF Visible, Mine, Store

\* Whoever has deleted something is open.
LEMMA DeletersAreOpen ==
  ASSUME IInv, NEW r \in Requests, NEW w \in gone[r]
  PROVE  status[r] = "open" /\ ~Committed(r) /\ Committed(w.by) /\ w \in Store /\ w.by # r
  <1>1. status[r] = "open" /\ Committed(w.by) /\ w \in rows /\ w.by # r
    BY DEF IInv, GoneInv, TypeOK
  <1> QED
    BY <1>1, OpenIsUncommitted DEF Store

\* What is committed is known by its key.
LEMMA StoredIncidentsDiffer ==
  ASSUME IInv, OneIncident, NEW v \in Of("incidents", Store), NEW w \in Of("incidents", rows), v.key = w.key
  PROVE  v = w \/ \E r \in Requests : v \in gone[r] /\ w.by = r
  <1>1. v \in Of("incidents", rows) /\ Committed(v.by)
    BY DEF Of, Store
  <1>2. ASSUME NEW r \in Requests, w \in gone[r], v.by = r PROVE FALSE
    BY <1>1, <1>2, DeletersAreOpen
  <1> QED
    BY <1>1, <1>2 DEF OneIncident

\* A run and its tools' evidence refer to the same incident.
LEMMA RunsAreAbout ==
  ASSUME IInv, RowsInv, NEW a \in Of("agent_runs", rows), NEW e \in ToolEvidence(rows), a.key = e.key
  PROVE  a.parent = e.parent
  <1>1. /\ a \in rows /\ a.table = "agent_runs" /\ e \in rows /\ e.table = "evidence"
        /\ e \in ToolEvidence({e})
    BY DEF Of, ToolEvidence
  <1>2. RowIs(a) /\ IsAbout(a) /\ RowIs(e) /\ IsAbout(e)
    BY <1>1 DEF RowsInv
  <1>3. a.key[1] = a.by /\ e.key[1] = e.by
    BY <1>1, <1>2 DEF RowIs
  <1>4. a.by \in Requests /\ a.parent \in Subjects(op[a.by]) /\ e.parent \in Subjects(op[e.by])
    BY <1>1, <1>2 DEF IsAbout
  <1>5. op[a.by] \in Operations
    BY <1>4 DEF IInv, TypeOK
  <1> QED
    BY <1>3, <1>4, <1>5, SubjectsType

\* The rows of an open request and the store are as ViewIsWhole has it.
LEMMA StoreApart ==
  ASSUME IInv, RowsInv, OneIncident, Pinned, NEW r \in Requests, status[r] = "open"
  PROVE  Apart(Mine(r), Store, gone[r])
  <1>1. gone[r] \subseteq Store /\ ~Committed(r) /\ Store \subseteq rows /\ Mine(r) \subseteq rows
    BY ViewOf
  <1>2. ASSUME NEW i \in gone[r], NEW c \in Store, Child(c, i) PROVE c \in gone[r]
    BY <1>1, <1>2 DEF Pinned, Store
  <1>3. ASSUME NEW v \in Of("incidents", Store), NEW w \in Of("incidents", Mine(r)), v.key = w.key
        PROVE  v \in gone[r]
    <2>1. w \in Of("incidents", rows) /\ w.by = r /\ Committed(v.by)
      BY DEF Of, Mine, Store
    <2> QED
      BY <1>1, <1>3, <2>1, StoredIncidentsDiffer
  <1>4. ASSUME NEW v \in Of("incidents", Store), NEW w \in Of("incidents", Store), v.key = w.key
        PROVE  v = w
    <2>1. w \in Of("incidents", rows) /\ Committed(w.by)
      BY DEF Of, Store
    <2> QED
      BY <1>4, <2>1, StoredIncidentsDiffer, DeletersAreOpen
  <1>5. \A w \in Store \cup Mine(r) : RowIs(w)
    BY <1>1 DEF RowsInv
  <1>6. ASSUME NEW a \in Of("agent_runs", Store), NEW e \in ToolEvidence(Store), a.key = e.key
        PROVE  a.parent = e.parent
    <2>1. a \in Of("agent_runs", rows) /\ e \in ToolEvidence(rows)
      BY <1>1 DEF Of, ToolEvidence
    <2> QED
      BY <1>6, <2>1, RunsAreAbout
  <1> QED
    BY <1>1, <1>2, <1>3, <1>4, <1>5, <1>6 DEF Apart

\* A request makes one run.
LEMMA OwnRunKey ==
  ASSUME IInv, RowsInv, NEW r \in Requests,
         NEW w \in Of("agent_runs", Mine(r)) \cup ToolEvidence(Mine(r))
  PROVE  w.key = <<r, 0>>
  <1>1. w \in rows /\ w.by = r /\ w.table \in {"agent_runs", "evidence"}
    BY DEF Of, Mine, ToolEvidence
  <1>2. w.key \in Keys
    BY <1>1 DEF IInv, TypeOK, AllRows
  <1>3. w.key[1] = r
    BY <1>1 DEF RowsInv, RowIs
  <1>4. w.key[2] = 0
    BY <1>1 DEF RowsInv, RowIs, ToolEvidence, Of, IsAlertEvidence
  <1> QED
    BY <1>2, <1>3, <1>4 DEF Keys

\* Outside a wipe, a request sees whole incidents; and whole investigations, if it is not in
\* the middle of one itself.
LEMMA VisibleIsWhole ==
  ASSUME IInv, ArtifactsInv, NEW r \in Requests, status[r] = "open", ~At(r, "delete")
  PROVE  /\ IncidentsWhole(Visible(r))
         /\ ~InTheMiddle(r) => Whole(Visible(r))
  <1>1. Wiped(r) = {} /\ Local(r)
    BY DEF ArtifactsInv, Wiped
  <1>2. /\ Closed(Store, gone[r], {}) /\ OwnWhole(Mine(r)) /\ OwnRuns(r)
        /\ Parented(Mine(r), Visible(r))
    BY <1>1 DEF Local
  <1>3. Apart(Mine(r), Store, gone[r]) /\ Whole(Store)
    BY StoreApart DEF ArtifactsInv
  <1>4. Visible(r) = Mine(r) \cup (Store \ gone[r])
    BY ViewOf
  <1>5. ~InTheMiddle(r) => RunsPaired(Mine(r))
    <2> SUFFICES ASSUME ~InTheMiddle(r) PROVE RunsPaired(Mine(r))
      OBVIOUS
    <2>1. Of("agent_runs", Mine(r)) # {} <=> ToolEvidence(Mine(r)) # {}
      BY <1>2 DEF OwnRuns
    <2>2. \A w \in Of("agent_runs", Mine(r)) \cup ToolEvidence(Mine(r)) : w.key = <<r, 0>>
      BY OwnRunKey DEF ArtifactsInv
    <2> QED
      BY <2>1, <2>2 DEF RunsPaired
  <1> QED
    BY <1>2, <1>3, <1>4, <1>5, ViewIsWhole

-------------------------------------------------------------------------------
(* What one request does, the others do not notice until it commits.        *)

Untouched(r) ==
  /\ op'[r] = op[r] /\ at'[r] = at[r] /\ status'[r] = status[r]
  /\ gone'[r] = gone[r] /\ snapshot'[r] = snapshot[r] /\ locking'[r] = locking[r]
  /\ context'[r] = context[r] /\ Mine(r)' = Mine(r)

\* A request that is not touched is where it was.
LEMMA UntouchedStays ==
  ASSUME NEW r \in Requests, Untouched(r)
  PROVE  /\ \A name : At(r, name)' <=> At(r, name)
         /\ Argument(r)' = Argument(r)
         /\ Wiped(r)' = Wiped(r) /\ (InTheMiddle(r)' <=> InTheMiddle(r))
  <1>1. \A name : At(r, name)' <=> At(r, name)
    BY DEF Untouched, At
  <1>2. Argument(r)' = Argument(r)
    BY DEF Untouched, Argument
  <1> QED
    BY <1>1, <1>2 DEF Wiped, InTheMiddle

\* What an open request has inserted and deleted stays as it is, as long as the store does.
LEMMA LocalFrame ==
  ASSUME NEW r \in Requests, Untouched(r), Store' = Store, Local(r)
  PROVE  Local(r)'
  <1>1. /\ \A name : At(r, name)' <=> At(r, name)
        /\ Argument(r)' = Argument(r)
        /\ Wiped(r)' = Wiped(r) /\ (InTheMiddle(r)' <=> InTheMiddle(r))
    BY UntouchedStays
  <1>2. /\ op'[r] = op[r] /\ at'[r] = at[r] /\ status'[r] = status[r]
        /\ gone'[r] = gone[r] /\ snapshot'[r] = snapshot[r] /\ locking'[r] = locking[r]
        /\ context'[r] = context[r] /\ Mine(r)' = Mine(r)
    BY DEF Untouched
  <1>3. Visible(r) = (Mine(r) \cup Store) \ gone[r]
    BY DEF Visible, Mine, Store
  <1>4. Visible(r)' = (Mine(r)' \cup Store') \ gone'[r]
    BY DEF Visible, Mine, Store
  <1>5. Visible(r)' = Visible(r)
    BY <1>2, <1>3, <1>4
  <1>6. Parented(Mine(r), Visible(r))'
    BY <1>2, <1>5 DEF Local, Parented, Of
  <1>7. Closed(Store, gone[r], Wiped(r))'
    BY <1>1, <1>2 DEF Local, Closed
  <1>8. (locking[r] => Chosen(Argument(r), Store, gone[r], snapshot[r]))'
    BY <1>1, <1>2 DEF Local, Chosen
  <1>9. (locking[r] => Of(Argument(r), Mine(r)) \subseteq snapshot[r])'
    BY <1>1, <1>2 DEF Local, Of
  <1>10. (\A w \in Mine(r) : w.table \notin Wiped(r))'
    BY <1>1, <1>2 DEF Local
  <1>11. ("evidence" \notin Wiped(r) => OwnWhole(Mine(r)) /\ OwnRuns(r))'
    <2>1. OwnWhole(Mine(r))' <=> OwnWhole(Mine(r))
      BY <1>2 DEF OwnWhole, AlertsPaired, IncidentsWhole, TruthsPaired, AlertEvidence, Of
    <2>2. OwnRuns(r)' <=> OwnRuns(r)
      BY <1>1, <1>2 DEF OwnRuns, ToolEvidence, Of
    <2> QED
      BY <1>1, <2>1, <2>2 DEF Local
  <1>12. (op[r] = <<"detect">> /\ at[r] <= 3 => Mine(r) = {})'
    BY <1>2 DEF Local
  <1>13. (HasContext(r) => GivenIncident(r))'
    <2>1. HasContext(r)' <=> HasContext(r)
      BY <1>1, <1>2 DEF HasContext, ToolEvidence, Of
    <2>2. GivenIncident(r)' <=> GivenIncident(r)
      BY <1>2, <1>5 DEF GivenIncident, Of, Subjects
    <2> QED
      BY <2>1, <2>2 DEF Local
  <1> QED
    BY <1>6, <1>7, <1>8, <1>9, <1>10, <1>11, <1>12, <1>13 DEF Local

\* A step of q that does not commit keeps the invariant, if it keeps what is said of all rows
\* and of q.
LEMMA StepKeeps ==
  ASSUME ArtifactsInv, NEW q \in Requests, Store' = Store,
         \A r \in Requests \ {q} : Untouched(r),
         RowsInv', OneIncident', Pinned',
         status'[q] \notin {"idle", "ok"}, status'[q] = "open" => Local(q)'
  PROVE  ArtifactsInv'
  <1>1. Whole(Store)'
    BY DEF ArtifactsInv, Whole, AlertsPaired, IncidentsWhole, TruthsPaired, RunsPaired, Parented,
           AlertEvidence, ToolEvidence, Of
  <1>2. ASSUME NEW r \in Requests
        PROVE  /\ status'[r] = "idle" => at'[r] = 1
               /\ status'[r] = "open" => Local(r)'
               /\ status'[r] = "ok" => Answered(r)'
    <2>1. CASE r = q
      BY <2>1
    <2>2. CASE r # q
      <3>1. Untouched(r) /\ status'[r] = status[r] /\ at'[r] = at[r] /\ context'[r] = context[r]
        BY <2>2 DEF Untouched
      <3>2. status'[r] = "open" => Local(r)'
        BY <3>1, LocalFrame DEF ArtifactsInv
      <3>3. status'[r] = "ok" => Answered(r)'
        <4>1. status[r] = "ok" => Answered(r)
          BY DEF ArtifactsInv
        <4>2. /\ ToolEvidence(Store)' = ToolEvidence(Store)
              /\ Of("incidents", Store)' = Of("incidents", Store)
          BY DEF ToolEvidence, Of
        <4>3. Answered(r) => Answered(r)'
          BY <3>1, <4>2 DEF Answered
        <4> QED
          BY <3>1, <4>1, <4>3
      <3> QED
        BY <3>1, <3>2, <3>3 DEF ArtifactsInv
    <2> QED
      BY <2>1, <2>2
  <1> QED
    BY <1>1, <1>2 DEF ArtifactsInv

\* Rows that are as they should be stay so.
LEMMA FewerRows == ASSUME RowsInv, op' = op, rows' \subseteq rows PROVE RowsInv'
  <1>1. \A w : IsAbout(w)' <=> IsAbout(w)
    BY DEF IsAbout, ToolEvidence, Of, Subjects
  <1> QED
    BY <1>1 DEF RowsInv, RowIs

\* So they do with new ones that are.
LEMMA RowsStay ==
  ASSUME RowsInv, op' = op, NEW new, rows' = rows \cup new, \A w \in new : RowIs(w) /\ IsAbout(w)
  PROVE  RowsInv'
  <1>1. \A w : IsAbout(w)' <=> IsAbout(w)
    BY DEF IsAbout, ToolEvidence, Of, Subjects
  <1> QED
    BY <1>1 DEF RowsInv, RowIs

\* Where a request is after its statement.
LEMMA Onward ==
  ASSUME TypeOK, NEW r \in Requests, NEW name, At(r, name), Advance(r), op' = op, status' = status
  PROVE  /\ at'[r] = at[r] + 1
         /\ name # "delete" => Wiped(r) = {} /\ Wiped(r)' = {}
         /\ At(r, "tool")' <=> name = "context"
         /\ At(r, "context")' <=> name = "run"
         /\ name = "delete" /\ Argument(r) # "data" =>
              At(r, "delete")' /\ Argument(r)' = NextTable[Argument(r)]
         /\ name = "delete" /\ Argument(r) = "data" => Wiped(r)' = {} /\ ~At(r, "delete")'
  <1> DEFINE p == Program[op[r]]
             s == p[at[r]]
             t == p[at[r] + 1]
  <1>1. /\ s[1] = name /\ at[r] \in 1 .. Len(p) /\ status[r] = "open" /\ Argument(r) = s[2]
        /\ name = "delete" => Argument(r) \in Tables
    BY StatementType DEF Argument
  <1>2. /\ at[r] < Len(p) => Follows(s, t)
        /\ ~Leaves(s) => at[r] < Len(p)
        /\ Len(p) \in Nat
    BY NextStatement
  <1>3. /\ at'[r] = at[r] + 1
        /\ op'[r] = op[r] /\ status'[r] = "open"
    BY <1>1 DEF TypeOK, Advance
  <1>4. Argument(r)' = t[2]
    BY <1>3 DEF Argument
  <1>5. ASSUME NEW n PROVE At(r, n)' <=> at[r] < Len(p) /\ t[1] = n
    BY <1>1, <1>2, <1>3 DEF At
  <1>6. ASSUME NEW n PROVE At(r, n) <=> name = n
    BY <1>1 DEF At
  <1>7. At(r, "delete") <=> name = "delete"
    BY <1>6
  <1> HIDE DEF p, s, t
  <1>8. At(r, "tool")' <=> name = "context"
    BY <1>1, <1>2, <1>5 DEF Follows, Leaves, Enters
  <1>9. At(r, "context")' <=> name = "run"
    BY <1>1, <1>2, <1>5 DEF Follows, Leaves, Enters
  <1>10. name = "delete" /\ Argument(r) # "data" =>
           At(r, "delete")' /\ Argument(r)' = NextTable[Argument(r)]
    <2> SUFFICES ASSUME name = "delete", Argument(r) # "data"
                 PROVE  At(r, "delete")' /\ Argument(r)' = NextTable[Argument(r)]
      OBVIOUS
    <2>1. at[r] < Len(p) /\ t = <<"delete", NextTable[s[2]]>>
      BY <1>1, <1>2 DEF Follows, Leaves
    <2> QED
      BY <1>1, <1>4, <1>5, <2>1
  <1>11. name = "delete" /\ Argument(r) = "data" => Wiped(r)' = {} /\ ~At(r, "delete")'
    <2> SUFFICES ASSUME name = "delete", Argument(r) = "data"
                 PROVE  Wiped(r)' = {} /\ ~At(r, "delete")'
      OBVIOUS
    <2>1. ~At(r, "delete")'
      BY <1>1, <1>2, <1>5 DEF Follows, Leaves
    <2> QED
      BY <2>1 DEF Wiped
  <1>12. name # "delete" => Wiped(r) = {} /\ Wiped(r)' = {}
    <2> SUFFICES ASSUME name # "delete" PROVE Wiped(r) = {} /\ Wiped(r)' = {}
      OBVIOUS
    <2>1. Wiped(r) = {}
      BY <1>7 DEF Wiped
    <2>2. At(r, "delete")' => Argument(r)' = "evidence"
      BY <1>1, <1>2, <1>4, <1>5 DEF Follows, Leaves, Enters
    <2>3. Earlier["evidence"] = {}
      BY DEF Earlier, Tables
    <2>4. Wiped(r)' = {}
      BY <2>2, <2>3 DEF Wiped
    <2> QED
      BY <2>1, <2>4
  <1> QED
    BY <1>3, <1>8, <1>9, <1>10, <1>11, <1>12

-------------------------------------------------------------------------------
(* Statements that insert.                                                 *)

\* What an INSERT of new rows changes.
LEMMA InsertIs ==
  ASSUME IInv, NEW q \in Requests, status[q] = "open", NEW new, \A w \in new : w.by = q,
         rows' = rows \cup new, status' = status, gone' = gone
  PROVE  /\ Store' = Store /\ Mine(q)' = Mine(q) \cup new /\ Visible(q)' = Visible(q) \cup new
         /\ \A r \in Requests \ {q} : Mine(r)' = Mine(r)
  <1>1. ~Committed(q) /\ \A x : Committed(x)' <=> Committed(x)
    BY OpenIsUncommitted DEF Committed
  <1>2. \A w \in gone[q] : w.by # q
    BY DEF IInv, GoneInv
  <1>3. Store' = Store
    BY <1>1 DEF Store
  <1>4. Visible(q)' = Visible(q) \cup new
    BY <1>1, <1>2 DEF Visible
  <1> QED
    BY <1>3, <1>4 DEF Mine

\* The new rows do not refer to what others delete, and no new incident has the key of one
\* that q has not deleted.
Fresh(q, new) ==
  /\ \A r \in Requests \ {q}, c \in new : \A i \in gone[r] : ~Child(c, i)
  /\ \A v \in Of("incidents", new), w \in Of("incidents", rows \cup new) :
       v.key = w.key => v = w \/ w \in gone[q]

\* An INSERT keeps the invariant if the rows of the request are whole again.
LEMMA InsertKeeps ==
  ASSUME IInv, ArtifactsInv, NEW q \in Requests, NEW name, At(q, name), name # "delete",
         NEW new, \A w \in new : w.by = q /\ RowIs(w) /\ IsAbout(w),
         rows' = rows \cup new, Advance(q), UNCHANGED <<op, status, gone, snapshot, locking>>,
         \A r \in Requests \ {q} : context'[r] = context[r],
         Fresh(q, new), Parented(new, Visible(q) \cup new), OwnWhole(Mine(q) \cup new),
         op[q] = <<"detect">> /\ at[q] < 3 => new = {},
         OwnRuns(q)', HasContext(q)' => GivenIncident(q)'
  PROVE  ArtifactsInv'
  <1>1. /\ op' = op /\ status' = status /\ gone' = gone /\ snapshot' = snapshot
        /\ locking' = locking /\ at' = [at EXCEPT ![q] = @ + 1]
    BY DEF Advance
  <1>2. status[q] = "open" /\ TypeOK /\ at[q] \in Nat
    BY DEF At, IInv, TypeOK
  <1>3. /\ Store' = Store /\ Mine(q)' = Mine(q) \cup new /\ Visible(q)' = Visible(q) \cup new
        /\ \A r \in Requests \ {q} : Mine(r)' = Mine(r)
    BY <1>1, <1>2, InsertIs
  <1>4. at'[q] = at[q] + 1 /\ Wiped(q) = {} /\ Wiped(q)' = {}
    BY <1>1, <1>2, Onward
  <1>5. \A r \in Requests \ {q} : Untouched(r)
    BY <1>1, <1>2, <1>3 DEF Untouched, TypeOK
  <1>6. RowsInv'
    BY <1>1, RowsStay DEF ArtifactsInv
  <1>7. OneIncident'
    <2> SUFFICES ASSUME NEW v \in Of("incidents", rows'), NEW w \in Of("incidents", rows'),
                        v.key = w.key, v # w
                 PROVE  \E r \in Requests :
                          (v \in gone[r] /\ w.by = r) \/ (w \in gone[r] /\ v.by = r)
      BY <1>1 DEF OneIncident, Of
    <2>1. CASE v \in new
      BY <2>1 DEF Fresh, Of
    <2>2. CASE w \in new
      BY <2>2 DEF Fresh, Of
    <2>3. CASE v \in rows /\ w \in rows
      BY <2>3 DEF ArtifactsInv, OneIncident, Of
    <2> QED
      BY <2>1, <2>2, <2>3 DEF Of
  <1>8. Pinned'
    BY <1>1 DEF ArtifactsInv, Pinned, Fresh
  <1>9. Local(q)
    BY <1>2 DEF ArtifactsInv
  <1>10. ~At(q, "delete")
    BY DEF At
  <1>11. locking'[q] = FALSE
    BY <1>1, <1>10, NotLocking
  <1>12. Parented(Mine(q), Visible(q))'
    BY <1>3, <1>9 DEF Local, Parented, Of
  <1>13. Closed(Store, gone[q], Wiped(q))'
    <2>1. Closed(Store, gone[q], {})
      BY <1>4, <1>9 DEF Local
    <2> QED
      BY <1>1, <1>3, <1>4, <2>1 DEF Closed
  <1>14. OwnWhole(Mine(q))'
    BY <1>3 DEF OwnWhole, AlertsPaired, IncidentsWhole, TruthsPaired, AlertEvidence, Of
  <1>15. (op[q] = <<"detect">> /\ at[q] <= 3 => Mine(q) = {})'
    <2> SUFFICES ASSUME op[q] = <<"detect">>, at[q] + 1 <= 3 PROVE Mine(q) \cup new = {}
      BY <1>1, <1>3, <1>4
    <2> QED
      BY <1>2, <1>9 DEF Local
  <1>16. Local(q)'
    BY <1>4, <1>11, <1>12, <1>13, <1>14, <1>15 DEF Local
  <1>17. status'[q] = "open"
    BY <1>1, <1>2
  <1> QED
    BY <1>3, <1>5, <1>6, <1>7, <1>8, <1>16, <1>17, StepKeeps

\* A statement that is none of an investigation keeps the run and what was given to it.
LEMMA RunKept ==
  ASSUME IInv, ArtifactsInv, NEW q \in Requests, NEW name, At(q, name),
         name \notin {"delete", "run", "context", "tool"},
         NEW new, \A w \in new : w.by = q /\ w.table # "agent_runs" /\ w \notin ToolEvidence(new),
         rows' = rows \cup new, Advance(q), UNCHANGED <<op, status, gone>>, context' = context,
         HasContext(q) => \A i \in Of("incidents", new) : i.key \notin Subjects(op[q])
  PROVE  OwnRuns(q)' /\ (HasContext(q)' => GivenIncident(q)')
  <1>1. /\ status[q] = "open" /\ TypeOK /\ Local(q)
        /\ op' = op /\ status' = status /\ gone' = gone
    BY DEF At, IInv, ArtifactsInv
  <1>2. Mine(q)' = Mine(q) \cup new /\ Visible(q)' = Visible(q) \cup new
    BY <1>1, InsertIs
  <1>3. /\ ~At(q, "context") /\ ~At(q, "tool") /\ Wiped(q) = {}
        /\ ~At(q, "tool")' /\ ~At(q, "context")'
    BY <1>1, Onward DEF At
  <1>4. Of("agent_runs", Mine(q))' = Of("agent_runs", Mine(q))
    BY <1>2 DEF Of
  <1>5. ToolEvidence(Mine(q))' = ToolEvidence(Mine(q))
    BY <1>2 DEF ToolEvidence, Of, IsAlertEvidence
  <1>6. OwnRuns(q)'
    BY <1>1, <1>3, <1>4, <1>5 DEF OwnRuns, InTheMiddle, Local
  <1>7. HasContext(q)' => HasContext(q)
    BY <1>3, <1>5 DEF HasContext
  <1>8. ASSUME HasContext(q) PROVE GivenIncident(q)'
    <2>1. GivenIncident(q) /\ Subjects(op[q])' = Subjects(op[q])
      BY <1>1, <1>8 DEF Local
    <2>2. ASSUME NEW i \in Of("incidents", Visible(q)'), i.key \in Subjects(op[q])
          PROVE  i \in Of("incidents", Visible(q))
      BY <1>2, <1>8, <2>2 DEF Of
    <2> QED
      BY <2>1, <2>2 DEF GivenIncident, Of
  <1> QED
    BY <1>6, <1>7, <1>8

\* Whether a request's rows are whole depends on these tables.
LEMMA SameParts ==
  ASSUME NEW M, NEW N, Of("alerts", N) = Of("alerts", M), Of("incidents", N) = Of("incidents", M),
         Of("ground_truth", N) = Of("ground_truth", M), AlertEvidence(N) = AlertEvidence(M),
         OwnWhole(M)
  PROVE  OwnWhole(N)
  <1>1. AlertsPaired(N)
    BY DEF OwnWhole, AlertsPaired
  <1>2. IncidentsWhole(N)
    BY DEF OwnWhole, IncidentsWhole
  <1>3. TruthsPaired(N)
    BY DEF OwnWhole, TruthsPaired
  <1> QED
    BY <1>1, <1>2, <1>3 DEF OwnWhole

\* A statement that reads, or loads the data set.
LEMMA PlainKeeps ==
  ASSUME IInv, ArtifactsInv, NEW q \in Requests, NEW name, At(q, name),
         name \notin {"delete", "run", "context", "tool"},
         NEW new, \A w \in new : w.by = q /\ w.table = "data",
         rows' = rows \cup new, Advance(q), UNCHANGED <<op, status, gone, snapshot, locking>>,
         context' = context, op[q] = <<"detect">> => new = {}
  PROVE  ArtifactsInv'
  <1>1. /\ status[q] = "open" /\ Local(q) /\ Wiped(q) = {} /\ op' = op /\ status' = status
        /\ gone' = gone
    BY Onward DEF At, ArtifactsInv, IInv
  <1>2. \A w \in new : /\ w.by = q /\ RowIs(w) /\ IsAbout(w) /\ w.table \notin ChildTables
                       /\ w.table \notin {"incidents", "alerts", "agent_runs"}
                       /\ w \notin ToolEvidence(new)
    BY DEF RowIs, IsAbout, ToolEvidence, Of, ChildTables
  <1>3. Fresh(q, new)
    BY <1>2 DEF Fresh, Child, Of
  <1>4. Parented(new, Visible(q) \cup new)
    BY <1>2 DEF Parented
  <1>5. OwnWhole(Mine(q) \cup new)
    <2>1. OwnWhole(Mine(q))
      BY <1>1 DEF Local
    <2>2. /\ Of("alerts", Mine(q) \cup new) = Of("alerts", Mine(q))
          /\ Of("incidents", Mine(q) \cup new) = Of("incidents", Mine(q))
          /\ Of("ground_truth", Mine(q) \cup new) = Of("ground_truth", Mine(q))
          /\ AlertEvidence(Mine(q) \cup new) = AlertEvidence(Mine(q))
      BY DEF AlertEvidence, Of
    <2> QED
      BY <2>1, <2>2, SameParts
  <1>6. HasContext(q) => \A i \in Of("incidents", new) : i.key \notin Subjects(op[q])
    BY <1>2 DEF Of
  <1>7. OwnRuns(q)' /\ (HasContext(q)' => GivenIncident(q)')
    BY <1>1, <1>2, <1>6, RunKept
  <1> QED
    BY <1>2, <1>3, <1>4, <1>5, <1>7, InsertKeeps

-------------------------------------------------------------------------------
(* Requests begin, fail and delete.                                        *)

\* A request that is accepted has done nothing yet.
LEMMA BeginKeeps == ASSUME IInv, ArtifactsInv, NEW q \in Requests, Begin(q) PROVE ArtifactsInv'
  <1>1. /\ status[q] = "idle" /\ status' = [status EXCEPT ![q] = "open"]
        /\ op' = op /\ at' = at /\ rows' = rows /\ gone' = gone /\ snapshot' = snapshot
        /\ locking' = locking /\ context' = context
    BY DEF Begin
  <1>2. status'[q] = "open" /\ \A r \in Requests \ {q} : status'[r] = status[r]
    BY <1>1 DEF IInv, TypeOK
  <1>3. \A x : Committed(x)' <=> Committed(x)
    BY <1>1, <1>2, SameCommitted
  <1>4. gone[q] = {} /\ snapshot[q] = {} /\ locking[q] = FALSE
    BY <1>1 DEF IInv, GoneInv, SnapshotInv, At, TypeOK
  <1>5. Mine(q) = {}
    BY <1>1, NoNameClash DEF IInv, OwnersInv, Mine
  <1>6. Store' = Store /\ \A r \in Requests : Mine(r)' = Mine(r)
    BY <1>1, <1>3 DEF Store, Mine
  <1>7. ~At(q, "context")' /\ ~At(q, "tool")'
    <2> DEFINE p == Program[op[q]]
    <2>1. op[q] \in Operations /\ p \in Programs(StatementsOf(op[q]))
      BY ProgramIsProgram DEF IInv, TypeOK
    <2>2. Enters(p[1]) /\ at'[q] = 1
      BY <1>1, <2>1 DEF Programs, InOrder, ArtifactsInv
    <2> QED
      BY <1>1, <2>2 DEF At, Enters
  <1>8. Local(q)'
    <2>1. Mine(q)' = {} /\ gone'[q] = {} /\ locking'[q] = FALSE
      BY <1>1, <1>4, <1>5, <1>6
    <2>2. Parented(Mine(q), Visible(q))'
      BY <2>1 DEF Parented
    <2>3. Closed(Store, gone[q], Wiped(q))'
      BY <2>1 DEF Closed
    <2>4. OwnWhole(Mine(q))'
      BY <2>1 DEF OwnWhole, AlertsPaired, IncidentsWhole, TruthsPaired, AlertEvidence, Of
    <2>5. OwnRuns(q)'
      BY <1>7, <2>1 DEF OwnRuns, InTheMiddle, ToolEvidence, Of
    <2>6. ~HasContext(q)'
      BY <1>7, <2>1 DEF HasContext, ToolEvidence, Of
    <2> QED
      BY <2>1, <2>2, <2>3, <2>4, <2>5, <2>6 DEF Local
  <1>9. \A r \in Requests \ {q} : Untouched(r)
    BY <1>1, <1>2, <1>6 DEF Untouched
  <1>10. RowsInv'
    BY <1>1, FewerRows DEF ArtifactsInv
  <1>11. OneIncident' /\ Pinned'
    BY <1>1 DEF ArtifactsInv, OneIncident, Pinned, Of
  <1> QED
    BY <1>2, <1>6, <1>8, <1>9, <1>10, <1>11, StepKeeps

\* A request that fails leaves nothing.
LEMMA EndKeeps ==
  ASSUME IInv, ArtifactsInv, NEW q \in Requests, status[q] = "open", NEW how \in {"missing", "error"},
         End(q, how)
  PROVE  ArtifactsInv'
  <1>1. /\ status' = [status EXCEPT ![q] = how]
        /\ rows' = {w \in rows : w.by # q}
        /\ gone' = [gone EXCEPT ![q] = {}]
        /\ snapshot' = [snapshot EXCEPT ![q] = {}]
        /\ locking' = [locking EXCEPT ![q] = FALSE]
        /\ op' = op /\ at' = at /\ context' = context
    BY DEF End
  <1>2. /\ status'[q] = how /\ gone'[q] = {}
        /\ \A r \in Requests \ {q} : /\ status'[r] = status[r] /\ gone'[r] = gone[r]
                                     /\ snapshot'[r] = snapshot[r] /\ locking'[r] = locking[r]
    BY <1>1 DEF IInv, TypeOK
  <1>3. ~Committed(q) /\ \A x : Committed(x)' <=> Committed(x)
    <2>1. ~Committed(q)
      BY OpenIsUncommitted
    <2>2. \A r \in Requests : status'[r] = "ok" <=> status[r] = "ok"
      BY <1>2
    <2> QED
      BY <2>1, <2>2, SameCommitted
  <1>4. Store' = Store /\ \A r \in Requests \ {q} : Mine(r)' = Mine(r)
    BY <1>1, <1>3 DEF Store, Mine
  <1>5. \A r \in Requests \ {q} : Untouched(r)
    BY <1>1, <1>2, <1>4 DEF Untouched
  <1>6. RowsInv'
    BY <1>1, FewerRows DEF ArtifactsInv
  <1>7. OneIncident'
    <2> SUFFICES ASSUME NEW v \in Of("incidents", rows'), NEW w \in Of("incidents", rows'),
                        v.key = w.key, v # w
                 PROVE  \E r \in Requests :
                          (v \in gone'[r] /\ w.by = r) \/ (w \in gone'[r] /\ v.by = r)
      BY DEF OneIncident, Of
    <2>1. /\ v \in Of("incidents", rows) /\ w \in Of("incidents", rows)
          /\ v.by # q /\ w.by # q
      BY <1>1 DEF Of
    <2>2. PICK r \in Requests : (v \in gone[r] /\ w.by = r) \/ (w \in gone[r] /\ v.by = r)
      BY <2>1 DEF ArtifactsInv, OneIncident
    <2> QED
      BY <1>2, <2>1, <2>2
  <1>8. Pinned'
    BY <1>1, <1>2 DEF ArtifactsInv, Pinned
  <1> QED
    BY <1>2, <1>4, <1>5, <1>6, <1>7, <1>8, StepKeeps

\* A DELETE chooses all that the request can see of its table.
LEMMA StartDeleteKeeps ==
  ASSUME IInv, ArtifactsInv, NEW q \in Requests, StartDelete(q) PROVE ArtifactsInv'
  <1> DEFINE C == Of(Argument(q), Visible(q))
  <1>1. /\ status' = status /\ op' = op /\ gone' = gone /\ at' = at /\ rows' = rows
        /\ context' = context
        /\ snapshot' = [snapshot EXCEPT ![q] = C]
        /\ locking' = [locking EXCEPT ![q] = TRUE]
        /\ At(q, "delete")
    BY DEF StartDelete
  <1>2. status[q] = "open" /\ Local(q)
    BY <1>1 DEF At, ArtifactsInv
  <1>3. /\ snapshot'[q] = C /\ locking'[q] = TRUE
        /\ \A r \in Requests \ {q} : snapshot'[r] = snapshot[r] /\ locking'[r] = locking[r]
    BY <1>1 DEF IInv, TypeOK
  <1> HIDE DEF C
  <1>4. \A x : Committed(x)' <=> Committed(x)
    BY <1>1, SameCommitted
  <1>5. Store' = Store /\ Visible(q)' = Visible(q) /\ \A r \in Requests : Mine(r)' = Mine(r)
    BY <1>1, <1>4 DEF Store, Mine, Visible
  <1>6. \A r \in Requests \ {q} : Untouched(r)
    BY <1>1, <1>3, <1>5 DEF Untouched
  <1>7. Visible(q) = Mine(q) \cup (Store \ gone[q])
    BY <1>2, ViewOf
  <1>8. /\ \A name : At(q, name)' <=> At(q, name)
        /\ Argument(q)' = Argument(q) /\ Wiped(q)' = Wiped(q)
    <2>1. (\A name : At(q, name)' <=> At(q, name)) /\ Argument(q)' = Argument(q)
      BY <1>1 DEF At, Argument
    <2> QED
      BY <2>1 DEF Wiped
  <1>9. Local(q)'
    <2>1. Parented(Mine(q), Visible(q))'
      BY <1>2, <1>5 DEF Local, Parented, Of
    <2>2. Closed(Store, gone[q], Wiped(q))'
      BY <1>1, <1>2, <1>5, <1>8 DEF Local, Closed
    <2>3. Chosen(Argument(q), Store, gone[q], C)
      BY <1>7 DEF Chosen, C, Of, Pair, Child
    <2>4. Chosen(Argument(q), Store, gone[q], snapshot[q])'
      BY <1>1, <1>3, <1>5, <1>8, <2>3 DEF Chosen
    <2>5. (Of(Argument(q), Mine(q)) \subseteq snapshot[q])'
      BY <1>3, <1>5, <1>7, <1>8 DEF Of, C
    <2>6. (\A w \in Mine(q) : w.table \notin Wiped(q))'
      BY <1>2, <1>5, <1>8 DEF Local
    <2>7. ("evidence" \notin Wiped(q) => OwnWhole(Mine(q)) /\ OwnRuns(q))'
      <3>1. OwnWhole(Mine(q)) => OwnWhole(Mine(q))'
        BY <1>5 DEF OwnWhole, AlertsPaired, IncidentsWhole, TruthsPaired, AlertEvidence, Of
      <3>2. OwnRuns(q)' <=> OwnRuns(q)
        BY <1>5, <1>8 DEF OwnRuns, InTheMiddle, ToolEvidence, Of
      <3> QED
        BY <1>2, <1>8, <3>1, <3>2 DEF Local
    <2>8. (op[q] = <<"detect">> /\ at[q] <= 3 => Mine(q) = {})'
      BY <1>1, <1>2, <1>5 DEF Local
    <2>9. (HasContext(q) => GivenIncident(q))'
      <3>1. HasContext(q)' <=> HasContext(q)
        BY <1>5, <1>8 DEF HasContext, ToolEvidence, Of
      <3>2. GivenIncident(q)' <=> GivenIncident(q)
        BY <1>1, <1>5 DEF GivenIncident, Of, Subjects
      <3> QED
        BY <1>2, <3>1, <3>2 DEF Local
    <2> QED
      BY <2>1, <2>2, <2>4, <2>5, <2>6, <2>7, <2>8, <2>9 DEF Local
  <1>10. RowsInv'
    BY <1>1, FewerRows DEF ArtifactsInv
  <1>11. OneIncident' /\ Pinned'
    BY <1>1 DEF ArtifactsInv, OneIncident, Pinned, Of
  <1> QED
    BY <1>1, <1>2, <1>5, <1>6, <1>9, <1>10, <1>11, StepKeeps

\* Closed, table by table: what a DELETE adds to what is deleted keeps its partners together,
\* as far as the tables that the wipe has gone through.
LEMMA ClosedFurther ==
  ASSUME NEW t \in Tables, NEW S, NEW G, NEW C, NEW D,
         Closed(S, G, Earlier[t]), Chosen(t, S, G, C), Parented(S, S),
         \A w \in D : w.table = t, \A w \in S \cap C : w \in D,
         \A i \in G \cup D, c \in S : Child(c, i) => c \in G
  PROVE  Closed(S, G \cup D, IF t = "data" THEN {} ELSE Earlier[NextTable[t]])
  <1> DEFINE W == IF t = "data" THEN {} ELSE Earlier[NextTable[t]]
             H == G \cup D
  <1>1. /\ t \in {"evidence", "agent_runs", "ground_truth", "alerts", "incidents", "data"}
        /\ t # "data" => W = Earlier[t] \cup {t}
    BY DEF Tables, Earlier, NextTable
  <1>2. /\ "evidence" \notin W \/ "incidents" \in W => t \in {"incidents", "data"}
        /\ "alerts" \notin W \/ "incidents" \in W => t # "alerts"
        /\ "evidence" \notin W \/ "alerts" \in W => t \in {"alerts", "incidents", "data"}
    BY DEF Tables, Earlier, NextTable
  <1>3. /\ t = "data" => "incidents" \in Earlier[t] /\ "alerts" \in Earlier[t]
        /\ t = "incidents" => "alerts" \in Earlier[t]
        /\ t \in {"evidence", "agent_runs", "ground_truth"} => "alerts" \notin Earlier[t]
    BY DEF Tables, Earlier
  <1> HIDE DEF W
  <1>4. ASSUME NEW i \in S, NEW c \in S, Child(c, i), c \in H, t \in {"incidents", "data"}
        PROVE  i \in H
    <2>1. c.table \in ChildTables
      BY <1>4 DEF Child
    <2>2. c \in G
      BY <1>4, <2>1 DEF ChildTables
    <2>3. CASE t = "data"
      BY <1>3, <1>4, <2>2, <2>3 DEF Closed
    <2>4. CASE t = "incidents"
      BY <1>4, <2>2, <2>4 DEF Chosen
    <2> QED
      BY <1>4, <2>3, <2>4
  <1>5. ASSUME NEW a \in S, NEW e \in S, Pair(a, e), a \in H, t # "alerts"
        PROVE  e \in H
    <2>1. a.table = "alerts" /\ e.table = "evidence"
      BY <1>5, PairIs
    <2>2. a \in G
      BY <1>5, <2>1
    <2>3. CASE t = "incidents"
      <3>1. PICK i \in Of("incidents", S) : i.key = e.parent
        BY <2>1 DEF Parented, ChildTables
      <3>2. i \in S /\ Child(e, i)
        BY <2>1, <3>1 DEF Child, Of, ChildTables
      <3>3. i \in G \cup C
        BY <1>5, <2>2, <2>3, <3>2 DEF Chosen
      <3> QED
        BY <3>2, <3>3
    <2>4. CASE t # "incidents"
      <3>1. "alerts" \notin Earlier[t] \/ "incidents" \in Earlier[t]
        BY <1>1, <1>3, <1>5, <2>4
      <3> QED
        BY <1>5, <2>2, <3>1 DEF Closed
    <2> QED
      BY <2>3, <2>4
  <1>6. ASSUME NEW a \in S, NEW e \in S, Pair(a, e), e \in H, t \in {"alerts", "incidents", "data"}
        PROVE  a \in H
    <2>1. a.table = "alerts" /\ e.table = "evidence"
      BY <1>6, PairIs
    <2>2. e \in G
      BY <1>6, <2>1
    <2>3. CASE t = "alerts"
      BY <1>6, <2>2, <2>3 DEF Chosen
    <2>4. CASE t # "alerts"
      BY <1>3, <1>6, <2>2, <2>4 DEF Closed
    <2> QED
      BY <2>3, <2>4
  <1>7. Closed(S, H, W)
    BY <1>2, <1>4, <1>5, <1>6 DEF Closed
  <1> QED
    BY <1>7 DEF W

\* A DELETE that leaves no orphans keeps the invariant.
LEMMA FinishDeleteKeeps ==
  ASSUME IInv, ArtifactsInv, NEW q \in Requests, At(q, "delete"), locking[q],
         (UNION {Children(w) : w \in snapshot[q] \cap rows}) \ gone[q] = {},
         rows' = {w \in rows : w \in snapshot[q] \cap rows => w.by # q},
         gone' = [gone EXCEPT ![q] = @ \cup {w \in snapshot[q] \cap rows : w.by # q}],
         snapshot' = [snapshot EXCEPT ![q] = {}], locking' = [locking EXCEPT ![q] = FALSE],
         Advance(q), UNCHANGED <<op, status, found, context>>
  PROVE  ArtifactsInv'
  <1> DEFINE doomed == snapshot[q] \cap rows
             D == {w \in doomed : w.by # q}
             orphans == UNION {Children(w) : w \in snapshot[q] \cap rows}
             t == Argument(q)
  <1>0. orphans \ gone[q] = {}
    OBVIOUS
  <1>1. /\ status' = status /\ op' = op /\ context' = context
        /\ at' = [at EXCEPT ![q] = @ + 1]
    BY DEF Advance
  <1>2. /\ status[q] = "open" /\ TypeOK /\ Local(q) /\ t \in Tables /\ op[q] # <<"detect">>
        /\ Wiped(q) = Earlier[t]
    BY StatementType DEF At, IInv, ArtifactsInv, Wiped
  <1>3. /\ gone'[q] = gone[q] \cup D /\ snapshot'[q] = {} /\ locking'[q] = FALSE
        /\ \A r \in Requests \ {q} : /\ gone'[r] = gone[r] /\ snapshot'[r] = snapshot[r]
                                     /\ locking'[r] = locking[r] /\ at'[r] = at[r]
    BY <1>1, <1>2 DEF TypeOK
  <1>4. \A w \in snapshot[q] : w.table = t /\ (w.by = q \/ Committed(w.by))
    BY DEF IInv, SnapshotInv
  <1>5. ASSUME NEW i \in doomed, NEW c \in rows, Child(c, i) PROVE c \in gone[q]
    <2>1. c \in Children(i)
      BY <1>5 DEF Children, Child
    <2>2. \E w \in snapshot[q] \cap rows : c \in Children(w)
      BY <2>1
    <2>3. c \in orphans
      BY <2>2
    <2> HIDE DEF orphans
    <2> QED
      BY <1>0, <2>3
  <1>6. ~Committed(q) /\ \A x : Committed(x)' <=> Committed(x)
    BY <1>1, <1>2, OpenIsUncommitted DEF Committed
  <1>7. /\ Store' = Store
        /\ \A r \in Requests \ {q} : Mine(r)' = Mine(r)
        /\ Mine(q)' = Mine(q) \ doomed
    BY <1>4, <1>6 DEF Store, Mine
  <1>8. Of(t, Mine(q)) \subseteq doomed
    BY <1>2 DEF Local, Mine, Of
  <1>9. /\ at'[q] = at[q] + 1 /\ ~At(q, "tool")' /\ ~At(q, "context")'
        /\ Wiped(q)' = IF t = "data" THEN {} ELSE Earlier[NextTable[t]]
    BY <1>1, <1>2, Onward DEF Wiped
  <1>10. /\ Visible(q) = Mine(q) \cup (Store \ gone[q])
         /\ gone[q] \subseteq Store /\ Store \subseteq rows
    BY <1>2, ViewOf
  <1>11. \A w : w \in Visible(q)' <=> w \in Visible(q) /\ w \notin doomed
    <2>1. \A w : w \in Visible(q)' <=> (w \in Mine(q)' \/ w \in Store') /\ w \notin gone'[q]
      BY DEF Visible, Mine, Store
    <2>2. \A w \in Mine(q) : w \notin gone[q] /\ w \notin D
      BY DEF Mine, IInv, GoneInv
    <2>3. \A w \in Store : w.by # q
      BY <1>6 DEF Store
    <2> QED
      BY <1>3, <1>7, <1>10, <2>1, <2>2, <2>3
  <1>12. RowsInv' /\ OneIncident'
    <2>1. rows' \subseteq rows
      OBVIOUS
    <2>2. \A r \in Requests : gone[r] \subseteq gone'[r]
      BY <1>3
    <2> QED
      BY <1>1, <2>1, <2>2, FewerRows DEF ArtifactsInv, OneIncident, Of
  <1>13. Pinned'
    <2> SUFFICES ASSUME NEW r \in Requests, NEW i \in gone'[r], NEW c \in rows', Child(c, i)
                 PROVE  c \in gone'[r] \/ c.by = r
      BY DEF Pinned
    <2>1. c \in rows
      OBVIOUS
    <2>2. CASE i \in gone[r]
      BY <1>3, <2>1, <2>2 DEF ArtifactsInv, Pinned
    <2>3. CASE i \notin gone[r]
      BY <1>3, <1>5, <2>1, <2>3
    <2> QED
      BY <2>2, <2>3
  <1>14. Parented(Mine(q), Visible(q))'
    <2> SUFFICES ASSUME NEW c \in Mine(q)', c.table \in ChildTables
                 PROVE  \E i \in Of("incidents", Visible(q)') : i.key = c.parent
      BY DEF Parented
    <2>1. c \in Mine(q) /\ c \in rows /\ c.by = q
      BY <1>7 DEF Mine
    <2>2. PICK i \in Of("incidents", Visible(q)) : i.key = c.parent
      BY <1>2, <2>1 DEF Local, Parented
    <2>3. Child(c, i)
      BY <2>2 DEF Child, Of
    <2>4. c \notin gone[q]
      BY <2>1 DEF IInv, GoneInv
    <2>5. i \notin doomed
      BY <1>5, <2>1, <2>3, <2>4
    <2> QED
      BY <1>11, <2>2, <2>5 DEF Of
  <1>15. Closed(Store, gone[q], Wiped(q))'
    <2>1. Closed(Store, gone[q], Earlier[t]) /\ Chosen(t, Store, gone[q], snapshot[q])
      BY <1>2 DEF Local
    <2>2. Parented(Store, Store)
      BY DEF ArtifactsInv, Whole
    <2>3. (\A w \in D : w.table = t) /\ (\A w \in Store \cap snapshot[q] : w \in D)
      BY <1>4, <1>6, <1>10 DEF Store
    <2>4. ASSUME NEW i \in gone[q] \cup D, NEW c \in Store, Child(c, i) PROVE c \in gone[q]
      <3>1. c \in rows /\ c.by # q
        BY <1>6 DEF Store
      <3>2. CASE i \in gone[q]
        BY <2>4, <3>1, <3>2 DEF ArtifactsInv, Pinned
      <3>3. CASE i \in D
        BY <1>5, <2>4, <3>1, <3>3
      <3> QED
        BY <3>2, <3>3
    <2> HIDE DEF D, t
    <2>5. Closed(Store, gone[q] \cup D, IF t = "data" THEN {} ELSE Earlier[NextTable[t]])
      BY <1>2, <2>1, <2>2, <2>3, <2>4, ClosedFurther
    <2> QED
      BY <1>3, <1>7, <1>9, <2>5
  <1>16. (\A w \in Mine(q) : w.table \notin Wiped(q))'
    <2>1. ASSUME NEW w \in Mine(q)' PROVE w.table \notin Wiped(q)'
      <3>1. w \in Mine(q) /\ w \notin doomed
        BY <1>7
      <3>2. w.table # t /\ w.table \notin Earlier[t]
        BY <1>2, <1>8, <3>1 DEF Of, Local
      <3>3. t # "data" => Earlier[NextTable[t]] = Earlier[t] \cup {t}
        BY <1>2 DEF Tables, Earlier, NextTable
      <3> QED
        BY <1>9, <3>2, <3>3
    <2> QED
      BY <2>1
  <1>17. ("evidence" \notin Wiped(q) => OwnWhole(Mine(q)) /\ OwnRuns(q))'
    <2> SUFFICES ASSUME "evidence" \notin Wiped(q)' PROVE OwnWhole(Mine(q))' /\ OwnRuns(q)'
      OBVIOUS
    <2>1. t = "data"
      BY <1>2, <1>9 DEF Tables, Earlier, NextTable
    <2>2. Mine(q)' = {}
      <3>1. ASSUME NEW w \in Mine(q)' PROVE FALSE
        <4>1. w \in Mine(q) /\ w \notin doomed /\ w.table \in Tables
          BY <1>2, <1>7 DEF Mine, TypeOK, AllRows
        <4>2. w.table # t /\ w.table \notin Earlier[t]
          BY <1>2, <1>8, <4>1 DEF Of, Local
        <4>3. Earlier["data"] = Tables \ {"data"}
          BY DEF Earlier, Tables
        <4> QED
          BY <2>1, <4>1, <4>2, <4>3
      <3> QED
        BY <3>1
    <2>3. OwnWhole(Mine(q))'
      BY <2>2 DEF OwnWhole, AlertsPaired, IncidentsWhole, TruthsPaired, AlertEvidence, Of
    <2>4. OwnRuns(q)'
      BY <1>9, <2>2 DEF OwnRuns, InTheMiddle, ToolEvidence, Of
    <2> QED
      BY <2>3, <2>4
  <1>18. (HasContext(q) => GivenIncident(q))'
    <2>1. HasContext(q)' => HasContext(q)
      BY <1>7, <1>9 DEF HasContext, ToolEvidence, Of
    <2>2. GivenIncident(q) => GivenIncident(q)'
      BY <1>1, <1>11 DEF GivenIncident, Of, Subjects
    <2> QED
      BY <1>2, <2>1, <2>2 DEF Local
  <1>19. Local(q)'
    <2>1. op'[q] # <<"detect">> /\ locking'[q] = FALSE
      BY <1>1, <1>2, <1>3
    <2> QED
      BY <1>14, <1>15, <1>16, <1>17, <1>18, <2>1 DEF Local
  <1>20. \A r \in Requests \ {q} : Untouched(r)
    BY <1>1, <1>3, <1>7 DEF Untouched
  <1> QED
    BY <1>1, <1>2, <1>7, <1>12, <1>13, <1>19, <1>20, StepKeeps

-------------------------------------------------------------------------------
(* Requests read, load and investigate.                                    *)

\* What one statement of an investigation inserts is no incident, and no part of one.
LEMMA ChildRowKeeps ==
  ASSUME IInv, ArtifactsInv, NEW q \in Requests, InsertChild(q), ~Abort(q) PROVE ArtifactsInv'
  <1> DEFINE key == Argument(q)
             new == IF At(q, "run") THEN {RunRow(q, key)} ELSE {EvidenceRow(q, 0, key)}
  <1>1. /\ At(q, "run") \/ At(q, "tool")
        /\ WaitsFor(q) = {}
        /\ Insert(q, new)
    BY DEF InsertChild
  <1>2. PICK j \in Of("incidents", Visible(q)) : j.key = key
    BY DEF InsertChild
  <1>3. /\ status[q] = "open" /\ Local(q) /\ TypeOK /\ key \in Subjects(op[q])
        /\ op[q] # <<"detect">> /\ Wiped(q) = {}
        /\ At(q, "run") => ~At(q, "tool") /\ ~At(q, "context") /\ ~At(q, "delete") /\ ~At(q, "load")
                           /\ ~At(q, "create")
        /\ At(q, "tool") => ~At(q, "run") /\ ~At(q, "delete") /\ ~At(q, "load") /\ ~At(q, "create")
    BY <1>1, StatementType DEF At, IInv, ArtifactsInv, Wiped
  <1>4. ParentWaitsFor(q, key) = {}
    BY <1>1, <1>3 DEF WaitsFor
  <1>5. /\ op' = op /\ status' = status /\ gone' = gone /\ context' = context /\ Advance(q)
        /\ rows' = rows \cup new
        /\ UNCHANGED <<op, status, gone, snapshot, locking>>
    BY <1>1 DEF Insert
  <1>6. ASSUME NEW w \in new
        PROVE  /\ w.by = q /\ w.key = <<q, 0>> /\ w.parent = key
               /\ w.table \in {"agent_runs", "evidence"}
               /\ At(q, "run") => w.table = "agent_runs"
               /\ At(q, "tool") => w.table = "evidence"
    BY <1>1, <1>3 DEF RunRow, EvidenceRow, Row
  <1>7. PICK n : n \in new
    OBVIOUS
  <1> HIDE DEF new
  <1>8. \A w \in new : w.by = q /\ RowIs(w) /\ IsAbout(w)
    BY <1>3, <1>6 DEF RowIs, IsAbout, ToolEvidence, Of, IsAlertEvidence
  <1>9. Fresh(q, new)
    <2>1. ASSUME NEW r \in Requests \ {q}, NEW c \in new, NEW i \in gone[r], Child(c, i) PROVE FALSE
      <3>1. i.table = "incidents" /\ i.key = key
        BY <1>6, <2>1 DEF Child
      <3>2. ~Committed(r) /\ i \in Store /\ i \notin gone[q]
        BY <2>1, DeletersAreOpen DEF IInv, GoneInv
      <3>3. i \in Of("incidents", Visible(q))
        BY <1>3, <3>1, <3>2, ViewOf DEF Of
      <3>4. r \in ParentWaitsFor(q, key)
        BY <3>1, <3>2, <3>3 DEF ParentWaitsFor, Uncommitted
      <3> QED
        BY <1>4, <3>4
    <2> QED
      BY <1>6, <2>1 DEF Fresh, Of
  <1>10. Parented(new, Visible(q) \cup new)
    BY <1>2, <1>6 DEF Parented, Of
  <1>11. OwnWhole(Mine(q) \cup new)
    <2>1. OwnWhole(Mine(q))
      BY <1>3 DEF Local
    <2>2. /\ Of("alerts", Mine(q) \cup new) = Of("alerts", Mine(q))
          /\ Of("incidents", Mine(q) \cup new) = Of("incidents", Mine(q))
          /\ Of("ground_truth", Mine(q) \cup new) = Of("ground_truth", Mine(q))
          /\ AlertEvidence(Mine(q) \cup new) = AlertEvidence(Mine(q))
      BY <1>6 DEF AlertEvidence, Of, IsAlertEvidence
    <2> QED
      BY <2>1, <2>2, SameParts
  <1>12. Mine(q)' = Mine(q) \cup new /\ Visible(q)' = Visible(q) \cup new
    BY <1>3, <1>5, <1>8, InsertIs
  <1>13. /\ At(q, "context")' <=> At(q, "run")
         /\ ~At(q, "tool")'
    BY <1>1, <1>3, <1>5, Onward
  <1>14. OwnRuns(q)'
    <2>1. CASE At(q, "run")
      <3>1. n \in Of("agent_runs", Mine(q)')
        BY <1>6, <1>7, <1>12, <2>1 DEF Of
      <3> QED
        BY <1>13, <2>1, <3>1 DEF OwnRuns, InTheMiddle, Of
    <2>2. CASE At(q, "tool")
      <3>1. n \in ToolEvidence(Mine(q)')
        BY <1>6, <1>7, <1>12, <2>2 DEF Of, ToolEvidence, IsAlertEvidence
      <3>2. PICK a : a \in Of("agent_runs", Mine(q))
        BY <1>3, <2>2 DEF Local, OwnRuns, InTheMiddle
      <3>3. a \in Of("agent_runs", Mine(q)')
        BY <1>12, <3>2 DEF Of
      <3> QED
        BY <1>3, <1>13, <2>2, <3>1, <3>3 DEF OwnRuns, InTheMiddle
    <2> QED
      BY <1>1, <2>1, <2>2
  <1>15. HasContext(q)' => GivenIncident(q)'
    <2>1. HasContext(q)' => HasContext(q)
      <3>1. CASE At(q, "tool")
        BY <3>1 DEF HasContext
      <3>2. CASE At(q, "run")
        BY <1>6, <1>12, <1>13, <3>2 DEF HasContext, ToolEvidence, Of
      <3> QED
        BY <1>1, <3>1, <3>2
    <2>2. GivenIncident(q) => GivenIncident(q)'
      BY <1>5, <1>6, <1>12 DEF GivenIncident, Of, Subjects
    <2> QED
      BY <1>3, <2>1, <2>2 DEF Local
  <1>16. ~At(q, "delete") /\ \E name : At(q, name) /\ name # "delete"
    BY <1>1, <1>3
  <1> QED
    BY <1>3, <1>5, <1>8, <1>9, <1>10, <1>11, <1>14, <1>15, <1>16, InsertKeeps

\* An investigation is given what it can see of its incident.
LEMMA BuildContextKeeps ==
  ASSUME IInv, ArtifactsInv, NEW q \in Requests, BuildContext(q) PROVE ArtifactsInv'
  <1> DEFINE key == Argument(q)
             given == {w.key : w \in {v \in Visible(q) : IsAlertEvidence(v) /\ v.parent = key}}
  <1>1. /\ At(q, "context") /\ Advance(q) /\ rows' = rows \cup {}
        /\ context' = [context EXCEPT ![q] = given]
        /\ UNCHANGED <<op, status, gone, snapshot, locking>>
        /\ op' = op /\ status' = status /\ gone' = gone
    BY DEF BuildContext
  <1>2. /\ status[q] = "open" /\ Local(q) /\ TypeOK /\ key \in Subjects(op[q])
        /\ op[q] # <<"detect">> /\ Wiped(q) = {} /\ ~At(q, "delete") /\ op[q] \in Operations
    BY <1>1, StatementType DEF At, IInv, ArtifactsInv, Wiped
  <1>3. context'[q] = given /\ \A r \in Requests \ {q} : context'[r] = context[r]
    BY <1>1, <1>2 DEF TypeOK
  <1>4. Mine(q)' = Mine(q) /\ Visible(q)' = Visible(q)
    <2>1. rows' = rows
      BY <1>1
    <2> QED
      BY <1>1, <2>1 DEF Mine, Visible, Committed
  <1>5. At(q, "tool")'
    BY <1>1, <1>2, Onward
  <1>6. OwnRuns(q)'
    BY <1>1, <1>2, <1>4, <1>5 DEF OwnRuns, InTheMiddle, Local, Of
  <1>7. GivenIncident(q)'
    <2> SUFFICES ASSUME NEW i \in Of("incidents", Visible(q)), i.key \in Subjects(op[q])
                 PROVE  given = i.alerts
      BY <1>1, <1>3, <1>4 DEF GivenIncident, Of, Subjects
    <2>1. i.key = key
      BY <1>2, SubjectsType
    <2>2. i \in AllRows
      BY <1>2 DEF Of, Visible, TypeOK
    <2>3. /\ \A e \in AlertEvidence(Visible(q)) : e.parent = i.key => e.key \in i.alerts
          /\ \A k \in i.alerts : \E e \in AlertEvidence(Visible(q)) : e.parent = i.key /\ e.key = k
      BY <1>2, VisibleIsWhole DEF IncidentsWhole
    <2>4. \A v : v \in AlertEvidence(Visible(q)) <=> v \in Visible(q) /\ IsAlertEvidence(v)
      BY DEF AlertEvidence, Of, IsAlertEvidence
    <2>5. \A k : k \in given <=> \E v \in Visible(q) : IsAlertEvidence(v) /\ v.parent = key /\ v.key = k
      OBVIOUS
    <2>6. \A k : k \in given <=> k \in i.alerts
      BY <2>1, <2>3, <2>4, <2>5
    <2>7. i.alerts \in SUBSET Keys
      BY <2>2 DEF AllRows
    <2> HIDE DEF given
    <2> QED
      BY <2>6, <2>7
  <1>8. Fresh(q, {}) /\ Parented({}, Visible(q) \cup {})
    BY DEF Fresh, Parented, Of
  <1>9. OwnWhole(Mine(q) \cup {})
    <2>1. Mine(q) \cup {} = Mine(q)
      OBVIOUS
    <2> QED
      BY <1>2, <2>1 DEF Local
  <1>10. \A w \in {} : w.by = q /\ RowIs(w) /\ IsAbout(w)
    OBVIOUS
  <1> QED
    BY <1>1, <1>2, <1>3, <1>6, <1>7, <1>8, <1>9, <1>10, InsertKeeps

\* The detectors read; the incident is looked up; the data set is loaded.
LEMMA ReadOrLoadKeeps ==
  ASSUME IInv, ArtifactsInv, NEW q \in Requests, RunDetector(q) \/ Find(q) \/ Load(q),
         ~Abort(q), ~End(q, "missing")
  PROVE  ArtifactsInv'
  <1>1. /\ RunDetector(q) => At(q, "detector")
        /\ Find(q) => At(q, "find")
        /\ Load(q) => At(q, "load")
    BY DEF RunDetector, Find, Load
  <1>2. CASE RunDetector(q) \/ Find(q)
    <2> DEFINE new == {}
    <2>1. /\ rows' = rows \cup new /\ Advance(q) /\ context' = context
          /\ UNCHANGED <<op, status, gone, snapshot, locking>>
      BY <1>2 DEF RunDetector, Find
    <2>2. new = {} /\ \A w \in new : w.by = q /\ w.table = "data"
      OBVIOUS
    <2> HIDE DEF new
    <2>3. CASE RunDetector(q)
      BY <1>1, <2>1, <2>2, <2>3, PlainKeeps
    <2>4. CASE Find(q)
      BY <1>1, <2>1, <2>2, <2>4, PlainKeeps
    <2> QED
      BY <1>2, <2>3, <2>4
  <1>3. CASE Load(q)
    <2> DEFINE new == {DataRow(q, Argument(q))}
    <2>1. /\ rows' = rows \cup new /\ Advance(q) /\ context' = context
          /\ UNCHANGED <<op, status, gone, snapshot, locking>>
      BY <1>3 DEF Load
    <2>2. \A w \in new : w.by = q /\ w.table = "data"
      BY DEF DataRow, Row
    <2>3. op[q] # <<"detect">>
      BY <1>1, <1>3, StatementType DEF IInv
    <2> HIDE DEF new
    <2> QED
      BY <1>1, <1>3, <2>1, <2>2, <2>3, PlainKeeps
  <1> QED
    BY <1>2, <1>3

-------------------------------------------------------------------------------
(* Requests create incidents.                                              *)

\* What belongs to an incident of a request: create_incident_from_alerts.
LEMMA ArtifactParts ==
  ASSUME NEW r, NEW key, NEW alerts \in SUBSET (Nat \ {0})
  PROVE  /\ \A w \in Artifacts(r, key, alerts) :
              /\ w.by = r /\ w.table \in {"alerts", "evidence", "incidents"}
              /\ w.table = "alerts" => \E k \in alerts : w.key = <<r, k>>
              /\ w.table = "evidence" => w.parent = key /\ \E k \in alerts : w.key = <<r, k>>
              /\ w.table = "incidents" => w.key = key /\ w.alerts = {<<r, k>> : k \in alerts}
         /\ \A v, w \in Artifacts(r, key, alerts) :
              v.table = "incidents" /\ w.table = "incidents" => v = w
         /\ \A k \in alerts : \E a \in Artifacts(r, key, alerts) : a.table = "alerts" /\ a.key = <<r, k>>
         /\ \A k \in alerts : \E e \in Artifacts(r, key, alerts) :
              e.table = "evidence" /\ e.key = <<r, k>> /\ e.parent = key
         /\ \E i \in Artifacts(r, key, alerts) : i.table = "incidents"
  <1> DEFINE A == Artifacts(r, key, alerts)
             I == IncidentRow(r, key, {<<r, k>> : k \in alerts})
  <1>1. \A k : /\ AlertRow(r, k).table = "alerts" /\ AlertRow(r, k).by = r
               /\ AlertRow(r, k).key = <<r, k>>
               /\ EvidenceRow(r, k, key).table = "evidence" /\ EvidenceRow(r, k, key).by = r
               /\ EvidenceRow(r, k, key).key = <<r, k>> /\ EvidenceRow(r, k, key).parent = key
    BY DEF AlertRow, EvidenceRow, Row
  <1>2. I.table = "incidents" /\ I.by = r /\ I.key = key /\ I.alerts = {<<r, k>> : k \in alerts}
    BY DEF IncidentRow, Row
  <1> HIDE DEF I
  <1>3. \A w : w \in A <=> \/ \E k \in alerts : w = AlertRow(r, k)
                           \/ \E k \in alerts : w = EvidenceRow(r, k, key)
                           \/ w = I
    BY DEF Artifacts, I
  <1> HIDE DEF A
  <1>4. \A w \in A :
          /\ w.by = r /\ w.table \in {"alerts", "evidence", "incidents"}
          /\ w.table = "alerts" => \E k \in alerts : w.key = <<r, k>>
          /\ w.table = "evidence" => w.parent = key /\ \E k \in alerts : w.key = <<r, k>>
          /\ w.table = "incidents" => w = I
    BY <1>1, <1>2, <1>3
  <1>5. \A k \in alerts : AlertRow(r, k) \in A /\ EvidenceRow(r, k, key) \in A
    BY <1>3
  <1>6. I \in A
    BY <1>3
  <1>7. \A k \in alerts : \E a \in A : a.table = "alerts" /\ a.key = <<r, k>>
    BY <1>1, <1>5
  <1>8. \A k \in alerts : \E e \in A : e.table = "evidence" /\ e.key = <<r, k>> /\ e.parent = key
    BY <1>1, <1>5
  <1>9. \A w \in A : w.table = "incidents" => w.key = key /\ w.alerts = {<<r, k>> : k \in alerts}
    BY <1>2, <1>4
  <1>10. \A v, w \in A : v.table = "incidents" /\ w.table = "incidents" => v = w
    BY <1>4
  <1>11. \E i \in A : i.table = "incidents"
    BY <1>2, <1>6
  <1> QED
    BY <1>4, <1>7, <1>8, <1>9, <1>10, <1>11 DEF A

\* Whole incidents and whole incidents under other keys.
LEMMA UnionWhole ==
  ASSUME NEW M, NEW N, OwnWhole(M), OwnWhole(N),
         \A v \in Of("incidents", M), w \in Of("incidents", N) : v.key # w.key
  PROVE  OwnWhole(M \cup N)
  <1> DEFINE U == M \cup N
  <1>1. /\ \A t, w : w \in Of(t, U) <=> w \in Of(t, M) \/ w \in Of(t, N)
        /\ \A w : w \in AlertEvidence(U) <=> w \in AlertEvidence(M) \/ w \in AlertEvidence(N)
    BY DEF Of, AlertEvidence
  <1> HIDE DEF U
  <1>2. AlertsPaired(U)
    BY <1>1 DEF OwnWhole, AlertsPaired
  <1>3. IncidentsWhole(U)
    <2>1. ASSUME NEW i \in Of("incidents", U), NEW e \in AlertEvidence(U), e.parent = i.key
          PROVE  e.key \in i.alerts
      <3>1. CASE i \in Of("incidents", M) /\ e \in AlertEvidence(M)
        BY <2>1, <3>1 DEF OwnWhole, IncidentsWhole
      <3>2. CASE i \in Of("incidents", N) /\ e \in AlertEvidence(N)
        BY <2>1, <3>2 DEF OwnWhole, IncidentsWhole
      <3>3. CASE i \in Of("incidents", M) /\ e \in AlertEvidence(N)
        BY <2>1, <3>3 DEF OwnWhole
      <3>4. CASE i \in Of("incidents", N) /\ e \in AlertEvidence(M)
        BY <2>1, <3>4 DEF OwnWhole
      <3> QED
        BY <1>1, <3>1, <3>2, <3>3, <3>4
    <2>2. ASSUME NEW i \in Of("incidents", U), NEW k \in i.alerts
          PROVE  \E e \in AlertEvidence(U) : e.parent = i.key /\ e.key = k
      BY <1>1 DEF OwnWhole, IncidentsWhole
    <2> QED
      BY <2>1, <2>2 DEF IncidentsWhole
  <1>4. TruthsPaired(U)
    BY <1>1 DEF OwnWhole, TruthsPaired
  <1>5. \A e \in AlertEvidence(U) : \E i \in Of("incidents", U) : i.key = e.parent
    BY <1>1 DEF OwnWhole
  <1> QED
    BY <1>2, <1>3, <1>4, <1>5 DEF OwnWhole, U

\* The alerts of a request are numbered from one.
LEMMA AlertNumbers == ASSUME IInv, NEW r \in Requests PROVE AlertsOf(r) \in SUBSET (Nat \ {0})
  <1>1. found[r] \in Seq(RootCauses)
    BY DEF IInv, TypeOK
  <1> QED
    BY <1>1 DEF AlertsOf

\* Incidents that q creates keep the invariant: they have keys that nobody holds, and are whole.
LEMMA CreationKeeps ==
  ASSUME IInv, ArtifactsInv, NEW q \in Requests, NEW name, At(q, name), name \in {"create", "group"},
         NEW new, Insert(q, new), OwnWhole(new),
         \A w \in new : w.by = q /\ RowIs(w) /\ w.table # "agent_runs" /\ w \notin ToolEvidence(new),
         \A w \in new : w.table \in ChildTables => \E i \in Of("incidents", new) : i.key = w.parent,
         \A v, w \in Of("incidents", new) : v.key = w.key => v = w,
         \A v \in Of("incidents", new), w \in Of("incidents", rows) : v.key = w.key => w \in gone[q],
         op[q] = <<"detect">> => name = "group" /\ at[q] >= 3
  PROVE  ArtifactsInv'
  <1>1. /\ op' = op /\ status' = status /\ gone' = gone /\ context' = context /\ Advance(q)
        /\ rows' = rows \cup new
        /\ UNCHANGED <<op, status, gone, snapshot, locking>>
    BY DEF Insert
  <1>2. /\ status[q] = "open" /\ Local(q) /\ TypeOK /\ Wiped(q) = {} /\ op[q] \in Operations
        /\ name # "delete" /\ name \notin {"delete", "run", "context", "tool"}
        /\ ~At(q, "tool") /\ ~At(q, "delete")
    BY DEF At, IInv, ArtifactsInv, Wiped, TypeOK
  <1>3. \A w \in new : w.by = q /\ RowIs(w) /\ IsAbout(w)
    BY DEF IsAbout, ToolEvidence, Of
  <1>4. Mine(q) \cap gone[q] = {} /\ Mine(q) \subseteq rows /\ Mine(q) \subseteq Visible(q)
    BY <1>2, ViewOf DEF IInv, GoneInv, Mine
  <1>5. Fresh(q, new)
    <2>1. ASSUME NEW r \in Requests \ {q}, NEW c \in new, NEW i \in gone[r], Child(c, i) PROVE FALSE
      <3>1. PICK v \in Of("incidents", new) : v.key = c.parent
        BY <2>1 DEF Child
      <3>2. i \in Of("incidents", rows) /\ i.key = v.key
        BY <2>1, <3>1 DEF Child, Of, IInv, TypeOK
      <3>3. i \in gone[q]
        BY <3>2
      <3> QED
        BY <2>1, <3>3 DEF IInv, GoneInv
    <2> QED
      BY <2>1 DEF Fresh, Of
  <1>6. Parented(new, Visible(q) \cup new)
    BY DEF Parented, Of
  <1>7. OwnWhole(Mine(q) \cup new)
    <2>1. \A v \in Of("incidents", Mine(q)), w \in Of("incidents", new) : v.key # w.key
      BY <1>4 DEF Of
    <2> QED
      BY <1>2, <2>1, UnionWhole DEF Local
  <1>8. ASSUME HasContext(q), NEW i \in Of("incidents", new), i.key \in Subjects(op[q]) PROVE FALSE
    <2>1. PICK e \in ToolEvidence(Mine(q)) : TRUE
      BY <1>2, <1>8 DEF HasContext
    <2>2. e \in rows /\ e.by = q /\ e.table = "evidence" /\ e \in ToolEvidence({e}) /\ e \in Mine(q)
      BY DEF ToolEvidence, Of, Mine
    <2>3. e.parent \in Subjects(op[q])
      BY <2>2 DEF ArtifactsInv, RowsInv, IsAbout
    <2>4. PICK j \in Of("incidents", Visible(q)) : j.key = e.parent
      BY <1>2, <2>2 DEF Local, Parented, ChildTables
    <2>5. j \in Of("incidents", rows) /\ j \notin gone[q]
      BY DEF Visible, Of
    <2>6. i.key = j.key
      BY <1>2, <1>8, <2>3, <2>4, SubjectsType
    <2> QED
      BY <2>5, <2>6
  <1>9. OwnRuns(q)' /\ (HasContext(q)' => GivenIncident(q)')
    BY <1>1, <1>2, <1>8, RunKept
  <1>10. op[q] = <<"detect">> /\ at[q] < 3 => new = {}
    BY <1>2 DEF TypeOK
  <1> QED
    BY <1>1, <1>2, <1>3, <1>5, <1>6, <1>7, <1>9, <1>10, InsertKeeps

\* The incident of a manifest, with its ground truth.
LEMMA CreateIncidentKeeps ==
  ASSUME IInv, ArtifactsInv, NEW q \in Requests, CreateIncident(q), ~Abort(q) PROVE ArtifactsInv'
  <1> DEFINE key == Argument(q)
             alerts == AlertsOf(q)
             A == Artifacts(q, key, alerts)
             T == TruthRow(q, key)
             new == A \cup {T}
  <1>1. At(q, "create") /\ Rivals(q, "incidents", key) = {} /\ Insert(q, new)
    BY DEF CreateIncident
  <1>2. key \in ManifestKeys /\ op[q] # <<"detect">>
    BY <1>1, StatementType DEF IInv
  <1>3. alerts \in SUBSET (Nat \ {0})
    BY AlertNumbers
  <1>4. T.table = "ground_truth" /\ T.by = q /\ T.key = key /\ T.parent = key
    BY DEF TruthRow, Row
  <1> HIDE DEF key, alerts, T
  <1>5. /\ \A w \in A :
             /\ w.by = q /\ w.table \in {"alerts", "evidence", "incidents"}
             /\ w.table = "alerts" => \E k \in alerts : w.key = <<q, k>>
             /\ w.table = "evidence" => w.parent = key /\ \E k \in alerts : w.key = <<q, k>>
             /\ w.table = "incidents" => w.key = key /\ w.alerts = {<<q, k>> : k \in alerts}
        /\ \A v, w \in A : v.table = "incidents" /\ w.table = "incidents" => v = w
        /\ \A k \in alerts : \E a \in A : a.table = "alerts" /\ a.key = <<q, k>>
        /\ \A k \in alerts : \E e \in A : e.table = "evidence" /\ e.key = <<q, k>> /\ e.parent = key
        /\ \E i \in A : i.table = "incidents"
    BY <1>3, ArtifactParts
  <1> HIDE DEF A
  <1>6. /\ \A w : w \in Of("alerts", new) <=> w \in A /\ w.table = "alerts"
        /\ \A w : w \in Of("incidents", new) <=> w \in A /\ w.table = "incidents"
        /\ \A w : w \in Of("ground_truth", new) <=> w = T
        /\ \A w : w \in AlertEvidence(new) <=> w \in A /\ w.table = "evidence"
        /\ \A w : w \notin ToolEvidence(new)
    BY <1>3, <1>4, <1>5 DEF Of, AlertEvidence, ToolEvidence, IsAlertEvidence
  <1>7. ASSUME NEW w \in new
        PROVE  /\ w.by = q /\ RowIs(w) /\ w.table # "agent_runs" /\ w \notin ToolEvidence(new)
               /\ w.table \in ChildTables => w.parent = key
    <2>1. CASE w = T
      BY <1>2, <1>4, <1>6, <2>1 DEF RowIs
    <2>2. CASE w \in A
      <3>1. w.table \in {"alerts", "evidence"} => w.key[1] = q /\ w.key[2] # 0
        BY <1>3, <1>5, <2>2
      <3> QED
        BY <1>2, <1>5, <1>6, <2>2, <3>1 DEF RowIs, ChildTables
    <2> QED
      BY <2>1, <2>2
  <1>8. PICK i : i \in Of("incidents", new) /\ i.key = key /\ i.alerts = {<<q, k>> : k \in alerts}
    BY <1>5, <1>6
  <1> HIDE DEF new
  <1>9. OwnWhole(new)
    <2>1. AlertsPaired(new)
      BY <1>5, <1>6 DEF AlertsPaired
    <2>2. IncidentsWhole(new)
      <3>1. ASSUME NEW j \in Of("incidents", new)
            PROVE  j.key = key /\ \A x : x \in j.alerts <=> \E k \in alerts : x = <<q, k>>
        BY <1>5, <1>6
      <3>2. ASSUME NEW e \in AlertEvidence(new) PROVE \E k \in alerts : e.key = <<q, k>>
        BY <1>5, <1>6
      <3>3. ASSUME NEW k \in alerts
            PROVE  \E e \in AlertEvidence(new) : e.parent = key /\ e.key = <<q, k>>
        BY <1>5, <1>6
      <3> SUFFICES ASSUME NEW j \in Of("incidents", new)
                   PROVE  /\ \A e \in AlertEvidence(new) : e.parent = j.key => e.key \in j.alerts
                          /\ \A x \in j.alerts : \E e \in AlertEvidence(new) : e.parent = j.key /\ e.key = x
        BY DEF IncidentsWhole
      <3>4. ASSUME NEW e \in AlertEvidence(new) PROVE e.key \in j.alerts
        BY <3>1, <3>2
      <3>5. ASSUME NEW x \in j.alerts
            PROVE  \E e \in AlertEvidence(new) : e.parent = j.key /\ e.key = x
        <4>1. PICK k \in alerts : x = <<q, k>>
          BY <3>1
        <4> QED
          BY <3>1, <3>3, <4>1
      <3> QED
        BY <3>4, <3>5
    <2>3. TruthsPaired(new)
      BY <1>4, <1>5, <1>6, <1>8 DEF TruthsPaired
    <2> QED
      BY <1>5, <1>6, <1>8, <2>1, <2>2, <2>3 DEF OwnWhole
  <1>10. \A w \in new : w.table \in ChildTables => \E j \in Of("incidents", new) : j.key = w.parent
    BY <1>7, <1>8
  <1>11. \A v, w \in Of("incidents", new) : v.key = w.key => v = w
    BY <1>5, <1>6
  <1>12. \A v \in Of("incidents", new), w \in Of("incidents", rows) : v.key = w.key => w \in gone[q]
    BY <1>1, <1>5, <1>6 DEF Rivals, Of
  <1> QED
    BY <1>1, <1>2, <1>7, <1>9, <1>10, <1>11, <1>12, CreationKeeps


\* An alert is of one group only.
LEMMA GroupsDiffer ==
  ASSUME IInv, NEW r \in Requests, NEW g \in Groups(r), NEW h \in Groups(r), NEW k \in g, k \in h
  PROVE  g = h
  <1>1. \A c : \A j : j \in Group(r, c) <=>
          j \in AlertsOf(r) /\ (found[r][j] = c \/ (found[r][j] = "UNKNOWN" /\ NamedCauses(r) = {c}))
    BY DEF Group
  <1>2. "UNKNOWN" \notin NamedCauses(r)
    BY DEF NamedCauses
  <1>3. CASE Cardinality(NamedCauses(r)) = 1
    <2>1. PICK c \in NamedCauses(r) : g = Group(r, c)
      BY <1>3 DEF Groups
    <2>2. PICK d \in NamedCauses(r) : h = Group(r, d)
      BY <1>3 DEF Groups
    <2>3. c = d
      BY <1>1, <1>2, <2>1, <2>2
    <2> QED
      BY <2>1, <2>2, <2>3
  <1>4. CASE Cardinality(NamedCauses(r)) # 1
    <2>1. \A c : NamedCauses(r) # {c}
      BY <1>4, FS_Singleton
    <2>2. PICK c : g = Group(r, c)
      BY DEF Groups
    <2>3. PICK d : h = Group(r, d)
      BY DEF Groups
    <2>4. found[r][k] = c /\ found[r][k] = d
      BY <1>1, <2>1, <2>2, <2>3
    <2> QED
      BY <2>2, <2>3, <2>4
  <1> QED
    BY <1>3, <1>4

\* An incident for each group of alerts.
LEMMA GroupAlertsKeeps ==
  ASSUME IInv, ArtifactsInv, NEW q \in Requests, GroupAlerts(q) PROVE ArtifactsInv'
  <1> DEFINE key(g) == <<q, FirstOf(g)>>
             A(g) == Artifacts(q, key(g), g)
             new == UNION {A(g) : g \in Groups(q)}
  <1>1. At(q, "group") /\ Insert(q, new)
    BY DEF GroupAlerts
  <1>2. op[q] = <<"detect">> /\ at[q] = 3 /\ Mine(q) = {}
    <2>1. /\ op[q] = <<"detect">> /\ op[q] \in Operations /\ status[q] = "open"
          /\ at[q] \in 1 .. Len(Program[op[q]]) /\ Program[op[q]][at[q]][1] = "group"
      BY <1>1, StatementType DEF IInv
    <2>2. at[q] \in 1 .. 3 /\ Program[<<"detect">>][at[q]][1] = "group"
      BY <2>1, DetectProgram
    <2>3. at[q] = 3
      <3>1. at[q] # 1 /\ at[q] # 2
        BY <2>1, <2>2, DetectProgram
      <3> QED
        BY <2>2, <3>1
    <2> QED
      BY <2>1, <2>3 DEF ArtifactsInv, Local
  <1>3. ASSUME NEW g \in Groups(q)
        PROVE  /\ g \in SUBSET (Nat \ {0}) /\ FirstOf(g) \in g
               /\ \A h \in Groups(q) : (\E k : k \in g /\ k \in h) => g = h
               /\ \A h \in Groups(q) : key(g) = key(h) => g = h
    <2>1. g \in SUBSET (Nat \ {0}) /\ g # {}
      BY GroupsAreNotEmpty, AlertNumbers
    <2>2. g \in SUBSET Nat
      BY <2>1
    <2>3. FirstOf(g) \in g
      BY <2>1, <2>2, FirstIsOneOf
    <2>4. \A h \in Groups(q) : (\E k : k \in g /\ k \in h) => g = h
      BY GroupsDiffer
    <2>5. ASSUME NEW h \in Groups(q), key(g) = key(h) PROVE g = h
      <3>1. h \in SUBSET Nat /\ h # {}
        BY GroupsAreNotEmpty, AlertNumbers
      <3>2. FirstOf(h) \in h
        BY <3>1, FirstIsOneOf
      <3> QED
        BY <2>3, <2>4, <2>5, <3>2
    <2> QED
      BY <2>1, <2>3, <2>4, <2>5
  <1>4. ASSUME NEW g \in Groups(q)
        PROVE  /\ \A w \in A(g) :
                    /\ w.by = q /\ w.table \in {"alerts", "evidence", "incidents"}
                    /\ w.table = "alerts" => \E k \in g : w.key = <<q, k>>
                    /\ w.table = "evidence" => w.parent = key(g) /\ \E k \in g : w.key = <<q, k>>
                    /\ w.table = "incidents" => w.key = key(g) /\ w.alerts = {<<q, k>> : k \in g}
               /\ \A v, w \in A(g) : v.table = "incidents" /\ w.table = "incidents" => v = w
               /\ \A k \in g : \E a \in A(g) : a.table = "alerts" /\ a.key = <<q, k>>
               /\ \A k \in g : \E e \in A(g) :
                    e.table = "evidence" /\ e.key = <<q, k>> /\ e.parent = key(g)
               /\ \E i \in A(g) : i.table = "incidents"
    BY <1>3, ArtifactParts
  <1>5. \A w : w \in new <=> \E g \in Groups(q) : w \in A(g)
    OBVIOUS
  <1>6. \A g \in Groups(q) : key(g)[1] = q /\ key(g)[2] # 0
    BY <1>3
  <1>7. \A g \in Groups(q) : key(g) \notin ManifestKeys
    <2>1. \A k \in ManifestKeys : k[1] \in Manifests
      BY DEF ManifestKeys, IncidentOf
    <2> QED
      BY <1>6, <2>1, NoNameClash
  <1> HIDE DEF key, A, new
  <1>8. ASSUME NEW w \in new
        PROVE  /\ w.by = q /\ RowIs(w) /\ w.table # "agent_runs" /\ w \notin ToolEvidence(new)
               /\ w.table # "ground_truth"
    <2>1. PICK g \in Groups(q) : w \in A(g)
      BY <1>5
    <2>2. w.by = q /\ w.table \in {"alerts", "evidence", "incidents"}
      BY <1>4, <2>1
    <2>3. w.table \in {"alerts", "evidence"} => w.key[1] = q /\ w.key[2] # 0
      <3>1. w.table \in {"alerts", "evidence"} => \E k \in g : w.key = <<q, k>>
        BY <1>4, <2>1
      <3> QED
        BY <1>3, <3>1
    <2>4. w.table = "incidents" => w.key[1] = q
      BY <1>4, <1>6, <2>1
    <2> QED
      BY <2>2, <2>3, <2>4 DEF RowIs, ToolEvidence, Of, IsAlertEvidence
  <1>9. /\ \A w : w \in Of("alerts", new) <=> w \in new /\ w.table = "alerts"
        /\ \A w : w \in Of("incidents", new) <=> w \in new /\ w.table = "incidents"
        /\ \A w : w \notin Of("ground_truth", new)
        /\ \A w : w \in AlertEvidence(new) <=> w \in new /\ w.table = "evidence"
    BY <1>8 DEF Of, AlertEvidence, ToolEvidence, IsAlertEvidence
  <1>10. ASSUME NEW e \in new, e.table = "evidence"
         PROVE  \E i \in Of("incidents", new) : i.key = e.parent
    <2>1. PICK g \in Groups(q) : e \in A(g)
      BY <1>5
    <2>2. PICK i \in A(g) : i.table = "incidents"
      BY <1>4
    <2>3. i \in new /\ i.key = key(g) /\ e.parent = key(g)
      BY <1>4, <1>5, <1>10, <2>1, <2>2
    <2> QED
      BY <1>9, <2>2, <2>3
  <1>11. AlertsPaired(new)
    <2>1. ASSUME NEW a \in Of("alerts", new) PROVE \E e \in AlertEvidence(new) : e.key = a.key
      <3>1. PICK g \in Groups(q) : a \in A(g)
        BY <1>5, <1>9
      <3>2. PICK k \in g : a.key = <<q, k>>
        BY <1>4, <1>9, <3>1
      <3>3. PICK e \in A(g) : e.table = "evidence" /\ e.key = <<q, k>>
        BY <1>4
      <3> QED
        BY <1>5, <1>9, <3>2, <3>3
    <2>2. ASSUME NEW e \in AlertEvidence(new) PROVE \E a \in Of("alerts", new) : a.key = e.key
      <3>1. PICK g \in Groups(q) : e \in A(g)
        BY <1>5, <1>9
      <3>2. PICK k \in g : e.key = <<q, k>>
        BY <1>4, <1>9, <3>1
      <3>3. PICK a \in A(g) : a.table = "alerts" /\ a.key = <<q, k>>
        BY <1>4
      <3> QED
        BY <1>5, <1>9, <3>2, <3>3
    <2> QED
      BY <2>1, <2>2 DEF AlertsPaired
  <1>12. IncidentsWhole(new)
    <2> SUFFICES ASSUME NEW i \in Of("incidents", new)
                 PROVE  /\ \A e \in AlertEvidence(new) : e.parent = i.key => e.key \in i.alerts
                        /\ \A k \in i.alerts :
                             \E e \in AlertEvidence(new) : e.parent = i.key /\ e.key = k
      BY DEF IncidentsWhole
    <2>1. PICK g \in Groups(q) : i \in A(g)
      BY <1>5, <1>9
    <2>2. i.key = key(g) /\ \A x : x \in i.alerts <=> \E k \in g : x = <<q, k>>
      <3>1. i.key = key(g) /\ i.alerts = {<<q, k>> : k \in g}
        BY <1>4, <1>9, <2>1
      <3> QED
        BY <3>1
    <2>3. ASSUME NEW e \in AlertEvidence(new), e.parent = i.key PROVE e.key \in i.alerts
      <3>1. PICK h \in Groups(q) : e \in A(h)
        BY <1>5, <1>9
      <3>2. e.parent = key(h) /\ \E k \in h : e.key = <<q, k>>
        BY <1>4, <1>9, <3>1
      <3>3. g = h
        BY <1>3, <2>2, <2>3, <3>2
      <3> QED
        BY <2>2, <3>2, <3>3
    <2>4. ASSUME NEW x \in i.alerts
          PROVE  \E e \in AlertEvidence(new) : e.parent = i.key /\ e.key = x
      <3>1. PICK k \in g : x = <<q, k>>
        BY <2>2
      <3>2. PICK e \in A(g) : e.table = "evidence" /\ e.key = <<q, k>> /\ e.parent = key(g)
        BY <1>4
      <3> QED
        BY <1>5, <1>9, <2>2, <3>1, <3>2
    <2> QED
      BY <2>3, <2>4
  <1>13. TruthsPaired(new)
    <2>1. \A i \in Of("incidents", new) : i.key \notin ManifestKeys
      BY <1>4, <1>5, <1>7, <1>9
    <2> QED
      BY <1>9, <2>1 DEF TruthsPaired
  <1>14. OwnWhole(new)
    BY <1>9, <1>10, <1>11, <1>12, <1>13 DEF OwnWhole
  <1>15. \A w \in new : w.table \in ChildTables => \E i \in Of("incidents", new) : i.key = w.parent
    BY <1>8, <1>10 DEF ChildTables
  <1>16. \A v, w \in Of("incidents", new) : v.key = w.key => v = w
    BY <1>3, <1>4, <1>5, <1>9
  <1>17. ASSUME NEW v \in Of("incidents", new), NEW w \in Of("incidents", rows), v.key = w.key
         PROVE  FALSE
    <2>1. v.key \notin ManifestKeys /\ v.key[1] = q
      BY <1>4, <1>5, <1>6, <1>7, <1>9
    <2>2. w \in rows /\ w.by = q
      BY <1>17, <2>1 DEF ArtifactsInv, RowsInv, RowIs, Of
    <2> QED
      BY <1>2, <2>2 DEF Mine
  <1> QED
    BY <1>1, <1>2, <1>8, <1>14, <1>15, <1>16, <1>17, CreationKeeps

-------------------------------------------------------------------------------
(* A request commits.                                                      *)

\* The store is what the request saw; the others are where they were.
LEMMA CommitIs ==
  ASSUME IInv, ArtifactsInv, NEW q \in Requests, Commit(q)
  PROVE  /\ status[q] = "open" /\ status'[q] = "ok" /\ context'[q] = context[q] /\ gone'[q] = {}
         /\ ~InTheMiddle(q) /\ ~At(q, "delete") /\ Local(q)
         /\ Store' = Mine(q) \cup (Store \ gone[q])
         /\ \A r \in Requests \ {q} : status'[r] = status[r] /\ gone'[r] = gone[r]
         /\ op' = op /\ rows' = rows \ gone[q]
         /\ \A r \in Requests \ {q} : status[r] = "open" =>
              Untouched(r) /\ Visible(r)' = Mine(r) \cup (Store' \ gone[r])
  <1>1. /\ status[q] = "open" /\ status' = [status EXCEPT ![q] = "ok"]
        /\ gone' = [gone EXCEPT ![q] = {}] /\ rows' = rows \ gone[q]
        /\ op' = op /\ at' = at /\ snapshot' = snapshot /\ locking' = locking /\ context' = context
    BY DEF Commit
  <1>2. /\ status'[q] = "ok" /\ gone'[q] = {}
        /\ \A r \in Requests \ {q} : status'[r] = status[r] /\ gone'[r] = gone[r]
    BY <1>1 DEF IInv, TypeOK
  <1>3. \A name : ~At(q, name)
    <2>1. op[q] \in Operations
      BY DEF IInv, TypeOK
    <2>2. Program[op[q]] \in Programs(StatementsOf(op[q]))
      BY <2>1, ProgramIsProgram
    <2>3. Len(Program[op[q]]) \in Nat /\ at[q] \in Nat /\ at[q] > Len(Program[op[q]])
      BY <2>2 DEF Programs, IInv, TypeOK, Commit
    <2> QED
      BY <2>3 DEF At
  <1>4. \A x : Committed(x)' <=> Committed(x) \/ x = q
    BY <1>2, NoNameClash DEF Committed
  <1>5. Visible(q) = Mine(q) \cup (Store \ gone[q])
    BY <1>1, ViewOf
  <1>6. Store' = Visible(q)
    BY <1>1, <1>4 DEF Store, Visible
  <1>7. ASSUME NEW r \in Requests \ {q}, status[r] = "open"
        PROVE  Untouched(r) /\ Visible(r)' = Mine(r) \cup (Store' \ gone[r])
    <2>1. ~Committed(r)
      BY <1>7, OpenIsUncommitted
    <2>2. /\ \A w \in gone[q] : w.by # r
          /\ \A w \in gone[r] : w.by # r
      BY <2>1 DEF IInv, GoneInv
    <2>3. Mine(r)' = Mine(r)
      BY <1>1, <2>2 DEF Mine
    <2>4. Untouched(r)
      BY <1>1, <1>2, <2>3 DEF Untouched
    <2>5. Visible(r)' = (Mine(r)' \cup Store') \ gone'[r]
      BY DEF Visible, Mine, Store
    <2>6. Mine(r) \cap gone[r] = {}
      BY <2>2 DEF Mine
    <2> QED
      BY <1>2, <2>3, <2>4, <2>5, <2>6
  <1>8. Local(q)
    BY <1>1 DEF ArtifactsInv
  <1> QED
    BY <1>1, <1>2, <1>3, <1>5, <1>6, <1>7, <1>8 DEF InTheMiddle

\* What refers to an incident that q has replaced by another is deleted with it.
LEMMA Supplanted ==
  ASSUME IInv, ArtifactsInv, NEW q \in Requests, status[q] = "open",
         NEW c \in Store, c.table \in ChildTables,
         NEW i \in Of("incidents", Mine(q)), i.key = c.parent
  PROVE  c \in gone[q]
  <1>1. Apart(Mine(q), Store, gone[q]) /\ Whole(Store)
    BY StoreApart DEF ArtifactsInv
  <1>2. PICK j \in Of("incidents", Store) : j.key = c.parent
    BY <1>1 DEF Whole, Parented
  <1>3. j \in gone[q] /\ Child(c, j)
    BY <1>1, <1>2 DEF Apart, Child, Of
  <1> QED
    BY <1>1, <1>3 DEF Apart

\* Another open request does not notice.
LEMMA OthersAfterCommit ==
  ASSUME IInv, ArtifactsInv, NEW q \in Requests, Commit(q), NEW r \in Requests \ {q},
         status[r] = "open"
  PROVE  Local(r)'
  <1>1. /\ status[q] = "open" /\ Untouched(r) /\ Visible(r)' = Mine(r) \cup (Store' \ gone[r])
        /\ Store' = Mine(q) \cup (Store \ gone[q])
    BY CommitIs
  <1>2. /\ \A name : At(r, name)' <=> At(r, name)
        /\ Argument(r)' = Argument(r)
        /\ Wiped(r)' = Wiped(r) /\ (InTheMiddle(r)' <=> InTheMiddle(r))
    BY <1>1, UntouchedStays
  <1>3. /\ op'[r] = op[r] /\ at'[r] = at[r] /\ gone'[r] = gone[r] /\ snapshot'[r] = snapshot[r]
        /\ locking'[r] = locking[r] /\ context'[r] = context[r] /\ Mine(r)' = Mine(r)
    BY <1>1 DEF Untouched
  <1>4. Local(r) /\ Pinned /\ OneIncident /\ RowsInv
    BY DEF ArtifactsInv
  <1>5. /\ Visible(r) = Mine(r) \cup (Store \ gone[r])
        /\ gone[r] \subseteq Store /\ ~Committed(r) /\ Store \subseteq rows /\ Mine(r) \subseteq rows
        /\ ~Committed(q) /\ Mine(q) \subseteq rows
    BY <1>1, ViewOf
  <1>6. \A w \in gone[r] : w \in Store /\ w \notin gone[q]
    BY <1>5 DEF IInv, GoneInv
  <1>7. ASSUME NEW a \in Store', NEW e \in Store', Pair(a, e), a \in Store \/ e \in Store
        PROVE  a \in Store /\ e \in Store
    <2>1. a \in rows /\ e \in rows
      BY <1>1, <1>5
    <2>2. a.by = e.by
      BY <1>4, <1>7, <2>1, PairIs DEF RowsInv, RowIs
    <2> QED
      BY <1>7, <2>1, <2>2 DEF Store
  <1>8. ASSUME NEW i \in Store', NEW c \in Store', Child(c, i), c \in Store
        PROVE  i \in Store
    <2> SUFFICES ASSUME i \in Mine(q) PROVE FALSE
      BY <1>1
    <2>1. c \in gone[q]
      BY <1>1, <1>8, Supplanted DEF Child, Of
    <2>2. c \notin Mine(q)
      BY <1>5, <1>8 DEF Mine, Store
    <2> QED
      BY <1>1, <2>1, <2>2
  <1>9. Parented(Mine(r), Visible(r))'
    <2> SUFFICES ASSUME NEW c \in Mine(r), c.table \in ChildTables
                 PROVE  \E i \in Of("incidents", Visible(r)') : i.key = c.parent
      BY <1>3 DEF Parented, Of
    <2>1. PICK i \in Of("incidents", Visible(r)) : i.key = c.parent
      BY <1>4 DEF Local, Parented
    <2>2. i \in Visible(r) /\ Child(c, i) /\ c.by = r /\ c \in rows
      BY <1>5, <2>1 DEF Child, Of, Mine
    <2>3. i \notin gone[q]
      <3>1. c \notin gone[q]
        BY <1>5, <2>2 DEF IInv, GoneInv
      <3> QED
        BY <1>4, <2>2, <3>1 DEF Pinned
    <2>4. i \in Visible(r)'
      BY <1>1, <1>5, <2>2, <2>3
    <2> QED
      BY <2>1, <2>4 DEF Of
  <1>10. Closed(Store, gone[r], Wiped(r))'
    <2>1. Closed(Store, gone[r], Wiped(r))
      BY <1>4 DEF Local
    <2> HIDE <1>1
    <2> DEFINE S == Store'
    <2>2. /\ \A a, e \in S : Pair(a, e) /\ (a \in Store \/ e \in Store) => a \in Store /\ e \in Store
          /\ \A i, c \in S : Child(c, i) /\ c \in Store => i \in Store
      BY <1>7, <1>8
    <2> HIDE DEF S
    <2>3. Closed(S, gone[r], Wiped(r))
      BY <1>6, <2>1, <2>2 DEF Closed
    <2> QED
      BY <1>2, <1>3, <2>3 DEF Closed, S
  <1>11. (locking[r] => Chosen(Argument(r), Store, gone[r], snapshot[r]))'
    <2>1. locking[r] => Chosen(Argument(r), Store, gone[r], snapshot[r])
      BY <1>4 DEF Local
    <2> DEFINE S == Store'
    <2>2. /\ \A a, e \in S : Pair(a, e) /\ (a \in Store \/ e \in Store) => a \in Store /\ e \in Store
          /\ \A i, c \in S : Child(c, i) /\ c \in Store => i \in Store
      BY <1>7, <1>8
    <2>3. \A a \in gone[r], c \in S : Pair(a, c) => c \in Store
      <3> SUFFICES ASSUME NEW a \in gone[r], NEW c \in S, Pair(a, c) PROVE c \in Store
        OBVIOUS
      <3>1. a \in Store'
        BY <1>1, <1>6
      <3> QED
        BY <1>6, <2>2, <3>1
    <2> HIDE DEF S
    <2>4. ASSUME locking[r] PROVE Chosen(Argument(r), S, gone[r], snapshot[r])
      <3>1. ASSUME Argument(r) = "alerts", NEW a \in S, NEW e \in S, Pair(a, e), e \in gone[r]
            PROVE  a \in gone[r] \cup snapshot[r]
        BY <1>6, <2>1, <2>2, <2>4, <3>1 DEF Chosen
      <3>2. ASSUME Argument(r) = "incidents", NEW i \in S, NEW c \in S, Child(c, i),
                   c \in gone[r] \/ \E a \in gone[r] : Pair(a, c)
            PROVE  i \in gone[r] \cup snapshot[r]
        <4>1. c \in Store
          BY <1>6, <2>3, <3>2
        <4>2. i \in Store
          BY <2>2, <3>2, <4>1
        <4> QED
          BY <2>1, <2>4, <3>2, <4>1, <4>2 DEF Chosen
      <3> QED
        BY <3>1, <3>2 DEF Chosen
    <2> QED
      BY <1>2, <1>3, <2>4 DEF Chosen, S
  <1>12. (locking[r] => Of(Argument(r), Mine(r)) \subseteq snapshot[r])'
    BY <1>2, <1>3, <1>4 DEF Local, Of
  <1>13. (\A w \in Mine(r) : w.table \notin Wiped(r))'
    BY <1>2, <1>3, <1>4 DEF Local
  <1>14. ("evidence" \notin Wiped(r) => OwnWhole(Mine(r)) /\ OwnRuns(r))'
    <2>1. OwnWhole(Mine(r))' <=> OwnWhole(Mine(r))
      BY <1>3 DEF OwnWhole, AlertsPaired, IncidentsWhole, TruthsPaired, AlertEvidence, Of
    <2>2. OwnRuns(r)' <=> OwnRuns(r)
      BY <1>2, <1>3 DEF OwnRuns, ToolEvidence, Of
    <2> QED
      BY <1>2, <1>4, <2>1, <2>2 DEF Local
  <1>15. (op[r] = <<"detect">> /\ at[r] <= 3 => Mine(r) = {})'
    BY <1>3, <1>4 DEF Local
  <1>16. (HasContext(r) => GivenIncident(r))'
    <2>1. HasContext(r)' <=> HasContext(r)
      BY <1>2, <1>3 DEF HasContext, ToolEvidence, Of
    <2>2. ASSUME HasContext(r), NEW i \in Of("incidents", Visible(r)'), i.key \in Subjects(op[r])
          PROVE  context[r] = i.alerts
      <3>1. CASE i \in Visible(r)
        BY <1>4, <2>2, <3>1 DEF Local, GivenIncident, Of
      <3>2. CASE i \notin Visible(r)
        <4>1. i \in Of("incidents", Mine(q)) /\ i \in rows
          BY <1>1, <1>5, <2>2, <3>2 DEF Of
        <4>2. PICK c \in Mine(r) : c.table = "agent_runs" \/ c \in ToolEvidence({c})
          <5>1. CASE ToolEvidence(Mine(r)) # {}
            BY <5>1 DEF ToolEvidence, Of
          <5>2. CASE At(r, "tool")
            <6>1. InTheMiddle(r) /\ Wiped(r) = {}
              BY <5>2 DEF InTheMiddle, Wiped, At
            <6>2. Of("agent_runs", Mine(r)) # {}
              BY <1>4, <6>1 DEF Local, OwnRuns
            <6> QED
              BY <6>2 DEF Of
          <5> QED
            BY <2>2, <5>1, <5>2 DEF HasContext
        <4>3. /\ c \in rows /\ c.by = r /\ c.table \in ChildTables
              /\ c.parent \in Subjects(op[r])
          BY <1>4, <1>5, <4>2 DEF RowsInv, IsAbout, Mine, ChildTables, ToolEvidence, Of
        <4>4. op[r] \in Operations
          BY DEF IInv, TypeOK
        <4>5. c.parent = i.key
          BY <2>2, <4>3, <4>4, SubjectsType
        <4>6. PICK j \in Of("incidents", Visible(r)) : j.key = c.parent
          BY <1>4, <4>3 DEF Local, Parented
        <4>7. j \in Store
          <5> SUFFICES ASSUME j \in Mine(r) PROVE FALSE
            BY <1>5, <4>6 DEF Of
          <5>1. /\ i \in Of("incidents", rows) /\ j \in Of("incidents", rows) /\ i.key = j.key
                /\ i.by = q /\ j.by = r
            BY <1>5, <4>1, <4>5, <4>6 DEF Of, Mine
          <5>2. PICK s \in Requests : i \in gone[s] \/ j \in gone[s]
            BY <1>4, <5>1 DEF OneIncident
          <5> QED
            BY <1>5, <5>1, <5>2, DeletersAreOpen
        <4>8. j \in gone[q]
          <5>1. Apart(Mine(q), Store, gone[q])
            BY <1>1, StoreApart DEF ArtifactsInv
          <5> QED
            BY <4>1, <4>5, <4>6, <4>7, <5>1 DEF Apart, Of
        <4>9. Child(c, j)
          BY <4>3, <4>6 DEF Child, Of
        <4>10. c \in gone[q]
          BY <1>4, <4>3, <4>8, <4>9 DEF Pinned
        <4> QED
          BY <1>5, <4>3, <4>10 DEF IInv, GoneInv
      <3> QED
        BY <3>1, <3>2
    <2>3. GivenIncident(r)' <=> \A i \in Of("incidents", Visible(r)') :
            i.key \in Subjects(op[r]) => context[r] = i.alerts
      BY <1>3 DEF GivenIncident, Of, Subjects
    <2> QED
      BY <2>1, <2>2, <2>3
  <1> QED
    BY <1>9, <1>10, <1>11, <1>12, <1>13, <1>14, <1>15, <1>16 DEF Local

\* What a request stores and what it deletes becomes visible as a whole.
LEMMA CommitKeeps == ASSUME IInv, ArtifactsInv, NEW q \in Requests, Commit(q) PROVE ArtifactsInv'
  <1>1. /\ status[q] = "open" /\ status'[q] = "ok" /\ context'[q] = context[q] /\ gone'[q] = {}
        /\ ~InTheMiddle(q) /\ ~At(q, "delete") /\ Local(q)
        /\ Store' = Mine(q) \cup (Store \ gone[q])
        /\ \A r \in Requests \ {q} : status'[r] = status[r] /\ gone'[r] = gone[r]
        /\ op' = op /\ rows' = rows \ gone[q] /\ at' = at /\ context' = context
    BY CommitIs DEF Commit
  <1>2. /\ Visible(q) = Mine(q) \cup (Store \ gone[q]) /\ Mine(q) \subseteq rows
        /\ Store \subseteq rows /\ ~Committed(q)
    BY <1>1, ViewOf
  <1>3. Whole(Store)'
    <2>1. Whole(Visible(q)) /\ Store' = Visible(q)
      BY <1>1, <1>2, VisibleIsWhole
    <2> QED
      BY <2>1 DEF Whole, AlertsPaired, IncidentsWhole, TruthsPaired, RunsPaired, Parented,
                  AlertEvidence, ToolEvidence, Of
  <1>4. RowsInv'
    BY <1>1, FewerRows DEF ArtifactsInv
  <1>5. OneIncident'
    <2> SUFFICES ASSUME NEW v \in Of("incidents", rows'), NEW w \in Of("incidents", rows'),
                        v.key = w.key, v # w
                 PROVE  \E r \in Requests :
                          (v \in gone'[r] /\ w.by = r) \/ (w \in gone'[r] /\ v.by = r)
      BY DEF OneIncident, Of
    <2>1. /\ v \in Of("incidents", rows) /\ w \in Of("incidents", rows)
          /\ v \notin gone[q] /\ w \notin gone[q]
      BY <1>1 DEF Of
    <2>2. PICK r \in Requests : (v \in gone[r] /\ w.by = r) \/ (w \in gone[r] /\ v.by = r)
      BY <2>1 DEF ArtifactsInv, OneIncident
    <2> QED
      BY <1>1, <2>1, <2>2
  <1>6. Pinned'
    BY <1>1 DEF ArtifactsInv, Pinned
  <1>7. ASSUME NEW r \in Requests, status'[r] = "ok" PROVE Answered(r)'
    <2> SUFFICES ASSUME NEW e \in Store', e.by = r, e.table = "evidence", ~IsAlertEvidence(e),
                        NEW i \in Store', i.table = "incidents", i.key = e.parent
                 PROVE  context'[r] = i.alerts
      BY DEF Answered, ToolEvidence, Of
    <2>1. e \in rows /\ e \in ToolEvidence({e})
      BY <1>1, <1>2 DEF ToolEvidence, Of
    <2>2. CASE r = q
      <3>1. e \in ToolEvidence(Mine(q))
        BY <2>1, <2>2 DEF ToolEvidence, Of, Mine
      <3>2. e.parent \in Subjects(op[q])
        BY <2>1, <2>2 DEF ArtifactsInv, RowsInv, IsAbout
      <3>3. GivenIncident(q)
        BY <1>1, <3>1 DEF Local, HasContext
      <3> QED
        BY <1>1, <1>2, <2>2, <3>2, <3>3 DEF GivenIncident, Of
    <2>3. CASE r # q
      <3>1. e \in Store /\ e \notin gone[q] /\ status[r] = "ok"
        BY <1>1, <1>7, <2>3 DEF Mine
      <3>2. i \in Store
        <4> SUFFICES ASSUME i \in Of("incidents", Mine(q)) PROVE FALSE
          BY <1>1 DEF Of
        <4> QED
          BY <1>1, <3>1, Supplanted DEF ChildTables
      <3>3. Answered(r)
        BY <3>1 DEF ArtifactsInv
      <3> QED
        BY <1>1, <3>1, <3>2, <3>3 DEF Answered, ToolEvidence, Of
    <2> QED
      BY <2>2, <2>3
  <1>8. \A r \in Requests : status'[r] = "idle" => at'[r] = 1
    BY <1>1 DEF ArtifactsInv
  <1>9. \A r \in Requests : status'[r] = "open" => Local(r)'
    BY <1>1, OthersAfterCommit
  <1> QED
    BY <1>3, <1>4, <1>5, <1>6, <1>7, <1>8, <1>9 DEF ArtifactsInv

-------------------------------------------------------------------------------
(* The invariant.                                                          *)

\* The initial store is whole, and nobody has done anything.
LEMMA InitArtifacts == Init => ArtifactsInv
  <1> SUFFICES ASSUME Init PROVE ArtifactsInv
    OBVIOUS
  <1>1. /\ \A r \in Requests : status[r] = "idle" /\ at[r] = 1 /\ gone[r] = {}
        /\ Store \subseteq rows
    BY DEF Init, Store
  <1>2. CASE rows = {DataRow(Setup, Clean)}
    <2>1. \A w \in rows : w.table = "data"
      BY <1>2 DEF DataRow, Row
    <2>2. /\ \A t : t \in ChildTables \cup {"alerts", "incidents"} => Of(t, rows) = {} /\ Of(t, Store) = {}
          /\ \A w \in rows : w.table \notin ChildTables \cup {"alerts", "incidents"}
      BY <1>1, <2>1 DEF ChildTables, Of
    <2>3. RowsInv
      BY <2>1 DEF RowsInv, RowIs, IsAbout, ToolEvidence, Of
    <2>4. OneIncident /\ Pinned
      BY <1>1, <2>2 DEF OneIncident, Pinned
    <2>5. Whole(Store)
      BY <1>1, <2>2 DEF Whole, AlertsPaired, IncidentsWhole, TruthsPaired, RunsPaired, Parented,
                        AlertEvidence, ToolEvidence, ChildTables
    <2> QED
      BY <1>1, <2>3, <2>4, <2>5 DEF ArtifactsInv
  <1>3. ASSUME NEW m \in Manifests,
               rows = {DataRow(Setup, m), AlertRow(Setup, 1), TruthRow(Setup, IncidentOf(m)),
                       EvidenceRow(Setup, 1, IncidentOf(m)),
                       IncidentRow(Setup, IncidentOf(m), {<<Setup, 1>>})}
        PROVE  ArtifactsInv
    <2> DEFINE d == DataRow(Setup, m)
               a == AlertRow(Setup, 1)
               t == TruthRow(Setup, IncidentOf(m))
               e == EvidenceRow(Setup, 1, IncidentOf(m))
               i == IncidentRow(Setup, IncidentOf(m), {<<Setup, 1>>})
               first == <<Setup, 1>>
    <2>1. /\ d.table = "data"
          /\ a.table = "alerts" /\ a.key = first
          /\ t.table = "ground_truth" /\ t.key = IncidentOf(m) /\ t.parent = IncidentOf(m)
          /\ e.table = "evidence" /\ e.key = first /\ e.parent = IncidentOf(m)
          /\ i.table = "incidents" /\ i.key = IncidentOf(m) /\ i.alerts = {first}
          /\ d.by = Setup /\ a.by = Setup /\ t.by = Setup /\ e.by = Setup /\ i.by = Setup
      BY DEF DataRow, AlertRow, TruthRow, EvidenceRow, IncidentRow, Row
    <2>2. IncidentOf(m) \in ManifestKeys
      BY DEF ManifestKeys
    <2>3. first[1] = Setup /\ first[2] # 0
      OBVIOUS
    <2>4. \A w : w \in rows <=> w = d \/ w = a \/ w = t \/ w = e \/ w = i
      BY <1>3
    <2> HIDE DEF d, a, t, e, i, first
    <2>5. Store = rows
      BY <2>1, <2>4 DEF Store, Committed
    <2>6. /\ \A w : w \in Of("alerts", rows) <=> w = a
          /\ \A w : w \in Of("ground_truth", rows) <=> w = t
          /\ \A w : w \in Of("incidents", rows) <=> w = i
          /\ \A w : w \notin Of("agent_runs", rows)
          /\ \A w : w \in AlertEvidence(rows) <=> w = e
          /\ \A w : w \notin ToolEvidence(rows)
      BY <2>1, <2>3, <2>4 DEF Of, AlertEvidence, ToolEvidence, IsAlertEvidence
    <2>7. RowsInv
      BY <2>1, <2>2, <2>3, <2>4 DEF RowsInv, RowIs, IsAbout, ToolEvidence, Of, IsAlertEvidence
    <2>8. OneIncident /\ Pinned
      BY <1>1, <2>6 DEF OneIncident, Pinned
    <2>9. Whole(rows)
      <3>1. AlertsPaired(rows)
        BY <2>1, <2>6 DEF AlertsPaired
      <3>2. IncidentsWhole(rows)
        BY <2>1, <2>6 DEF IncidentsWhole
      <3>3. TruthsPaired(rows) /\ RunsPaired(rows)
        BY <2>1, <2>6 DEF TruthsPaired, RunsPaired
      <3>4. Parented(rows, rows)
        BY <2>1, <2>4, <2>6 DEF Parented, ChildTables
      <3> QED
        BY <3>1, <3>2, <3>3, <3>4 DEF Whole
    <2> QED
      BY <1>1, <2>5, <2>7, <2>8, <2>9 DEF ArtifactsInv
  <1> QED
    BY <1>2, <1>3 DEF Init

\* Every statement of every request keeps the invariant.
LEMMA StepArtifacts ==
  ASSUME IInv, ArtifactsInv, NEW q \in Requests, Begin(q) \/ Execute(q) \/ Fail(q)
  PROVE  ArtifactsInv'
  <1>1. CASE status[q] = "open" /\ (Abort(q) \/ End(q, "missing"))
    BY <1>1, EndKeeps DEF Abort
  <1>2. CASE Begin(q)
    BY <1>2, BeginKeeps
  <1>3. CASE StartDelete(q)
    BY <1>3, StartDeleteKeeps
  <1>4. CASE FinishDelete(q) /\ ~Abort(q)
    <2>1. /\ At(q, "delete") /\ locking[q]
          /\ (UNION {Children(w) : w \in snapshot[q] \cap rows}) \ gone[q] = {}
          /\ rows' = {w \in rows : w \in snapshot[q] \cap rows => w.by # q}
          /\ gone' = [gone EXCEPT ![q] = @ \cup {w \in snapshot[q] \cap rows : w.by # q}]
          /\ snapshot' = [snapshot EXCEPT ![q] = {}]
          /\ locking' = [locking EXCEPT ![q] = FALSE]
          /\ Advance(q)
          /\ UNCHANGED <<op, status, found, context>>
      BY <1>4 DEF FinishDelete
    <2> QED
      BY <2>1, FinishDeleteKeeps
  <1>5. CASE (RunDetector(q) \/ Find(q) \/ Load(q)) /\ ~Abort(q) /\ ~End(q, "missing")
    BY <1>5, ReadOrLoadKeeps
  <1>6. CASE CreateIncident(q) /\ ~Abort(q)
    BY <1>6, CreateIncidentKeeps
  <1>7. CASE GroupAlerts(q)
    BY <1>7, GroupAlertsKeeps
  <1>8. CASE InsertChild(q) /\ ~Abort(q)
    BY <1>8, ChildRowKeeps
  <1>9. CASE BuildContext(q)
    BY <1>9, BuildContextKeeps
  <1>10. CASE Commit(q)
    BY <1>10, CommitKeeps
  <1>11. BreakDeadlock(q) => status[q] = "open" /\ Abort(q)
    BY WaitersAreOpen DEF BreakDeadlock, InSmallestCircle, Deadlock
  <1>12. Fail(q) => status[q] = "open" /\ Abort(q)
    BY DEF Fail
  <1>13. FinishDelete(q) \/ RunDetector(q) \/ Find(q) \/ Load(q) \/ CreateIncident(q) \/ InsertChild(q)
           => status[q] = "open"
    BY DEF FinishDelete, RunDetector, Find, Load, CreateIncident, InsertChild, At
  <1> QED
    BY <1>1, <1>2, <1>3, <1>4, <1>5, <1>6, <1>7, <1>8, <1>9, <1>10, <1>11, <1>12, <1>13 DEF Execute

\* A step that changes nothing keeps the invariant.
LEMMA StutterKeepsArtifacts == ASSUME ArtifactsInv, UNCHANGED vars PROVE ArtifactsInv'
  <1>1. /\ op' = op /\ at' = at /\ status' = status /\ rows' = rows /\ gone' = gone
        /\ snapshot' = snapshot /\ locking' = locking /\ context' = context
    BY DEF vars
  <1>2. Store' = Store /\ \A r \in Requests : Untouched(r)
    BY <1>1 DEF Store, Mine, Committed, Untouched
  <1>3. RowsInv'
    BY <1>1, FewerRows DEF ArtifactsInv
  <1>4. OneIncident' /\ Pinned'
    BY <1>1 DEF ArtifactsInv, OneIncident, Pinned, Of
  <1>5. Whole(Store)'
    BY <1>2 DEF ArtifactsInv, Whole, AlertsPaired, IncidentsWhole, TruthsPaired, RunsPaired,
                Parented, AlertEvidence, ToolEvidence, Of
  <1>6. \A r \in Requests : status[r] = "open" => Local(r)'
    BY <1>2, LocalFrame DEF ArtifactsInv
  <1>7. \A r \in Requests : status[r] = "ok" => Answered(r)'
    BY <1>1, <1>2 DEF ArtifactsInv, Answered, ToolEvidence, Of
  <1> QED
    BY <1>1, <1>3, <1>4, <1>5, <1>6, <1>7 DEF ArtifactsInv

\* Whatever the requests are and however they interleave, the invariant holds.
THEOREM ArtifactsInvariant == Spec => [](IInv /\ ArtifactsInv)
  <1>1. Init => ArtifactsInv
    BY InitArtifacts
  <1>2. IInv /\ ArtifactsInv /\ [Next]_vars => ArtifactsInv'
    BY StepArtifacts, StutterKeepsArtifacts DEF Next
  <1> QED
    BY <1>1, <1>2, StoreInvariant, PTL DEF Spec

-------------------------------------------------------------------------------
(* What it says of the store, and of investigations.                       *)

\* What is whole is together.
LEMMA WholeIsTogether == IInv /\ ArtifactsInv => ArtifactsTogether
  <1> SUFFICES ASSUME IInv, ArtifactsInv PROVE ArtifactsTogether
    OBVIOUS
  <1> DEFINE evidence == Of("evidence", Store)
             incidents == Of("incidents", Store)
  <1>1. Whole(Store) /\ Store \subseteq rows /\ rows \subseteq AllRows /\ \A w \in Store : RowIs(w)
    BY DEF ArtifactsInv, RowsInv, Store, IInv, TypeOK
  <1>2. /\ AlertsPaired(Store) /\ IncidentsWhole(Store) /\ TruthsPaired(Store) /\ RunsPaired(Store)
    BY <1>1 DEF Whole
  <1>3. /\ AlertEvidence(Store) = {w \in evidence : IsAlertEvidence(w)}
        /\ ToolEvidence(Store) = {w \in evidence : ~IsAlertEvidence(w)}
    BY DEF AlertEvidence, ToolEvidence
  <1>4. {w.key : w \in Of("alerts", Store)} = {e.key : e \in AlertEvidence(Store)}
    BY <1>2 DEF AlertsPaired
  <1>5. ASSUME NEW i \in incidents
        PROVE  i.alerts = {e.key : e \in {w \in evidence : IsAlertEvidence(w) /\ w.parent = i.key}}
    <2> DEFINE keys == {e.key : e \in {w \in evidence : IsAlertEvidence(w) /\ w.parent = i.key}}
    <2>1. \A k : k \in keys <=> \E e \in evidence : IsAlertEvidence(e) /\ e.parent = i.key /\ e.key = k
      OBVIOUS
    <2>2. \A e : e \in AlertEvidence(Store) <=> e \in evidence /\ IsAlertEvidence(e)
      BY <1>3
    <2>3. /\ \A e \in AlertEvidence(Store) : e.parent = i.key => e.key \in i.alerts
          /\ \A k \in i.alerts : \E e \in AlertEvidence(Store) : e.parent = i.key /\ e.key = k
      BY <1>2 DEF IncidentsWhole
    <2>4. \A k : k \in i.alerts <=> k \in keys
      BY <2>1, <2>2, <2>3
    <2>5. i.alerts \in SUBSET Keys
      BY <1>1 DEF Of, AllRows
    <2> HIDE DEF keys
    <2>6. i.alerts = keys
      BY <2>4, <2>5
    <2> QED
      BY <2>6 DEF keys
  <1>6. {t.key : t \in Of("ground_truth", Store)}
          = {i.key : i \in incidents} \cap {IncidentOf(m) : m \in Manifests}
    <2>1. \A t \in Of("ground_truth", Store) : t.key \in ManifestKeys
      BY <1>1 DEF Of, RowIs
    <2>2. /\ \A t \in Of("ground_truth", Store) : \E i \in incidents : i.key = t.key
          /\ \A i \in incidents :
               i.key \in ManifestKeys => \E t \in Of("ground_truth", Store) : t.key = i.key
      BY <1>2 DEF TruthsPaired
    <2> HIDE DEF incidents
    <2>3. {t.key : t \in Of("ground_truth", Store)} = {i.key : i \in incidents} \cap ManifestKeys
      BY <2>1, <2>2
    <2> QED
      BY <2>3 DEF ManifestKeys
  <1>7. {a.key : a \in Of("agent_runs", Store)} = {e.key : e \in ToolEvidence(Store)}
    BY <1>2 DEF RunsPaired
  <1> QED
    BY <1>3, <1>4, <1>5, <1>6, <1>7 DEF ArtifactsTogether

\* Who has written a tool's evidence was given the alerts of the incident it refers to.
LEMMA WholeIsInvestigated == IInv /\ ArtifactsInv => InvestigatesWhatIsStored
  <1> SUFFICES ASSUME IInv, ArtifactsInv, NEW r \in Requests,
                      NEW e \in Of("evidence", View(r)), e.key = <<r, 0>>,
                      NEW i \in Of("incidents", View(r)), i.key = e.parent
               PROVE  context[r] = i.alerts
    BY DEF InvestigatesWhatIsStored
  <1>1. View(r) \subseteq rows
    BY DEF View, Visible, Store
  <1>2. e \in rows /\ e.table = "evidence" /\ ~IsAlertEvidence(e) /\ e \in ToolEvidence({e})
    BY <1>1 DEF Of, ToolEvidence, IsAlertEvidence
  <1>3. e.by = r /\ e.parent \in Subjects(op[r])
    BY <1>2 DEF ArtifactsInv, RowsInv, RowIs, IsAbout
  <1>4. CASE status[r] = "open"
    <2>1. e \in ToolEvidence(Mine(r)) /\ i \in Of("incidents", Visible(r)) /\ Local(r)
      BY <1>2, <1>3, <1>4 DEF ToolEvidence, Of, Mine, View, ArtifactsInv
    <2> QED
      BY <1>3, <2>1 DEF Local, HasContext, GivenIncident
  <1>5. CASE status[r] # "open"
    <2>1. e \in Store /\ i \in Of("incidents", Store)
      BY <1>5 DEF View, Of
    <2>2. status[r] = "ok"
      BY <1>3, <2>1, NoNameClash DEF Store, Committed
    <2> QED
      BY <1>2, <1>3, <2>1, <2>2 DEF ArtifactsInv, Answered, ToolEvidence, Of
  <1> QED
    BY <1>4, <1>5

\* However wipes, injections, detections and investigations interleave, fail and deadlock, what
\* one request stored is there as a whole or not at all: alerts and the evidence that refers to
\* them, incidents and their alerts, ground truth, runs and their tools' evidence.
THEOREM TogetherOrNotAtAll == Spec => []ArtifactsTogether
  BY ArtifactsInvariant, WholeIsTogether, PTL

\* An investigation that has come to its tools was given the alert evidence of the very incident
\* that its run refers to, whoever wiped and injected anew meanwhile.
THEOREM InvestigationsSeeTheirIncident == Spec => []InvestigatesWhatIsStored
  BY ArtifactsInvariant, WholeIsInvestigated, PTL
===============================================================================
