------------------------- MODULE IncidentStoreProofs --------------------------
(***************************************************************************)
(* Proofs about IncidentStore for any requests and manifests: its types,   *)
(* that regenerations of the data set exclude each other, as Evaluation    *)
(* has it from Regeneration, that waits are resolved, and how long         *)
(* requests can take.                                                      *)
(***************************************************************************)
EXTENDS IncidentStore, RecursionProofs, FiniteSetTheorems, SequenceTheorems, TLAPS

-------------------------------------------------------------------------------
(* The statements of the requests.                                         *)

ManifestKeys == {IncidentOf(m) : m \in Manifests}

Detecting == ({"detector"} \X Detectors) \cup {<<"group">>}

\* What seeds, injections, investigations and evaluations consist of; keys are the
\* incidents that are investigated.
WorkOn(keys) ==
  ({"delete"} \X Tables) \cup ({"load"} \X Contents) \cup ({"detector"} \X Detectors)
    \cup ({"create"} \X ManifestKeys) \cup ({"find", "run", "context", "tool"} \X keys)

Subjects(o) ==
  CASE o[1] = "evaluate"    -> {IncidentOf(o[2])}
    [] o[1] = "investigate" -> {o[2]}
    [] OTHER                -> {}

StatementsOf(o) == IF o = <<"detect">> THEN Detecting ELSE WorkOn(Subjects(o))

\* The wipe goes through the tables in this order.
NextTable ==
  [t \in Tables \ {"data"} |->
     CASE t = "evidence"     -> "agent_runs"
       [] t = "agent_runs"   -> "ground_truth"
       [] t = "ground_truth" -> "alerts"
       [] t = "alerts"       -> "incidents"
       [] t = "incidents"    -> "data"]

\* Wipes and investigations are not entered in their middle, and not left there.
Enters(s) == s[1] \notin {"context", "tool"} /\ (s[1] = "delete" => s[2] = "evidence")

Leaves(s) == s[1] \notin {"delete", "run", "context"}

Follows(s, t) ==
  /\ s[1] = "delete" /\ s[2] # "data" => t = <<"delete", NextTable[s[2]]>>
  /\ s[1] = "delete" /\ s[2] = "data" => t[1] = "load"
  /\ s[1] = "run" => t[1] = "context"
  /\ s[1] = "context" => t[1] = "tool"
  /\ Leaves(s) => Enters(t)

InOrder(s) ==
  /\ Len(s) > 0
  /\ Enters(s[1])
  /\ Leaves(s[Len(s)])
  /\ \A k \in 1 .. Len(s) - 1 : Follows(s[k], s[k + 1])

Programs(S) == {s \in Seq(S) : InOrder(s)}

\* Programs one after the other are a program.
LEMMA ProgramsConcat ==
  ASSUME NEW S, NEW s \in Programs(S), NEW t \in Programs(S)
  PROVE  s \o t \in Programs(S)
  <1>1. s \in Seq(S) /\ t \in Seq(S) /\ s \o t \in Seq(S)
    BY DEF Programs, InOrder
  <1>2. /\ Len(s) \in Nat /\ Len(t) \in Nat /\ Len(s \o t) = Len(s) + Len(t)
        /\ Len(s) > 0 /\ Len(t) > 0
        /\ \A k \in 1 .. Len(s) : (s \o t)[k] = s[k]
        /\ \A k \in Len(s) + 1 .. Len(s) + Len(t) : (s \o t)[k] = t[k - Len(s)]
    <2>1. Len(s) > 0 /\ Len(t) > 0
      BY DEF Programs, InOrder
    <2> QED
      BY <1>1, <2>1, ConcatProperties
  <1>3. Enters((s \o t)[1])
    <2>1. (s \o t)[1] = s[1]
      BY <1>2
    <2> QED
      BY <2>1 DEF Programs, InOrder
  <1>4. Leaves((s \o t)[Len(s \o t)])
    <2>1. (s \o t)[Len(s) + Len(t)] = t[(Len(s) + Len(t)) - Len(s)]
      BY <1>2
    <2>2. (Len(s) + Len(t)) - Len(s) = Len(t)
      BY <1>2
    <2> QED
      BY <1>2, <2>1, <2>2 DEF Programs, InOrder
  <1>5. ASSUME NEW k \in 1 .. Len(s \o t) - 1 PROVE Follows((s \o t)[k], (s \o t)[k + 1])
    <2>1. CASE k < Len(s)
      <3>1. (s \o t)[k] = s[k] /\ (s \o t)[k + 1] = s[k + 1] /\ k \in 1 .. Len(s) - 1
        BY <1>2, <2>1
      <3> QED
        BY <3>1 DEF Programs, InOrder
    <2>2. CASE k = Len(s)
      <3>1. (s \o t)[k] = s[Len(s)]
        BY <1>2, <2>2
      <3>2. (s \o t)[k + 1] = t[(k + 1) - Len(s)] /\ (k + 1) - Len(s) = 1
        BY <1>2, <2>2
      <3>3. Leaves(s[Len(s)]) /\ Enters(t[1])
        BY DEF Programs, InOrder
      <3> QED
        BY <3>1, <3>2, <3>3 DEF Follows, Leaves
    <2>3. CASE k > Len(s)
      <3> DEFINE i == k - Len(s)
      <3>1. i \in 1 .. Len(t) - 1 /\ (k + 1) - Len(s) = i + 1
        BY <1>2, <2>3
      <3>2. (s \o t)[k] = t[i] /\ (s \o t)[k + 1] = t[(k + 1) - Len(s)]
        BY <1>2, <2>3
      <3> QED
        BY <3>1, <3>2 DEF Programs, InOrder
    <2> QED
      BY <1>2, <2>1, <2>2, <2>3
  <1> QED
    <2>1. InOrder(s \o t)
      BY <1>2, <1>3, <1>4, <1>5 DEF InOrder
    <2> QED
      BY <1>1, <2>1 DEF Programs

\* Some statements and one more.
LEMMA OneMore ==
  ASSUME NEW S, NEW s \in Seq(S), NEW t \in Seq(S), Len(t) = 1
  PROVE  /\ s \o t \in Seq(S) /\ Len(s \o t) = Len(s) + 1
         /\ \A k \in 1 .. Len(s) : (s \o t)[k] = s[k]
         /\ (s \o t)[Len(s) + 1] = t[1]
  <1>1. /\ s \o t \in Seq(S) /\ Len(s \o t) = Len(s) + Len(t)
        /\ \A i \in 1 .. Len(s) + Len(t) :
             (s \o t)[i] = IF i <= Len(s) THEN s[i] ELSE t[i - Len(s)]
    BY ConcatProperties
  <1> QED
    BY <1>1, Len(t) = 1

\* restore_clean_baseline deletes in order, and loads.
LEMMA RestoreIsProgram ==
  ASSUME NEW keys, NEW c \in Contents PROVE Restore(c) \in Programs(WorkOn(keys))
  <1> DEFINE deletes == [k \in DOMAIN WipeOrder |-> <<"delete", WipeOrder[k]>>]
             load == <<<<"load", c>>>>
  <1>1. deletes \in Seq(WorkOn(keys)) /\ Len(deletes) = 6
    <2>1. DOMAIN WipeOrder = 1 .. 6 /\ \A k \in 1 .. 6 : WipeOrder[k] \in Tables
      BY DEF WipeOrder, Tables
    <2>2. deletes \in [1 .. 6 -> WorkOn(keys)]
      BY <2>1 DEF WorkOn
    <2> QED
      BY <2>2
  <1>2. /\ deletes[1] = <<"delete", "evidence">> /\ deletes[2] = <<"delete", "agent_runs">>
        /\ deletes[3] = <<"delete", "ground_truth">> /\ deletes[4] = <<"delete", "alerts">>
        /\ deletes[5] = <<"delete", "incidents">> /\ deletes[6] = <<"delete", "data">>
    <2>1. DOMAIN WipeOrder = 1 .. 6
      BY DEF WipeOrder
    <2>2. \A k \in 1 .. 6 : deletes[k] = <<"delete", WipeOrder[k]>>
      BY <2>1
    <2> QED
      BY <2>2 DEF WipeOrder
  <1>3. load \in Seq(WorkOn(keys)) /\ Len(load) = 1 /\ load[1] = <<"load", c>>
    BY DEF WorkOn
  <1>4. Restore(c) = deletes \o load
    BY DEF Restore
  <1> HIDE DEF deletes, load
  <1>5. /\ Restore(c) \in Seq(WorkOn(keys)) /\ Len(Restore(c)) = 7
        /\ \A k \in 1 .. 6 : Restore(c)[k] = deletes[k]
        /\ Restore(c)[7] = load[1]
    <2> DEFINE s == deletes \o load
    <2>1. deletes \in Seq(WorkOn(keys)) /\ load \in Seq(WorkOn(keys)) /\ Len(load) = 1
      BY <1>1, <1>3
    <2>2. /\ s \in Seq(WorkOn(keys)) /\ Len(s) = Len(deletes) + 1
          /\ \A k \in 1 .. Len(deletes) : s[k] = deletes[k]
          /\ s[Len(deletes) + 1] = load[1]
      BY <2>1, OneMore
    <2> HIDE DEF s
    <2>3. Len(deletes) = 6 /\ Len(deletes) + 1 = 7
      BY <1>1
    <2>4. /\ s \in Seq(WorkOn(keys)) /\ Len(s) = 7
          /\ \A k \in 1 .. 6 : s[k] = deletes[k]
          /\ s[7] = load[1]
      BY <2>2, <2>3
    <2> QED
      BY <1>4, <2>4 DEF s
  <1> DEFINE s == Restore(c)
  <1>6. /\ s \in Seq(WorkOn(keys)) /\ Len(s) = 7
        /\ s[1] = <<"delete", "evidence">> /\ s[2] = <<"delete", "agent_runs">>
        /\ s[3] = <<"delete", "ground_truth">> /\ s[4] = <<"delete", "alerts">>
        /\ s[5] = <<"delete", "incidents">> /\ s[6] = <<"delete", "data">>
        /\ s[7] = <<"load", c>>
    BY <1>2, <1>3, <1>5
  <1> HIDE DEF s
  <1>7. Enters(s[1]) /\ Leaves(s[Len(s)])
    BY <1>6 DEF Enters, Leaves
  <1>8. /\ Follows(s[1], s[2]) /\ Follows(s[2], s[3]) /\ Follows(s[3], s[4])
        /\ Follows(s[4], s[5]) /\ Follows(s[5], s[6]) /\ Follows(s[6], s[7])
    BY <1>6 DEF Follows, Leaves, NextTable, Tables
  <1>9. \A k \in 1 .. Len(s) - 1 : Follows(s[k], s[k + 1])
    <2> SUFFICES ASSUME NEW k \in 1 .. 6 PROVE Follows(s[k], s[k + 1])
      BY <1>6
    <2>1. k = 1 \/ k = 2 \/ k = 3 \/ k = 4 \/ k = 5 \/ k = 6
      OBVIOUS
    <2> QED
      BY <1>8, <2>1
  <1>10. InOrder(s)
    BY <1>6, <1>7, <1>9 DEF InOrder
  <1>11. s \in Programs(WorkOn(keys))
    BY <1>6, <1>10 DEF Programs
  <1> QED
    BY <1>11 DEF s

\* The other statements are in order, too.
LEMMA OtherPrograms ==
  ASSUME NEW keys
  PROVE  /\ RunDetectors \in Programs(WorkOn(keys))
         /\ \A k \in ManifestKeys : <<<<"create", k>>>> \in Programs(WorkOn(keys))
         /\ \A k \in keys : Investigate(k) \in Programs(WorkOn(keys))
  <1>1. RunDetectors \in Programs(WorkOn(keys))
    BY DEF RunDetectors, Programs, InOrder, Enters, Leaves, Follows, WorkOn, Detectors
  <1>2. ASSUME NEW k \in ManifestKeys PROVE <<<<"create", k>>>> \in Programs(WorkOn(keys))
    BY DEF Programs, InOrder, Enters, Leaves, Follows, WorkOn
  <1>3. ASSUME NEW k \in keys PROVE Investigate(k) \in Programs(WorkOn(keys))
    BY DEF Investigate, Programs, InOrder, Enters, Leaves, Follows, WorkOn
  <1> QED
    BY <1>1, <1>2, <1>3

\* run-detection reads twice and stores once.
LEMMA DetectProgram ==
  ASSUME <<"detect">> \in Operations
  PROVE  /\ Len(Program[<<"detect">>]) = 3
         /\ Program[<<"detect">>][1] = <<"detector", 1>>
         /\ Program[<<"detect">>][2] = <<"detector", 2>>
         /\ Program[<<"detect">>][3] = <<"group">>
  <1> DEFINE group == <<<<"group">>>>
  <1>1. /\ RunDetectors \in Seq(Detecting) /\ Len(RunDetectors) = 2
        /\ RunDetectors[1] = <<"detector", 1>> /\ RunDetectors[2] = <<"detector", 2>>
    BY DEF RunDetectors, Detecting, Detectors
  <1>2. group \in Seq(Detecting) /\ Len(group) = 1 /\ group[1] = <<"group">>
    BY DEF Detecting
  <1>3. Program[<<"detect">>] = RunDetectors \o group
    BY DEF Program
  <1> HIDE DEF group
  <1> DEFINE s == RunDetectors \o group
  <1>4. /\ Len(s) = Len(RunDetectors) + 1
        /\ \A k \in 1 .. Len(RunDetectors) : s[k] = RunDetectors[k]
        /\ s[Len(RunDetectors) + 1] = group[1]
    BY <1>1, <1>2, OneMore
  <1> HIDE DEF s
  <1>5. Len(s) = 3 /\ (\A k \in 1 .. 2 : s[k] = RunDetectors[k]) /\ s[3] = group[1]
    <2> DEFINE n == Len(RunDetectors)
    <2>1. n = 2 /\ n + 1 = 3
      BY <1>1
    <2>2. Len(s) = n + 1 /\ (\A k \in 1 .. n : s[k] = RunDetectors[k]) /\ s[n + 1] = group[1]
      BY <1>4
    <2> HIDE DEF n
    <2> QED
      BY <2>1, <2>2
  <1>6. Program[<<"detect">>] = s
    BY <1>3 DEF s
  <1>7. 1 \in 1 .. 2 /\ 2 \in 1 .. 2
    OBVIOUS
  <1>8. s[1] = RunDetectors[1] /\ s[2] = RunDetectors[2]
    BY <1>5, <1>7
  <1> QED
    BY <1>1, <1>2, <1>5, <1>6, <1>8

\* Every operation is a program of its own statements.
LEMMA ProgramIsProgram ==
  ASSUME NEW o \in Operations PROVE Program[o] \in Programs(StatementsOf(o))
  <1>1. Clean \in Contents /\ Manifests \subseteq Contents
    BY DEF Contents
  <1>2. \A m \in Manifests : IncidentOf(m) \in ManifestKeys
    BY DEF ManifestKeys
  <1>3. ASSUME NEW keys, NEW m \in Manifests PROVE Pipeline(m) \in Programs(WorkOn(keys))
    BY <1>1, <1>2, RestoreIsProgram, OtherPrograms, ProgramsConcat DEF Pipeline
  <1>4. CASE o = <<"seed">>
    <2>1. StatementsOf(o) = WorkOn(Subjects(o)) /\ Program[o] = Restore(Clean)
      BY <1>4 DEF Program, StatementsOf
    <2> QED
      BY <1>1, <2>1, RestoreIsProgram
  <1>5. CASE o = <<"detect">>
    <2> DEFINE s == Program[o]
    <2>1. /\ Len(s) = 3 /\ s[1] = <<"detector", 1>> /\ s[2] = <<"detector", 2>>
          /\ s[3] = <<"group">>
      BY <1>5, DetectProgram
    <2>2. s \in Seq(Detecting)
      <3>1. RunDetectors \in Seq(Detecting) /\ <<<<"group">>>> \in Seq(Detecting)
        BY DEF RunDetectors, Detecting, Detectors
      <3>2. s = RunDetectors \o <<<<"group">>>>
        BY <1>5 DEF Program
      <3> QED
        BY <3>1, <3>2, ConcatProperties
    <2> HIDE DEF s
    <2>3. Enters(s[1]) /\ Leaves(s[Len(s)]) /\ Follows(s[1], s[2]) /\ Follows(s[2], s[3])
      BY <2>1 DEF Enters, Leaves, Follows
    <2>4. \A k \in 1 .. Len(s) - 1 : Follows(s[k], s[k + 1])
      <3>1. \A k \in 1 .. Len(s) - 1 : k = 1 \/ k = 2
        BY <2>1
      <3> QED
        BY <2>3, <3>1
    <2>5. InOrder(s)
      BY <2>1, <2>3, <2>4 DEF InOrder
    <2>6. s \in Programs(Detecting)
      BY <2>2, <2>5 DEF Programs
    <2> QED
      BY <1>5, <2>6 DEF s, StatementsOf
  <1>6. ASSUME NEW m \in Manifests, o = <<"inject", m>>
        PROVE  Program[o] \in Programs(StatementsOf(o))
    <2>1. StatementsOf(o) = WorkOn(Subjects(o)) /\ Program[o] = Pipeline(m)
      BY <1>6 DEF Program, StatementsOf
    <2> QED
      BY <1>3, <2>1
  <1>7. ASSUME NEW key \in Keys, o = <<"investigate", key>>
        PROVE  Program[o] \in Programs(StatementsOf(o))
    <2>1. StatementsOf(o) = WorkOn({key}) /\ Program[o] = Investigate(key)
      BY <1>7 DEF Program, StatementsOf, Subjects
    <2> QED
      BY <2>1, OtherPrograms
  <1>8. ASSUME NEW m \in Manifests, o = <<"evaluate", m>>
        PROVE  Program[o] \in Programs(StatementsOf(o))
    <2> DEFINE R == Restore(Clean)
               P == Pipeline(m)
               I == Investigate(IncidentOf(m))
               W == WorkOn({IncidentOf(m)})
    <2>1. R \in Programs(W) /\ P \in Programs(W) /\ I \in Programs(W)
      BY <1>1, <1>3, RestoreIsProgram, OtherPrograms
    <2>2. Program[o] = R \o P \o I \o R /\ StatementsOf(o) = W
      BY <1>8 DEF Program, StatementsOf, Subjects
    <2> HIDE DEF R, P, I, W
    <2>3. R \o P \in Programs(W)
      BY <2>1, ProgramsConcat
    <2>4. (R \o P) \o I \in Programs(W)
      BY <2>1, <2>3, ProgramsConcat
    <2> QED
      BY <2>1, <2>2, <2>4, ProgramsConcat
  <1> QED
    BY <1>4, <1>5, <1>6, <1>7, <1>8, OperationsAssumption

-------------------------------------------------------------------------------
(* The invariant.                                                          *)

\* Rows have an owner that is at work or has committed.
OwnersInv == \A w \in rows : w.by = Setup \/ status[w.by] \in {"open", "ok"}

\* An open request has deleted what others have committed, each row for itself.
GoneInv ==
  \A r \in Requests :
    /\ gone[r] # {} => status[r] = "open"
    /\ \A w \in gone[r] : w.by # r /\ Committed(w.by)
    /\ \A q \in Requests \ {r} : gone[r] \cap gone[q] = {}

\* A DELETE under way has chosen rows of its table that the request can see.
SnapshotInv ==
  \A r \in Requests :
    /\ locking[r] => At(r, "delete")
    /\ ~locking[r] => snapshot[r] = {}
    /\ \A w \in snapshot[r] : w.table = Argument(r) /\ (w.by = r \/ Committed(w.by))

Own(r) == {w \in Of("data", rows) : w.by = r}

Deleted(r) == Of("data", gone[r])

\* There is one committed data set; who has one of its own has deleted that one, and who
\* has deleted it and has none is about to load it.
DataInv ==
  /\ \A w \in Of("data", rows) : w.key = BaselineKey
  /\ \E d : Of("data", Store) = {d}
  /\ \A r \in Requests : status[r] = "open" =>
       /\ Own(r) # {} => Deleted(r) # {}
       /\ \A v, w \in Own(r) : v = w
       /\ Own(r) = {} /\ Deleted(r) # {} => At(r, "load")

IInv == TypeOK /\ OwnersInv /\ GoneInv /\ SnapshotInv /\ DataInv

\* Keys and contents that the rows use.
LEMMA KeysType ==
  /\ BaselineKey \in Keys /\ NoParent \in Keys /\ Clean \in Contents
  /\ \A m \in Manifests : IncidentOf(m) \in Keys /\ m \in Contents
  /\ \A r \in Requests \cup {Setup}, k \in Nat : <<r, k>> \in Keys
  BY DEF BaselineKey, NoParent, Contents, IncidentOf, Keys

\* The rows of one data set, one incident, one run.
LEMMA NewRows ==
  ASSUME NEW r \in Requests \cup {Setup}, NEW c \in Contents, NEW k \in Nat, NEW key \in Keys,
         NEW alerts \in SUBSET Keys
  PROVE  /\ DataRow(r, c) \in AllRows /\ DataRow(r, c).table = "data" /\ DataRow(r, c).by = r
         /\ DataRow(r, c).key = BaselineKey
         /\ AlertRow(r, k) \in AllRows /\ AlertRow(r, k).table = "alerts" /\ AlertRow(r, k).by = r
         /\ EvidenceRow(r, k, key) \in AllRows /\ EvidenceRow(r, k, key).table = "evidence"
         /\ EvidenceRow(r, k, key).by = r
         /\ RunRow(r, key) \in AllRows /\ RunRow(r, key).table = "agent_runs" /\ RunRow(r, key).by = r
         /\ TruthRow(r, key) \in AllRows /\ TruthRow(r, key).table = "ground_truth"
         /\ TruthRow(r, key).by = r
         /\ IncidentRow(r, key, alerts) \in AllRows
         /\ IncidentRow(r, key, alerts).table = "incidents" /\ IncidentRow(r, key, alerts).by = r
  <1>1. /\ {} \in SUBSET Keys /\ r \in Requests \cup {Setup}
        /\ "data" \in Tables /\ "alerts" \in Tables /\ "evidence" \in Tables
        /\ "agent_runs" \in Tables /\ "ground_truth" \in Tables /\ "incidents" \in Tables
    BY DEF Tables
  <1>2. <<r, k>> \in Keys /\ <<r, 0>> \in Keys /\ BaselineKey \in Keys /\ NoParent \in Keys
        /\ Clean \in Contents
    BY KeysType
  <1>3. DataRow(r, c) \in AllRows /\ DataRow(r, c).table = "data" /\ DataRow(r, c).by = r
        /\ DataRow(r, c).key = BaselineKey
    BY <1>1, <1>2 DEF DataRow, Row, AllRows
  <1>4. AlertRow(r, k) \in AllRows /\ AlertRow(r, k).table = "alerts" /\ AlertRow(r, k).by = r
    BY <1>1, <1>2 DEF AlertRow, Row, AllRows
  <1>5. EvidenceRow(r, k, key) \in AllRows /\ EvidenceRow(r, k, key).table = "evidence"
        /\ EvidenceRow(r, k, key).by = r
    BY <1>1, <1>2 DEF EvidenceRow, Row, AllRows
  <1>6. RunRow(r, key) \in AllRows /\ RunRow(r, key).table = "agent_runs" /\ RunRow(r, key).by = r
    BY <1>1, <1>2 DEF RunRow, Row, AllRows
  <1>7. TruthRow(r, key) \in AllRows /\ TruthRow(r, key).table = "ground_truth"
        /\ TruthRow(r, key).by = r
    BY <1>1, <1>2 DEF TruthRow, Row, AllRows
  <1>8. IncidentRow(r, key, alerts) \in AllRows
        /\ IncidentRow(r, key, alerts).table = "incidents" /\ IncidentRow(r, key, alerts).by = r
    BY <1>1, <1>2 DEF IncidentRow, Row, AllRows
  <1> QED
    BY <1>3, <1>4, <1>5, <1>6, <1>7, <1>8

\* Before any request there is one data set, clean or injected.
LEMMA InitIInv == Init => IInv
  <1> SUFFICES ASSUME Init PROVE IInv
    OBVIOUS
  <1>1. rows \subseteq AllRows /\ \A w \in rows : w.by = Setup
    <2>1. CASE rows = {DataRow(Setup, Clean)}
      BY <2>1, KeysType, NewRows
    <2>2. ASSUME NEW m \in Manifests,
            rows = {DataRow(Setup, m), AlertRow(Setup, 1), TruthRow(Setup, IncidentOf(m)),
                    EvidenceRow(Setup, 1, IncidentOf(m)),
                    IncidentRow(Setup, IncidentOf(m), {<<Setup, 1>>})}
          PROVE  rows \subseteq AllRows /\ \A w \in rows : w.by = Setup
      BY <2>2, KeysType, NewRows
    <2> QED
      BY <2>1, <2>2 DEF Init
  <1>2. TypeOK
    BY <1>1 DEF Init, TypeOK, AllRows, Ended
  <1>3. OwnersInv /\ GoneInv /\ SnapshotInv
    BY <1>1 DEF Init, OwnersInv, GoneInv, SnapshotInv
  <1>4. \E c \in Contents : Of("data", rows) = {DataRow(Setup, c)}
    <2>1. CASE rows = {DataRow(Setup, Clean)}
      BY <2>1, KeysType, NewRows DEF Of
    <2>2. ASSUME NEW m \in Manifests,
            rows = {DataRow(Setup, m), AlertRow(Setup, 1), TruthRow(Setup, IncidentOf(m)),
                    EvidenceRow(Setup, 1, IncidentOf(m)),
                    IncidentRow(Setup, IncidentOf(m), {<<Setup, 1>>})}
          PROVE  Of("data", rows) = {DataRow(Setup, m)}
      BY <2>2, KeysType, NewRows DEF Of
    <2> QED
      BY <2>1, <2>2, KeysType DEF Init
  <1>5. Store = rows
    BY <1>1 DEF Store, Committed
  <1>6. \A w \in Of("data", rows) : w.key = BaselineKey
    BY <1>4, NewRows, KeysType
  <1>7. \A r \in Requests : status[r] # "open"
    BY DEF Init
  <1> QED
    BY <1>2, <1>3, <1>4, <1>5, <1>6, <1>7 DEF IInv, DataInv

-------------------------------------------------------------------------------
(* Facts about one request.                                                *)

\* The incidents that an operation is about are known by key.
LEMMA SubjectsType ==
  ASSUME NEW o \in Operations
  PROVE  Subjects(o) \in SUBSET Keys /\ \A j, k \in Subjects(o) : j = k
  <1>1. \A m \in Manifests : IncidentOf(m) \in Keys
    BY DEF IncidentOf, Keys
  <1>2. CASE o \in {<<"seed">>, <<"detect">>}
    BY <1>2 DEF Subjects
  <1>3. CASE o \in {"inject", "evaluate"} \X Manifests
    BY <1>1, <1>3 DEF Subjects
  <1>4. CASE o \in {"investigate"} \X Keys
    BY <1>4 DEF Subjects
  <1> QED
    BY <1>2, <1>3, <1>4, OperationsAssumption

\* What one statement is about.
StatementIs(s, o) ==
  /\ s[1] = "delete" => s[2] \in Tables
  /\ s[1] = "load" => s[2] \in Contents
  /\ s[1] = "detector" => s[2] \in Detectors
  /\ s[1] = "create" => s[2] \in ManifestKeys
  /\ s[1] \in {"find", "run", "context", "tool"} => s[2] \in Subjects(o)
  /\ s[1] = "group" => o = <<"detect">>
  /\ s[1] \in {"delete", "load", "create", "find", "run", "context", "tool"} => o # <<"detect">>

\* The statements of an operation are about its tables, contents and incidents.
LEMMA StatementsAre ==
  ASSUME NEW o, NEW s \in StatementsOf(o) PROVE StatementIs(s, o)
  <1>1. CASE o = <<"detect">>
    <2>1. s \in Detecting
      BY <1>1 DEF StatementsOf
    <2>2. CASE s \in {"detector"} \X Detectors
      BY <1>1, <2>2 DEF StatementIs
    <2>3. CASE s = <<"group">>
      BY <1>1, <2>3 DEF StatementIs
    <2> QED
      BY <2>1, <2>2, <2>3 DEF Detecting
  <1>2. CASE o # <<"detect">>
    <2>1. s \in WorkOn(Subjects(o))
      BY <1>2 DEF StatementsOf
    <2>2. CASE s \in {"delete"} \X Tables
      BY <1>2, <2>2 DEF StatementIs
    <2>3. CASE s \in {"load"} \X Contents
      BY <1>2, <2>3 DEF StatementIs
    <2>4. CASE s \in {"detector"} \X Detectors
      BY <1>2, <2>4 DEF StatementIs
    <2>5. CASE s \in {"create"} \X ManifestKeys
      BY <1>2, <2>5 DEF StatementIs
    <2>6. CASE s \in {"find", "run", "context", "tool"} \X Subjects(o)
      BY <1>2, <2>6 DEF StatementIs
    <2> QED
      BY <2>1, <2>2, <2>3, <2>4, <2>5, <2>6 DEF WorkOn
  <1> QED
    BY <1>1, <1>2

\* What the statement of a request is about.
LEMMA StatementType ==
  ASSUME TypeOK, NEW r \in Requests, NEW name, At(r, name)
  PROVE  /\ op[r] \in Operations /\ Program[op[r]] \in Programs(StatementsOf(op[r]))
         /\ Program[op[r]][at[r]] \in StatementsOf(op[r])
         /\ Program[op[r]][at[r]][1] = name
         /\ at[r] \in 1 .. Len(Program[op[r]]) /\ status[r] = "open"
         /\ name = "delete" => Argument(r) \in Tables
         /\ name = "load" => Argument(r) \in Contents
         /\ name = "detector" => Argument(r) \in Detectors
         /\ name = "create" => Argument(r) \in ManifestKeys
         /\ name \in {"find", "run", "context", "tool"} => Argument(r) \in Subjects(op[r])
         /\ name \in {"create", "find", "run", "context", "tool"} => Argument(r) \in Keys
         /\ name = "group" => op[r] = <<"detect">>
         /\ name \in {"delete", "load", "create", "find", "run", "context", "tool"}
              => op[r] # <<"detect">>
  <1>1. op[r] \in Operations /\ Program[op[r]] \in Programs(StatementsOf(op[r]))
    <2>1. op[r] \in Operations
      BY DEF TypeOK
    <2> QED
      BY <2>1, ProgramIsProgram
  <1>2. Program[op[r]] \in Seq(StatementsOf(op[r])) /\ Len(Program[op[r]]) \in Nat
    BY <1>1 DEF Programs
  <1>3. at[r] \in 1 .. Len(Program[op[r]]) /\ status[r] = "open"
    BY <1>2 DEF At, TypeOK
  <1>4. Program[op[r]][at[r]] \in StatementsOf(op[r])
    BY <1>2, <1>3
  <1>5. Program[op[r]][at[r]][1] = name
    BY DEF At
  <1>6. StatementIs(Program[op[r]][at[r]], op[r])
    BY <1>4, StatementsAre
  <1>7. Subjects(op[r]) \in SUBSET Keys /\ ManifestKeys \in SUBSET Keys
    BY <1>1, SubjectsType DEF ManifestKeys, IncidentOf, Keys
  <1> QED
    BY <1>1, <1>3, <1>4, <1>5, <1>6, <1>7 DEF Argument, StatementIs

\* The statement after this one.
LEMMA NextStatement ==
  ASSUME TypeOK, NEW r \in Requests, NEW name, At(r, name)
  PROVE  LET p == Program[op[r]]
         IN  /\ at[r] < Len(p) => Follows(p[at[r]], p[at[r] + 1])
             /\ ~Leaves(p[at[r]]) => at[r] < Len(p)
             /\ Len(p) \in Nat
  <1> DEFINE p == Program[op[r]]
  <1>1. p \in Programs(StatementsOf(op[r])) /\ at[r] \in 1 .. Len(p)
    BY StatementType
  <1>2. Len(p) \in Nat /\ InOrder(p)
    BY <1>1 DEF Programs
  <1> HIDE DEF p
  <1>3. at[r] < Len(p) => Follows(p[at[r]], p[at[r] + 1])
    BY <1>1, <1>2 DEF InOrder
  <1>4. ~Leaves(p[at[r]]) => at[r] < Len(p)
    BY <1>1, <1>2 DEF InOrder
  <1> QED
    BY <1>2, <1>3, <1>4 DEF p

\* The wipe of the data set is followed by the generation of another.
LEMMA WipeThenLoad ==
  ASSUME TypeOK, NEW r \in Requests, At(r, "delete"), Argument(r) = "data"
  PROVE  /\ at[r] + 1 <= Len(Program[op[r]])
         /\ Program[op[r]][at[r] + 1][1] = "load"
  <1> DEFINE p == Program[op[r]]
  <1>1. p[at[r]][1] = "delete" /\ p[at[r]][2] = "data" /\ at[r] \in 1 .. Len(p)
    BY StatementType DEF Argument
  <1>2. at[r] < Len(p) /\ Len(p) \in Nat /\ Follows(p[at[r]], p[at[r] + 1])
    BY <1>1, NextStatement DEF Leaves
  <1> HIDE DEF p
  <1>3. p[at[r] + 1][1] = "load" /\ at[r] + 1 <= Len(p)
    BY <1>1, <1>2 DEF Follows
  <1> QED
    BY <1>3 DEF p

\* A request that is not at a DELETE has no snapshot.
LEMMA NotLocking ==
  ASSUME IInv, NEW r \in Requests, ~At(r, "delete")
  PROVE  locking[r] = FALSE /\ snapshot[r] = {}
  BY DEF IInv, TypeOK, SnapshotInv

\* An open request has not committed and is not the setup.
LEMMA OpenIsUncommitted ==
  ASSUME NEW r \in Requests, status[r] # "ok" PROVE ~Committed(r)
  BY NoNameClash DEF Committed

\* What a request keeps of the data set.
Kept ==
  /\ \A q \in Requests : Deleted(q)' = Deleted(q)
  /\ Of("data", Store)' = Of("data", Store)

\* As long as no request commits, the same transactions are committed.
LEMMA SameCommitted ==
  ASSUME \A q \in Requests : status'[q] = "ok" <=> status[q] = "ok"
  PROVE  \A x : Committed(x)' <=> Committed(x)
  BY DEF Committed

-------------------------------------------------------------------------------
(* The steps keep the invariant, and most of them the data set.            *)

\* A request is accepted.
LEMMA BeginStep ==
  ASSUME IInv, NEW r \in Requests, Begin(r) PROVE IInv' /\ Kept
  <1>1. /\ status[r] = "idle" /\ status' = [status EXCEPT ![r] = "open"]
        /\ op' = op /\ at' = at /\ rows' = rows /\ gone' = gone /\ snapshot' = snapshot
        /\ locking' = locking /\ found' = found /\ context' = context
    BY DEF Begin
  <1>2. TypeOK'
    BY <1>1 DEF IInv, TypeOK
  <1>3. /\ status'[r] = "open"
        /\ \A q \in Requests \ {r} : status'[q] = status[q]
    BY <1>1 DEF IInv, TypeOK
  <1>4. \A x : Committed(x)' <=> Committed(x)
    BY <1>1, <1>3, SameCommitted
  <1>5. OwnersInv'
    BY <1>1, <1>3 DEF IInv, OwnersInv, TypeOK
  <1>6. gone[r] = {} /\ snapshot[r] = {} /\ ~locking[r]
    BY <1>1 DEF IInv, GoneInv, SnapshotInv, At
  <1>7. GoneInv'
    BY <1>1, <1>3, <1>4 DEF IInv, GoneInv
  <1>8. SnapshotInv'
    BY <1>1, <1>3, <1>4, <1>6 DEF IInv, SnapshotInv, At, Argument
  <1>9. Of("data", Store)' = Of("data", Store)
    BY <1>1, <1>4 DEF Of, Store
  <1>10. \A q \in Requests : Own(q)' = Own(q) /\ Deleted(q)' = Deleted(q)
    BY <1>1 DEF Own, Deleted, Of
  <1>11. Own(r) = {} /\ Deleted(r) = {}
    BY <1>1, <1>6, NoNameClash DEF IInv, OwnersInv, Own, Deleted, Of
  <1>12. \A q \in Requests \ {r} : At(q, "load")' <=> At(q, "load")
    BY <1>1, <1>3 DEF At
  <1>13. \A w \in Of("data", rows)' : w.key = BaselineKey
    BY <1>1 DEF IInv, DataInv, Of
  <1>14. ASSUME NEW q \in Requests, status'[q] = "open"
         PROVE  /\ Own(q)' # {} => Deleted(q)' # {}
                /\ \A v, w \in Own(q)' : v = w
                /\ Own(q)' = {} /\ Deleted(q)' # {} => At(q, "load")'
    <2>1. CASE q = r
      BY <1>10, <1>11, <2>1
    <2>2. CASE q # r
      BY <1>3, <1>10, <1>12, <1>14, <2>2 DEF IInv, DataInv
    <2> QED
      BY <2>1, <2>2
  <1>15. \E d : Of("data", Store)' = {d}
    BY <1>9 DEF IInv, DataInv
  <1>16. DataInv'
    BY <1>13, <1>14, <1>15 DEF DataInv
  <1> QED
    BY <1>2, <1>5, <1>7, <1>8, <1>9, <1>10, <1>16 DEF IInv, Kept

\* A statement that inserts rows of other tables than the data set's, or none.
LEMMA InsertStep ==
  ASSUME IInv, NEW r \in Requests, NEW name, At(r, name), name \notin {"delete", "load"},
         NEW new \in SUBSET AllRows, \A w \in new : w.by = r /\ w.table # "data",
         rows' = rows \cup new, Advance(r),
         found' \in [Requests -> Seq(RootCauses)], context' \in [Requests -> SUBSET Keys],
         UNCHANGED <<op, status, gone, snapshot, locking>>
  PROVE  IInv' /\ Kept
  <1>1. /\ status' = status /\ op' = op /\ gone' = gone /\ snapshot' = snapshot
        /\ locking' = locking
        /\ at' = [at EXCEPT ![r] = @ + 1]
    BY DEF Advance
  <1>2. status[r] = "open" /\ ~At(r, "delete") /\ ~At(r, "load")
    BY DEF At
  <1>3. /\ \A q \in Requests \ {r} : at'[q] = at[q]
        /\ at' \in [Requests -> Nat \ {0}]
    BY <1>1 DEF IInv, TypeOK
  <1>4. TypeOK'
    BY <1>1, <1>3 DEF IInv, TypeOK, AllRows
  <1>5. \A x : Committed(x)' <=> Committed(x)
    BY <1>1 DEF Committed
  <1>6. OwnersInv'
    BY <1>1, <1>2 DEF IInv, OwnersInv
  <1>7. GoneInv'
    BY <1>1, <1>5 DEF IInv, GoneInv
  <1>8. locking[r] = FALSE /\ snapshot[r] = {}
    BY <1>2, NotLocking
  <1>9. SnapshotInv'
    <2> SUFFICES ASSUME NEW q \in Requests
                 PROVE  /\ locking'[q] => At(q, "delete")'
                        /\ ~locking'[q] => snapshot'[q] = {}
                        /\ \A w \in snapshot'[q] :
                             w.table = Argument(q)' /\ (w.by = q \/ Committed(w.by)')
      BY DEF SnapshotInv
    <2>1. CASE q = r
      BY <1>1, <1>8, <2>1
    <2>2. CASE q # r
      <3>1. /\ At(q, "delete")' <=> At(q, "delete")
            /\ Argument(q)' = Argument(q)
        BY <1>1, <1>3, <2>2 DEF At, Argument
      <3> QED
        BY <1>1, <1>5, <3>1 DEF IInv, SnapshotInv
    <2> QED
      BY <2>1, <2>2
  <1>10. Of("data", rows)' = Of("data", rows)
    BY DEF Of
  <1>11. \A q \in Requests : Own(q)' = Own(q) /\ Deleted(q)' = Deleted(q)
    BY <1>1, <1>10 DEF Own, Deleted, Of
  <1>12. Of("data", Store)' = Of("data", Store)
    BY <1>5 DEF Of, Store
  <1>13. \A q \in Requests \ {r} : At(q, "load")' <=> At(q, "load")
    BY <1>1, <1>3 DEF At
  <1>14. \A w \in Of("data", rows)' : w.key = BaselineKey
    BY <1>10 DEF IInv, DataInv
  <1>15. ASSUME NEW q \in Requests, status'[q] = "open"
         PROVE  /\ Own(q)' # {} => Deleted(q)' # {}
                /\ \A v, w \in Own(q)' : v = w
                /\ Own(q)' = {} /\ Deleted(q)' # {} => At(q, "load")'
    <2>1. /\ Own(q) # {} => Deleted(q) # {}
          /\ \A v, w \in Own(q) : v = w
          /\ Own(q) = {} /\ Deleted(q) # {} => At(q, "load")
      BY <1>1, <1>15 DEF IInv, DataInv
    <2>2. CASE q = r
      BY <1>2, <1>11, <2>1, <2>2
    <2>3. CASE q # r
      BY <1>11, <1>13, <2>1, <2>3
    <2> QED
      BY <2>2, <2>3
  <1>16. \E d : Of("data", Store)' = {d}
    BY <1>12 DEF IInv, DataInv
  <1>17. DataInv'
    BY <1>14, <1>15, <1>16 DEF DataInv
  <1> QED
    BY <1>4, <1>6, <1>7, <1>9, <1>11, <1>12, <1>17 DEF IInv, Kept

\* A DELETE chooses its rows.
LEMMA StartDeleteStep ==
  ASSUME IInv, NEW r \in Requests, StartDelete(r) PROVE IInv' /\ Kept
  <1>1. /\ status' = status /\ op' = op /\ gone' = gone /\ at' = at /\ rows' = rows
        /\ found' = found /\ context' = context
        /\ snapshot' = [snapshot EXCEPT ![r] = Of(Argument(r), Visible(r))]
        /\ locking' = [locking EXCEPT ![r] = TRUE]
        /\ At(r, "delete")
    BY DEF StartDelete
  <1>2. Of(Argument(r), Visible(r)) \in SUBSET AllRows
    BY DEF IInv, TypeOK, Of, Visible
  <1>3. TypeOK'
    BY <1>1, <1>2 DEF IInv, TypeOK
  <1>4. \A x : Committed(x)' <=> Committed(x)
    BY <1>1 DEF Committed
  <1>5. OwnersInv'
    BY <1>1 DEF IInv, OwnersInv
  <1>6. GoneInv'
    BY <1>1, <1>4 DEF IInv, GoneInv
  <1>7. \A q \in Requests : \A name : At(q, name)' <=> At(q, name)
    BY <1>1 DEF At
  <1>8. \A q \in Requests : Argument(q)' = Argument(q)
    BY <1>1 DEF Argument
  <1>9. SnapshotInv'
    <2> SUFFICES ASSUME NEW q \in Requests
                 PROVE  /\ locking'[q] => At(q, "delete")'
                        /\ ~locking'[q] => snapshot'[q] = {}
                        /\ \A w \in snapshot'[q] :
                             w.table = Argument(q)' /\ (w.by = q \/ Committed(w.by)')
      BY DEF SnapshotInv
    <2>1. CASE q = r
      <3>1. locking'[r] = TRUE /\ snapshot'[r] = Of(Argument(r), Visible(r))
        BY <1>1 DEF IInv, TypeOK
      <3> QED
        BY <1>1, <1>4, <1>7, <1>8, <2>1, <3>1 DEF Of, Visible
    <2>2. CASE q # r
      <3>1. locking'[q] = locking[q] /\ snapshot'[q] = snapshot[q]
        BY <1>1, <2>2 DEF IInv, TypeOK
      <3> QED
        BY <1>4, <1>7, <1>8, <3>1 DEF IInv, SnapshotInv
    <2> QED
      BY <2>1, <2>2
  <1>10. Of("data", Store)' = Of("data", Store) /\ Of("data", rows)' = Of("data", rows)
    BY <1>1, <1>4 DEF Of, Store
  <1>11. \A q \in Requests : Own(q)' = Own(q) /\ Deleted(q)' = Deleted(q)
    BY <1>1 DEF Own, Deleted, Of
  <1>12. DataInv'
    BY <1>1, <1>7, <1>10, <1>11 DEF IInv, DataInv
  <1> QED
    BY <1>3, <1>5, <1>6, <1>9, <1>10, <1>11, <1>12 DEF IInv, Kept

\* A DELETE removes its rows.  What others have committed it only marks, and holds.
LEMMA FinishDeleteStep ==
  ASSUME IInv, NEW r \in Requests, At(r, "delete"), locking[r], WaitsFor(r) = {},
         rows' = {w \in rows : w \in snapshot[r] \cap rows => w.by # r},
         gone' = [gone EXCEPT ![r] = @ \cup {w \in snapshot[r] \cap rows : w.by # r}],
         snapshot' = [snapshot EXCEPT ![r] = {}], locking' = [locking EXCEPT ![r] = FALSE],
         Advance(r), UNCHANGED <<op, status, found, context>>
  PROVE  /\ IInv'
         /\ Of("data", Store)' = Of("data", Store)
         /\ Deleted(r) \subseteq Deleted(r)'
         /\ \A q \in Requests \ {r} : Deleted(q)' = Deleted(q)
  <1> DEFINE doomed == snapshot[r] \cap rows
             others == {w \in doomed : w.by # r}
  <1>1. /\ status' = status /\ op' = op /\ found' = found /\ context' = context
        /\ at' = [at EXCEPT ![r] = @ + 1]
    BY DEF Advance
  <1>2. /\ status[r] = "open"
        /\ at[r] \in Nat \ {0} /\ at'[r] = at[r] + 1
        /\ \A q \in Requests \ {r} : at'[q] = at[q]
    BY <1>1 DEF At, IInv, TypeOK
  <1>3. ~Committed(r)
    BY <1>2, OpenIsUncommitted
  <1>4. \A x : Committed(x)' <=> Committed(x)
    BY <1>1 DEF Committed
  <1>5. /\ gone'[r] = gone[r] \cup others
        /\ \A q \in Requests \ {r} : gone'[q] = gone[q]
    BY DEF IInv, TypeOK
  <1>6. \A w \in others : w \in rows /\ w.by # r /\ Committed(w.by) /\ w.table = Argument(r)
    BY DEF IInv, SnapshotInv
  <1>7. /\ rows' \in SUBSET rows
        /\ \A w \in rows : w.by # r => w \in rows'
        /\ \A w \in rows : w.table # Argument(r) => w \in rows'
    BY DEF IInv, SnapshotInv
  <1>8. \A q \in Requests : gone'[q] \in SUBSET rows'
    <2>1. \A q \in Requests : gone[q] \subseteq rows
      BY DEF IInv, TypeOK
    <2>2. \A q \in Requests : \A w \in gone[q] : w.by # r
      BY <1>3 DEF IInv, GoneInv
    <2> QED
      BY <1>5, <1>6, <1>7, <2>1, <2>2
  <1>9. TypeOK'
    <2>1. gone' \in [Requests -> SUBSET rows']
      <3>1. gone' = [q \in Requests |-> gone'[q]]
        BY DEF IInv, TypeOK
      <3> QED
        BY <1>8, <3>1
    <2>2. rows' \in SUBSET AllRows
      BY <1>7 DEF IInv, TypeOK
    <2>3. snapshot' \in [Requests -> SUBSET AllRows] /\ locking' \in [Requests -> BOOLEAN]
      BY DEF IInv, TypeOK
    <2>4. at' \in [Requests -> Nat \ {0}]
      BY <1>1, <1>2 DEF IInv, TypeOK
    <2> QED
      BY <1>1, <2>1, <2>2, <2>3, <2>4 DEF IInv, TypeOK
  <1>10. OwnersInv'
    BY <1>1, <1>7 DEF IInv, OwnersInv
  <1>11. \A q \in Requests \ {r} : others \cap gone[q] = {}
    <2> SUFFICES ASSUME NEW q \in Requests \ {r}, NEW w \in others, w \in gone[q] PROVE FALSE
      OBVIOUS
    <2>1. status[q] = "open"
      BY DEF IInv, GoneInv
    <2>2. q \in Uncommitted(r)
      BY <2>1, OpenIsUncommitted DEF Uncommitted
    <2>3. q \in DeleteWaitsFor(r)
      <3>1. w \in snapshot[r] \cap rows /\ w \in gone[q]
        OBVIOUS
      <3>2. \E v \in snapshot[r] \cap rows :
              v \in gone[q] \/ \E c \in Children(v) : c.by = q \/ c \in gone[q]
        BY <3>1
      <3> QED
        BY <2>2, <3>2 DEF DeleteWaitsFor
    <2>4. ~At(r, "load") /\ ~At(r, "create") /\ ~At(r, "run") /\ ~At(r, "tool")
      BY DEF At
    <2>5. WaitsFor(r) = DeleteWaitsFor(r)
      BY <2>4 DEF WaitsFor
    <2> QED
      BY <2>3, <2>5
  <1>12. GoneInv'
    <2> SUFFICES ASSUME NEW q \in Requests
                 PROVE  /\ gone'[q] # {} => status'[q] = "open"
                        /\ \A w \in gone'[q] : w.by # q /\ Committed(w.by)'
                        /\ \A p \in Requests \ {q} : gone'[q] \cap gone'[p] = {}
      BY DEF GoneInv
    <2>1. gone'[q] # {} => status'[q] = "open"
      BY <1>1, <1>2, <1>5 DEF IInv, GoneInv
    <2>2. \A w \in gone'[q] : w.by # q /\ Committed(w.by)'
      BY <1>4, <1>5, <1>6 DEF IInv, GoneInv
    <2>3. ASSUME NEW p \in Requests \ {q} PROVE gone'[q] \cap gone'[p] = {}
      <3>1. gone[q] \cap gone[p] = {}
        BY DEF IInv, GoneInv
      <3> QED
        BY <1>5, <1>11, <3>1
    <2> QED
      BY <2>1, <2>2, <2>3
  <1>13. SnapshotInv'
    <2> SUFFICES ASSUME NEW q \in Requests
                 PROVE  /\ locking'[q] => At(q, "delete")'
                        /\ ~locking'[q] => snapshot'[q] = {}
                        /\ \A w \in snapshot'[q] :
                             w.table = Argument(q)' /\ (w.by = q \/ Committed(w.by)')
      BY DEF SnapshotInv
    <2>1. CASE q = r
      <3>1. locking'[r] = FALSE /\ snapshot'[r] = {}
        BY DEF IInv, TypeOK
      <3> QED
        BY <2>1, <3>1
    <2>2. CASE q # r
      <3>1. locking'[q] = locking[q] /\ snapshot'[q] = snapshot[q]
        BY <2>2 DEF IInv, TypeOK
      <3>2. (At(q, "delete")' <=> At(q, "delete")) /\ Argument(q)' = Argument(q)
        BY <1>1, <1>2, <2>2 DEF At, Argument
      <3> QED
        BY <1>4, <3>1, <3>2 DEF IInv, SnapshotInv
    <2> QED
      BY <2>1, <2>2
  <1>14. Of("data", Store)' = Of("data", Store)
    <2>1. Store' = Store
      BY <1>3, <1>4, <1>7 DEF Store
    <2> QED
      BY <2>1 DEF Of
  <1>15. /\ Deleted(r) \subseteq Deleted(r)'
         /\ \A q \in Requests \ {r} : Deleted(q)' = Deleted(q) /\ Own(q)' = Own(q)
         /\ Own(r)' \subseteq Own(r)
    BY <1>5, <1>7 DEF Deleted, Own, Of
  <1>16. Argument(r) # "data" => Own(r)' = Own(r) /\ Deleted(r)' = Deleted(r)
    BY <1>5, <1>6, <1>7 DEF Deleted, Own, Of
  <1>17. Argument(r) = "data" => At(r, "load")'
    BY <1>1, <1>2, WipeThenLoad DEF At, IInv
  <1>18. ~At(r, "load")
    BY DEF At
  <1>19. DataInv'
    <2>1. \A w \in Of("data", rows)' : w.key = BaselineKey
      BY <1>7 DEF IInv, DataInv, Of
    <2>2. ASSUME NEW q \in Requests, status'[q] = "open"
          PROVE  /\ Own(q)' # {} => Deleted(q)' # {}
                 /\ \A v, w \in Own(q)' : v = w
                 /\ Own(q)' = {} /\ Deleted(q)' # {} => At(q, "load")'
      <3>1. /\ Own(q) # {} => Deleted(q) # {}
            /\ \A v, w \in Own(q) : v = w
            /\ Own(q) = {} /\ Deleted(q) # {} => At(q, "load")
        BY <1>1, <2>2 DEF IInv, DataInv
      <3>2. CASE q = r
        BY <1>15, <1>16, <1>17, <1>18, <3>1, <3>2
      <3>3. CASE q # r
        <4>1. At(q, "load")' <=> At(q, "load")
          BY <1>1, <1>2, <3>3 DEF At
        <4> QED
          BY <1>15, <3>1, <3>3, <4>1
      <3> QED
        BY <3>2, <3>3
    <2>3. \E d : Of("data", Store)' = {d}
      BY <1>14 DEF IInv, DataInv
    <2> QED
      BY <2>1, <2>2, <2>3 DEF DataInv
  <1> QED
    BY <1>9, <1>10, <1>12, <1>13, <1>14, <1>15, <1>19 DEF IInv

\* A new data set, where no other is left.
LEMMA LoadStep ==
  ASSUME IInv, NEW r \in Requests, At(r, "load"), Rivals(r, "data", BaselineKey) = {},
         rows' = rows \cup {DataRow(r, Argument(r))}, found' = [found EXCEPT ![r] = <<>>],
         Advance(r), UNCHANGED <<op, status, gone, snapshot, locking, context>>
  PROVE  IInv' /\ Kept
  <1> DEFINE new == DataRow(r, Argument(r))
  <1>1. /\ status' = status /\ op' = op /\ gone' = gone /\ snapshot' = snapshot
        /\ locking' = locking /\ context' = context
        /\ at' = [at EXCEPT ![r] = @ + 1]
    BY DEF Advance
  <1>2. /\ status[r] = "open" /\ ~At(r, "delete") /\ ~Committed(r)
    BY OpenIsUncommitted DEF At
  <1>3. /\ \A q \in Requests \ {r} : at'[q] = at[q]
        /\ at' \in [Requests -> Nat \ {0}]
    BY <1>1 DEF IInv, TypeOK
  <1>4. new \in AllRows /\ new.table = "data" /\ new.by = r /\ new.key = BaselineKey
    BY StatementType, KeysType, NewRows DEF IInv
  <1> HIDE DEF new
  <1>5. rows' = rows \cup {new}
    BY DEF new
  <1>6. TypeOK'
    <2>1. found' \in [Requests -> Seq(RootCauses)]
      <3>1. <<>> \in Seq(RootCauses)
        OBVIOUS
      <3> QED
        BY <3>1 DEF IInv, TypeOK
    <2> QED
      BY <1>1, <1>3, <1>4, <1>5, <2>1 DEF IInv, TypeOK
  <1>7. \A x : Committed(x)' <=> Committed(x)
    BY <1>1 DEF Committed
  <1>8. OwnersInv'
    BY <1>1, <1>2, <1>4, <1>5 DEF IInv, OwnersInv
  <1>9. GoneInv'
    BY <1>1, <1>7 DEF IInv, GoneInv
  <1>10. locking[r] = FALSE /\ snapshot[r] = {}
    BY <1>2, NotLocking
  <1>11. SnapshotInv'
    <2> SUFFICES ASSUME NEW q \in Requests
                 PROVE  /\ locking'[q] => At(q, "delete")'
                        /\ ~locking'[q] => snapshot'[q] = {}
                        /\ \A w \in snapshot'[q] :
                             w.table = Argument(q)' /\ (w.by = q \/ Committed(w.by)')
      BY DEF SnapshotInv
    <2>1. CASE q = r
      BY <1>1, <1>10, <2>1
    <2>2. CASE q # r
      <3>1. /\ At(q, "delete")' <=> At(q, "delete")
            /\ Argument(q)' = Argument(q)
        BY <1>1, <1>3, <2>2 DEF At, Argument
      <3> QED
        BY <1>1, <1>7, <3>1 DEF IInv, SnapshotInv
    <2> QED
      BY <2>1, <2>2
  <1>12. Of("data", Store)' = Of("data", Store)
    BY <1>2, <1>4, <1>5, <1>7 DEF Of, Store
  <1>13. /\ \A q \in Requests : Deleted(q)' = Deleted(q)
         /\ \A q \in Requests \ {r} : Own(q)' = Own(q)
         /\ Own(r)' = Own(r) \cup {new}
    BY <1>1, <1>4, <1>5 DEF Own, Deleted, Of
  <1>14. Of("data", rows) \subseteq gone[r]
    BY DEF Rivals, IInv, DataInv, Of
  <1>15. Own(r) = {}
    BY <1>14 DEF Own, IInv, GoneInv
  <1>16. Deleted(r) # {}
    <2>1. PICK d : Of("data", Store) = {d}
      BY DEF IInv, DataInv
    <2>2. d \in Of("data", rows)
      BY <2>1 DEF Of, Store
    <2> QED
      BY <1>14, <2>2 DEF Deleted, Of
  <1>17. DataInv'
    <2>1. \A w \in Of("data", rows)' : w.key = BaselineKey
      BY <1>4, <1>5 DEF IInv, DataInv, Of
    <2>2. ASSUME NEW q \in Requests, status'[q] = "open"
          PROVE  /\ Own(q)' # {} => Deleted(q)' # {}
                 /\ \A v, w \in Own(q)' : v = w
                 /\ Own(q)' = {} /\ Deleted(q)' # {} => At(q, "load")'
      <3>1. CASE q = r
        BY <1>13, <1>15, <1>16, <3>1
      <3>2. CASE q # r
        <4>1. At(q, "load")' <=> At(q, "load")
          BY <1>1, <1>3, <3>2 DEF At
        <4> QED
          BY <1>1, <1>13, <2>2, <3>2, <4>1 DEF IInv, DataInv
      <3> QED
        BY <3>1, <3>2
    <2>3. \E d : Of("data", Store)' = {d}
      BY <1>12 DEF IInv, DataInv
    <2> QED
      BY <2>1, <2>2, <2>3 DEF DataInv
  <1> QED
    BY <1>6, <1>8, <1>9, <1>11, <1>12, <1>13, <1>17 DEF IInv, Kept

\* A request that fails leaves nothing, and gives back what it had deleted.
LEMMA EndStep ==
  ASSUME IInv, NEW r \in Requests, status[r] = "open", NEW how \in {"missing", "error"},
         End(r, how)
  PROVE  /\ IInv'
         /\ Of("data", Store)' = Of("data", Store)
         /\ Deleted(r)' = {}
         /\ \A q \in Requests \ {r} : Deleted(q)' = Deleted(q)
  <1>1. /\ status' = [status EXCEPT ![r] = how]
        /\ rows' = {w \in rows : w.by # r}
        /\ gone' = [gone EXCEPT ![r] = {}]
        /\ snapshot' = [snapshot EXCEPT ![r] = {}]
        /\ locking' = [locking EXCEPT ![r] = FALSE]
        /\ op' = op /\ at' = at /\ found' = found /\ context' = context
    BY DEF End
  <1>2. /\ status'[r] = how
        /\ gone'[r] = {} /\ snapshot'[r] = {} /\ locking'[r] = FALSE
        /\ \A q \in Requests \ {r} : /\ status'[q] = status[q] /\ gone'[q] = gone[q]
                                     /\ snapshot'[q] = snapshot[q] /\ locking'[q] = locking[q]
    BY <1>1 DEF IInv, TypeOK
  <1>3. ~Committed(r)
    BY OpenIsUncommitted
  <1>4. \A x : Committed(x)' <=> Committed(x)
    BY <1>1, <1>2, SameCommitted
  <1>5. \A q \in Requests : gone'[q] \in SUBSET rows'
    <2>1. \A q \in Requests \ {r} : \A w \in gone[q] : w \in rows /\ w.by # r
      BY <1>3 DEF IInv, TypeOK, GoneInv
    <2> QED
      BY <1>1, <1>2, <2>1
  <1>6. TypeOK'
    <2>1. gone' \in [Requests -> SUBSET rows']
      <3>1. gone' = [q \in Requests |-> gone'[q]]
        BY <1>1 DEF IInv, TypeOK
      <3> QED
        BY <1>5, <3>1
    <2>2. /\ status' \in [Requests -> {"idle", "open"} \cup Ended]
          /\ rows' \in SUBSET AllRows
          /\ snapshot' \in [Requests -> SUBSET AllRows] /\ locking' \in [Requests -> BOOLEAN]
      BY <1>1 DEF IInv, TypeOK, Ended
    <2> QED
      BY <1>1, <2>1, <2>2 DEF IInv, TypeOK
  <1>7. OwnersInv'
    BY <1>1, <1>2 DEF IInv, OwnersInv, TypeOK, AllRows
  <1>8. GoneInv'
    <2> SUFFICES ASSUME NEW q \in Requests
                 PROVE  /\ gone'[q] # {} => status'[q] = "open"
                        /\ \A w \in gone'[q] : w.by # q /\ Committed(w.by)'
                        /\ \A p \in Requests \ {q} : gone'[q] \cap gone'[p] = {}
      BY DEF GoneInv
    <2>1. gone'[q] = {} \/ (q # r /\ gone'[q] = gone[q])
      BY <1>2
    <2>2. gone'[q] # {} => status'[q] = "open"
      BY <1>2, <2>1 DEF IInv, GoneInv
    <2>3. \A w \in gone'[q] : w.by # q /\ Committed(w.by)'
      BY <1>4, <2>1 DEF IInv, GoneInv
    <2>4. ASSUME NEW p \in Requests \ {q} PROVE gone'[q] \cap gone'[p] = {}
      <3>1. gone[q] \cap gone[p] = {}
        BY DEF IInv, GoneInv
      <3>2. gone'[p] = {} \/ gone'[p] = gone[p]
        BY <1>2
      <3> QED
        BY <2>1, <3>1, <3>2
    <2> QED
      BY <2>2, <2>3, <2>4
  <1>9. \A q \in Requests \ {r} : /\ \A name : At(q, name)' <=> At(q, name)
                                  /\ Argument(q)' = Argument(q)
    BY <1>1, <1>2 DEF At, Argument
  <1>10. SnapshotInv'
    <2> SUFFICES ASSUME NEW q \in Requests
                 PROVE  /\ locking'[q] => At(q, "delete")'
                        /\ ~locking'[q] => snapshot'[q] = {}
                        /\ \A w \in snapshot'[q] :
                             w.table = Argument(q)' /\ (w.by = q \/ Committed(w.by)')
      BY DEF SnapshotInv
    <2>1. CASE q = r
      BY <1>2, <2>1
    <2>2. CASE q # r
      BY <1>2, <1>4, <1>9, <2>2 DEF IInv, SnapshotInv
    <2> QED
      BY <2>1, <2>2
  <1>11. Of("data", Store)' = Of("data", Store)
    <2>1. Store' = Store
      BY <1>1, <1>3, <1>4 DEF Store
    <2> QED
      BY <2>1 DEF Of
  <1>12. /\ Deleted(r)' = {}
         /\ \A q \in Requests \ {r} : Deleted(q)' = Deleted(q) /\ Own(q)' = Own(q)
    BY <1>1, <1>2 DEF Deleted, Own, Of
  <1>13. DataInv'
    <2>1. \A w \in Of("data", rows)' : w.key = BaselineKey
      BY <1>1 DEF IInv, DataInv, Of
    <2>2. ASSUME NEW q \in Requests, status'[q] = "open"
          PROVE  /\ Own(q)' # {} => Deleted(q)' # {}
                 /\ \A v, w \in Own(q)' : v = w
                 /\ Own(q)' = {} /\ Deleted(q)' # {} => At(q, "load")'
      <3>1. q # r
        BY <1>2, <2>2
      <3>2. status[q] = "open"
        BY <1>2, <2>2, <3>1
      <3>3. /\ Own(q) # {} => Deleted(q) # {}
            /\ \A v, w \in Own(q) : v = w
            /\ Own(q) = {} /\ Deleted(q) # {} => At(q, "load")
        BY <3>2 DEF IInv, DataInv
      <3> QED
        BY <1>9, <1>12, <3>1, <3>3
    <2>3. \E d : Of("data", Store)' = {d}
      BY <1>11 DEF IInv, DataInv
    <2> QED
      BY <2>1, <2>2, <2>3 DEF DataInv
  <1> QED
    BY <1>6, <1>7, <1>8, <1>10, <1>11, <1>12, <1>13 DEF IInv

\* A commit publishes the data set of the request, if it has one, in place of the old.
LEMMA CommitStep ==
  ASSUME IInv, NEW r \in Requests, Commit(r)
  PROVE  /\ IInv'
         /\ Deleted(r)' = {}
         /\ \A q \in Requests \ {r} : Deleted(q)' = Deleted(q)
         /\ Deleted(r) = {} => Of("data", Store)' = Of("data", Store)
         /\ Deleted(r) # {} => \E d : Of("data", Store)' = {d} /\ d.by = r
  <1>1. /\ status[r] = "open" /\ at[r] > Len(Program[op[r]])
        /\ status' = [status EXCEPT ![r] = "ok"]
        /\ rows' = rows \ gone[r]
        /\ gone' = [gone EXCEPT ![r] = {}]
        /\ op' = op /\ at' = at /\ snapshot' = snapshot /\ locking' = locking
        /\ found' = found /\ context' = context
    BY DEF Commit
  <1>2. /\ status'[r] = "ok" /\ gone'[r] = {}
        /\ \A q \in Requests \ {r} : status'[q] = status[q] /\ gone'[q] = gone[q]
    BY <1>1 DEF IInv, TypeOK
  <1>3. ~Committed(r) /\ Committed(r)'
    BY <1>1, <1>2, OpenIsUncommitted DEF Committed
  <1>4. \A x : Committed(x)' <=> Committed(x) \/ x = r
    BY <1>2 DEF Committed
  <1>5. \A name : ~At(r, name)
    <2>1. op[r] \in Operations /\ at[r] \in Nat
      BY DEF IInv, TypeOK
    <2>2. Len(Program[op[r]]) \in Nat
      BY <2>1, ProgramIsProgram DEF Programs
    <2> QED
      BY <1>1, <2>1, <2>2 DEF At
  <1>6. locking[r] = FALSE /\ snapshot[r] = {}
    BY <1>5, NotLocking
  <1>7. \A q \in Requests : gone'[q] \in SUBSET rows'
    <2>1. \A q \in Requests \ {r} : gone[q] \subseteq rows /\ gone[q] \cap gone[r] = {}
      BY DEF IInv, TypeOK, GoneInv
    <2> QED
      BY <1>1, <1>2, <2>1
  <1>8. TypeOK'
    <2>1. gone' \in [Requests -> SUBSET rows']
      <3>1. gone' = [q \in Requests |-> gone'[q]]
        BY <1>1 DEF IInv, TypeOK
      <3> QED
        BY <1>7, <3>1
    <2>2. /\ status' \in [Requests -> {"idle", "open"} \cup Ended]
          /\ rows' \in SUBSET AllRows
      BY <1>1 DEF IInv, TypeOK, Ended
    <2> QED
      BY <1>1, <2>1, <2>2 DEF IInv, TypeOK
  <1>9. OwnersInv'
    <2> SUFFICES ASSUME NEW w \in rows' PROVE w.by = Setup \/ status'[w.by] \in {"open", "ok"}
      BY DEF OwnersInv
    <2>1. w \in rows /\ w.by \in Requests \cup {Setup}
      BY <1>1 DEF IInv, TypeOK, AllRows
    <2>2. w.by = Setup \/ status[w.by] \in {"open", "ok"}
      BY <2>1 DEF IInv, OwnersInv
    <2> QED
      BY <1>2, <2>1, <2>2
  <1>10. GoneInv'
    <2> SUFFICES ASSUME NEW q \in Requests
                 PROVE  /\ gone'[q] # {} => status'[q] = "open"
                        /\ \A w \in gone'[q] : w.by # q /\ Committed(w.by)'
                        /\ \A p \in Requests \ {q} : gone'[q] \cap gone'[p] = {}
      BY DEF GoneInv
    <2>1. gone'[q] = {} \/ (q # r /\ gone'[q] = gone[q])
      BY <1>2
    <2>2. gone'[q] # {} => status'[q] = "open"
      BY <1>2, <2>1 DEF IInv, GoneInv
    <2>3. \A w \in gone'[q] : w.by # q /\ Committed(w.by)'
      BY <1>4, <2>1 DEF IInv, GoneInv
    <2>4. ASSUME NEW p \in Requests \ {q} PROVE gone'[q] \cap gone'[p] = {}
      <3>1. gone[q] \cap gone[p] = {}
        BY DEF IInv, GoneInv
      <3>2. gone'[p] = {} \/ gone'[p] = gone[p]
        BY <1>2
      <3> QED
        BY <2>1, <3>1, <3>2
    <2> QED
      BY <2>2, <2>3, <2>4
  <1>11. \A q \in Requests \ {r} : /\ \A name : At(q, name)' <=> At(q, name)
                                   /\ Argument(q)' = Argument(q)
    BY <1>1, <1>2 DEF At, Argument
  <1>12. SnapshotInv'
    <2> SUFFICES ASSUME NEW q \in Requests
                 PROVE  /\ locking'[q] => At(q, "delete")'
                        /\ ~locking'[q] => snapshot'[q] = {}
                        /\ \A w \in snapshot'[q] :
                             w.table = Argument(q)' /\ (w.by = q \/ Committed(w.by)')
      BY DEF SnapshotInv
    <2>1. CASE q = r
      BY <1>1, <1>6, <2>1
    <2>2. CASE q # r
      BY <1>1, <1>4, <1>11, <2>2 DEF IInv, SnapshotInv
    <2> QED
      BY <2>1, <2>2
  <1>13. PICK d : Of("data", Store) = {d}
    BY DEF IInv, DataInv
  <1>14. Of("data", Store)' = (Of("data", Store) \cup Own(r)) \ gone[r]
    <2>1. Store' = {w \in rows \ gone[r] : Committed(w.by) \/ w.by = r}
      BY <1>1, <1>4 DEF Store
    <2> QED
      BY <2>1 DEF Of, Store, Own
  <1>15. /\ Deleted(r)' = {}
         /\ \A q \in Requests \ {r} : Deleted(q)' = Deleted(q)
    BY <1>1, <1>2 DEF Deleted, Of
  <1>16. Deleted(r) \subseteq {d}
    <2>1. Deleted(r) \subseteq Of("data", Store)
      BY DEF Deleted, Of, Store, IInv, GoneInv, TypeOK
    <2> QED
      BY <1>13, <2>1
  <1>17. /\ Own(r) # {} => Deleted(r) # {}
         /\ \A v, w \in Own(r) : v = w
         /\ Own(r) = {} => Deleted(r) = {}
    BY <1>1, <1>5 DEF IInv, DataInv
  <1>18. ASSUME Deleted(r) = {} PROVE Of("data", Store)' = {d}
    <2>1. Own(r) = {} /\ d \notin gone[r]
      BY <1>13, <1>17, <1>18 DEF Deleted, Of
    <2> QED
      BY <1>13, <1>14, <2>1
  <1>19. ASSUME Deleted(r) # {} PROVE \E o : Of("data", Store)' = {o} /\ o.by = r
    <2>1. PICK o \in Own(r) : Own(r) = {o}
      BY <1>17, <1>19
    <2>2. o.by = r /\ o \notin gone[r]
      BY <2>1 DEF Own, IInv, GoneInv
    <2>3. d \in gone[r]
      BY <1>16, <1>19 DEF Deleted, Of
    <2> QED
      BY <1>13, <1>14, <2>1, <2>2, <2>3
  <1>20. DataInv'
    <2>1. \A w \in Of("data", rows)' : w.key = BaselineKey
      BY <1>1 DEF IInv, DataInv, Of
    <2>2. ASSUME NEW q \in Requests, status'[q] = "open"
          PROVE  /\ Own(q)' # {} => Deleted(q)' # {}
                 /\ \A v, w \in Own(q)' : v = w
                 /\ Own(q)' = {} /\ Deleted(q)' # {} => At(q, "load")'
      <3>1. q # r /\ status[q] = "open"
        BY <1>2, <2>2
      <3>2. /\ Own(q) # {} => Deleted(q) # {}
            /\ \A v, w \in Own(q) : v = w
            /\ Own(q) = {} /\ Deleted(q) # {} => At(q, "load")
        BY <3>1 DEF IInv, DataInv
      <3>3. Own(q)' = Own(q)
        <4>1. ~Committed(q)
          BY <3>1, OpenIsUncommitted
        <4>2. \A w \in gone[r] : w.by # q
          BY <4>1 DEF IInv, GoneInv
        <4> QED
          BY <1>1, <4>2 DEF Own, Of
      <3> QED
        BY <1>11, <1>15, <3>1, <3>2, <3>3
    <2>3. \E e : Of("data", Store)' = {e}
      BY <1>18, <1>19
    <2> QED
      BY <2>1, <2>2, <2>3 DEF DataInv
  <1> QED
    BY <1>8, <1>9, <1>10, <1>12, <1>13, <1>15, <1>18, <1>19, <1>20 DEF IInv

-------------------------------------------------------------------------------
(* The statements.                                                         *)

\* A request that is rolled back gives back the data set.
Freed(r) ==
  /\ \A q \in Requests \ {r} : Deleted(q)' = Deleted(q)
  /\ Deleted(r)' = {}
  /\ Of("data", Store)' = Of("data", Store)

\* A wipe deletes the data set, if it has not yet.
Taken(r) ==
  /\ \A q \in Requests \ {r} : Deleted(q)' = Deleted(q)
  /\ Deleted(r) \subseteq Deleted(r)'
  /\ Of("data", Store)' = Of("data", Store)

\* A commit replaces the data set, if the request has deleted it.
Published(r) ==
  /\ \A q \in Requests \ {r} : Deleted(q)' = Deleted(q)
  /\ Deleted(r)' = {}
  /\ Deleted(r) = {} => Of("data", Store)' = Of("data", Store)
  /\ Deleted(r) # {} => \E d : Of("data", Store)' = {d} /\ d.by = r

\* A request that fails gives back the data set.
LEMMA AbortStep ==
  ASSUME IInv, NEW r \in Requests, status[r] = "open", Abort(r) \/ End(r, "missing")
  PROVE  IInv' /\ Freed(r)
  BY EndStep DEF Abort, Freed

\* The rows of an incident are no data set.
LEMMA ArtifactRows ==
  ASSUME NEW r \in Requests, NEW incident \in Keys, NEW alerts \in SUBSET Nat
  PROVE  \A w \in Artifacts(r, incident, alerts) \cup {TruthRow(r, incident)} :
           w \in AllRows /\ w.by = r /\ w.table # "data"
  <1>1. {<<r, k>> : k \in alerts} \in SUBSET Keys
    BY KeysType
  <1>2. /\ 0 \in Nat /\ {} \in SUBSET Keys /\ Clean \in Contents
        /\ r \in Requests \cup {Setup}
    BY KeysType
  <1>3. \A k \in alerts : /\ AlertRow(r, k) \in AllRows /\ AlertRow(r, k).by = r
                          /\ AlertRow(r, k).table = "alerts"
                          /\ EvidenceRow(r, k, incident) \in AllRows
                          /\ EvidenceRow(r, k, incident).by = r
                          /\ EvidenceRow(r, k, incident).table = "evidence"
    <2> TAKE k \in alerts
    <2>1. k \in Nat
      OBVIOUS
    <2> QED
      BY <1>2, <2>1, NewRows
  <1>4. /\ IncidentRow(r, incident, {<<r, k>> : k \in alerts}) \in AllRows
        /\ IncidentRow(r, incident, {<<r, k>> : k \in alerts}).by = r
        /\ IncidentRow(r, incident, {<<r, k>> : k \in alerts}).table = "incidents"
    BY <1>1, <1>2, NewRows
  <1>5. /\ TruthRow(r, incident) \in AllRows /\ TruthRow(r, incident).by = r
        /\ TruthRow(r, incident).table = "ground_truth"
    BY <1>2, NewRows
  <1> QED
    BY <1>3, <1>4, <1>5 DEF Artifacts

\* A set of natural numbers has a first element.
LEMMA FirstIsOneOf ==
  ASSUME NEW alerts \in SUBSET Nat, alerts # {} PROVE FirstOf(alerts) \in alerts
  <1>1. \E k \in alerts : \A j \in alerts : k <= j
    BY LeastOf
  <1> QED
    BY <1>1 DEF FirstOf

\* The detectors read.
LEMMA RunDetectorStep ==
  ASSUME IInv, NEW r \in Requests, RunDetector(r) PROVE IInv' /\ Kept
  <1>1. PICK data \in Of("data", Visible(r)) :
          found' = [found EXCEPT ![r] = @ \o Findings[data.content][Argument(r)]]
    BY DEF RunDetector
  <1>2. At(r, "detector") /\ Argument(r) \in {1, 2}
    BY StatementType DEF RunDetector, IInv, Detectors
  <1>3. data.content \in Manifests \cup {Clean}
    BY <1>1 DEF Of, Visible, IInv, TypeOK, AllRows, Contents
  <1>4. Findings[data.content][Argument(r)] \in Seq(RootCauses)
    BY <1>2, <1>3, FindingsAssumption
  <1>5. found[r] \o Findings[data.content][Argument(r)] \in Seq(RootCauses)
    <2>1. found[r] \in Seq(RootCauses)
      BY DEF IInv, TypeOK
    <2> QED
      BY <1>4, <2>1, ConcatProperties
  <1>6. found' \in [Requests -> Seq(RootCauses)]
    BY <1>1, <1>5 DEF IInv, TypeOK
  <1>7. context' \in [Requests -> SUBSET Keys]
    BY DEF RunDetector, IInv, TypeOK
  <1>8. rows' = rows \cup {} /\ Advance(r) /\ UNCHANGED <<op, status, gone, snapshot, locking>>
    BY DEF RunDetector
  <1>9. {} \in SUBSET AllRows /\ \A w \in {} : w.by = r /\ w.table # "data"
    OBVIOUS
  <1> QED
    BY <1>2, <1>6, <1>7, <1>8, <1>9, InsertStep

\* An investigation is given its context.
LEMMA BuildContextStep ==
  ASSUME IInv, NEW r \in Requests, BuildContext(r) PROVE IInv' /\ Kept
  <1>1. At(r, "context")
    BY DEF BuildContext
  <1>2. found' \in [Requests -> Seq(RootCauses)]
    BY DEF BuildContext, IInv, TypeOK
  <1>3. context' \in [Requests -> SUBSET Keys]
    <2>1. {w.key : w \in {v \in Visible(r) : IsAlertEvidence(v) /\ v.parent = Argument(r)}}
            \in SUBSET Keys
      BY DEF Visible, IInv, TypeOK, AllRows
    <2> QED
      BY <2>1 DEF BuildContext, IInv, TypeOK
  <1>4. rows' = rows \cup {} /\ Advance(r) /\ UNCHANGED <<op, status, gone, snapshot, locking>>
    BY DEF BuildContext
  <1>5. {} \in SUBSET AllRows /\ \A w \in {} : w.by = r /\ w.table # "data"
    OBVIOUS
  <1> QED
    BY <1>1, <1>2, <1>3, <1>4, <1>5, InsertStep

\* The incident is looked up.
LEMMA FindStep ==
  ASSUME IInv, NEW r \in Requests, Find(r) PROVE IInv' /\ (Kept \/ Freed(r))
  <1>1. At(r, "find") /\ status[r] = "open"
    BY DEF Find, At
  <1>2. CASE End(r, "missing")
    BY <1>1, <1>2, AbortStep
  <1>3. CASE Advance(r) /\ UNCHANGED <<op, status, rows, gone, snapshot, locking, found, context>>
    <2>1. found' \in [Requests -> Seq(RootCauses)] /\ context' \in [Requests -> SUBSET Keys]
      BY <1>3 DEF IInv, TypeOK
    <2>2. rows' = rows \cup {} /\ UNCHANGED <<op, status, gone, snapshot, locking>>
      BY <1>3
    <2>3. {} \in SUBSET AllRows /\ \A w \in {} : w.by = r /\ w.table # "data"
      OBVIOUS
    <2> QED
      BY <1>1, <1>3, <2>1, <2>2, <2>3, InsertStep
  <1> QED
    BY <1>2, <1>3 DEF Find

\* An INSERT of rows of other tables.
LEMMA InsertOnlyStep ==
  ASSUME IInv, NEW r \in Requests, NEW name, At(r, name), name \notin {"delete", "load"}, NEW new,
         \A w \in new : w \in AllRows /\ w.by = r /\ w.table # "data",
         Insert(r, new)
  PROVE  IInv' /\ Kept
  <1>1. found' \in [Requests -> Seq(RootCauses)] /\ context' \in [Requests -> SUBSET Keys]
    BY DEF Insert, IInv, TypeOK
  <1>2. rows' = rows \cup new /\ Advance(r) /\ UNCHANGED <<op, status, gone, snapshot, locking>>
    BY DEF Insert
  <1>3. new \in SUBSET AllRows
    OBVIOUS
  <1> QED
    BY <1>1, <1>2, <1>3, InsertStep

\* The alerts of a request are numbered.
LEMMA AlertsAreNumbered ==
  ASSUME IInv, NEW r \in Requests PROVE AlertsOf(r) \in SUBSET Nat
  <1>1. found[r] \in Seq(RootCauses)
    BY DEF IInv, TypeOK
  <1> QED
    BY <1>1 DEF AlertsOf

\* The incident of a manifest.
LEMMA CreateIncidentStep ==
  ASSUME IInv, NEW r \in Requests, CreateIncident(r) PROVE IInv' /\ (Kept \/ Freed(r))
  <1>1. At(r, "create") /\ status[r] = "open" /\ Argument(r) \in Keys
    BY StatementType DEF CreateIncident, IInv
  <1>2. CASE Abort(r)
    BY <1>1, <1>2, AbortStep
  <1>3. CASE Insert(r, Artifacts(r, Argument(r), AlertsOf(r)) \cup {TruthRow(r, Argument(r))})
    <2>1. \A w \in Artifacts(r, Argument(r), AlertsOf(r)) \cup {TruthRow(r, Argument(r))} :
            w \in AllRows /\ w.by = r /\ w.table # "data"
      BY <1>1, AlertsAreNumbered, ArtifactRows
    <2> QED
      BY <1>1, <1>3, <2>1, InsertOnlyStep
  <1> QED
    BY <1>2, <1>3 DEF CreateIncident

\* No group of alerts is empty.
LEMMA GroupsAreNotEmpty ==
  ASSUME IInv, NEW r \in Requests
  PROVE  \A g \in Groups(r) : g \in SUBSET AlertsOf(r) /\ g # {}
  <1>1. \A cause : Group(r, cause) \in SUBSET AlertsOf(r)
    BY DEF Group
  <1>2. \A k \in AlertsOf(r) : k \in Group(r, found[r][k])
    BY DEF Group
  <1>3. \A cause \in {found[r][k] : k \in AlertsOf(r)} : Group(r, cause) # {}
    BY <1>2
  <1>4. NamedCauses(r) \subseteq {found[r][k] : k \in AlertsOf(r)}
    BY DEF NamedCauses
  <1> QED
    BY <1>1, <1>3, <1>4 DEF Groups

\* The incidents of a detection.
LEMMA GroupAlertsStep ==
  ASSUME IInv, NEW r \in Requests, GroupAlerts(r) PROVE IInv' /\ Kept
  <1> DEFINE new == UNION {Artifacts(r, <<r, FirstOf(g)>>, g) : g \in Groups(r)}
  <1>1. At(r, "group") /\ Insert(r, new)
    BY DEF GroupAlerts
  <1>2. ASSUME NEW g \in Groups(r)
        PROVE  \A w \in Artifacts(r, <<r, FirstOf(g)>>, g) :
                 w \in AllRows /\ w.by = r /\ w.table # "data"
    <2>1. g \in SUBSET Nat /\ g # {}
      BY AlertsAreNumbered, GroupsAreNotEmpty
    <2>2. FirstOf(g) \in Nat
      BY <2>1, FirstIsOneOf
    <2>3. <<r, FirstOf(g)>> \in Keys
      BY <2>2, KeysType
    <2> QED
      BY <2>1, <2>3, ArtifactRows
  <1>3. \A w \in new : w \in AllRows /\ w.by = r /\ w.table # "data"
    BY <1>2
  <1> HIDE DEF new
  <1> QED
    BY <1>1, <1>3, InsertOnlyStep

\* An investigation writes what refers to its incident.
LEMMA InsertChildStep ==
  ASSUME IInv, NEW r \in Requests, InsertChild(r) PROVE IInv' /\ (Kept \/ Freed(r))
  <1> DEFINE new == IF At(r, "run") THEN {RunRow(r, Argument(r))}
                    ELSE {EvidenceRow(r, 0, Argument(r))}
  <1>1. /\ At(r, "run") \/ At(r, "tool")
        /\ Abort(r) \/ Insert(r, new)
    BY DEF InsertChild
  <1>2. status[r] = "open" /\ Argument(r) \in Keys
    BY <1>1, StatementType DEF IInv
  <1>3. CASE Abort(r)
    BY <1>2, <1>3, AbortStep
  <1>4. CASE Insert(r, new)
    <2>1. /\ 0 \in Nat /\ {} \in SUBSET Keys /\ Clean \in Contents
          /\ r \in Requests \cup {Setup}
      BY KeysType
    <2>2. /\ RunRow(r, Argument(r)) \in AllRows /\ RunRow(r, Argument(r)).by = r
          /\ RunRow(r, Argument(r)).table = "agent_runs"
          /\ EvidenceRow(r, 0, Argument(r)) \in AllRows
          /\ EvidenceRow(r, 0, Argument(r)).by = r
          /\ EvidenceRow(r, 0, Argument(r)).table = "evidence"
      BY <1>2, <2>1, NewRows
    <2>3. \A w \in new : w \in AllRows /\ w.by = r /\ w.table # "data"
      BY <2>2
    <2> HIDE DEF new
    <2>4. CASE At(r, "run")
      BY <1>4, <2>3, <2>4, InsertOnlyStep
    <2>5. CASE At(r, "tool")
      BY <1>4, <2>3, <2>5, InsertOnlyStep
    <2> QED
      BY <1>1, <2>4, <2>5
  <1> QED
    BY <1>1, <1>3, <1>4

-------------------------------------------------------------------------------
(* Every step.                                                             *)

\* Only a request that is open can be part of a deadlock.
LEMMA WaitersAreOpen ==
  ASSUME NEW r \in Requests, WaitsFor(r) # {} PROVE status[r] = "open"
  <1>1. CASE \E name : At(r, name)
    BY <1>1 DEF At
  <1>2. CASE \A name : ~At(r, name)
    BY <1>2 DEF WaitsFor
  <1> QED
    BY <1>1, <1>2

\* Every step keeps the invariant, and touches the data set in one of four ways.
LEMMA StepOutcome ==
  ASSUME IInv, NEW r \in Requests, Begin(r) \/ Execute(r) \/ Fail(r)
  PROVE  IInv' /\ (Kept \/ Taken(r) \/ Freed(r) \/ Published(r))
  <1>1. CASE Begin(r)
    BY <1>1, BeginStep
  <1>2. CASE StartDelete(r)
    BY <1>2, StartDeleteStep
  <1>3. CASE FinishDelete(r)
    <2>1. At(r, "delete") /\ locking[r] /\ WaitsFor(r) = {} /\ status[r] = "open"
      BY <1>3 DEF FinishDelete, At
    <2>2. CASE Abort(r)
      BY <2>1, <2>2, AbortStep
    <2>3. CASE /\ rows' = {w \in rows : w \in snapshot[r] \cap rows => w.by # r}
               /\ gone' = [gone EXCEPT ![r] = @ \cup {w \in snapshot[r] \cap rows : w.by # r}]
               /\ snapshot' = [snapshot EXCEPT ![r] = {}]
               /\ locking' = [locking EXCEPT ![r] = FALSE]
               /\ Advance(r)
               /\ UNCHANGED <<op, status, found, context>>
      BY <2>1, <2>3, FinishDeleteStep DEF Taken
    <2> QED
      BY <1>3, <2>2, <2>3 DEF FinishDelete
  <1>4. CASE Load(r)
    <2>1. At(r, "load") /\ status[r] = "open"
      BY <1>4 DEF Load, At
    <2>2. CASE Abort(r)
      BY <2>1, <2>2, AbortStep
    <2>3. CASE ~Abort(r)
      BY <1>4, <2>1, <2>3, LoadStep DEF Load
    <2> QED
      BY <2>2, <2>3
  <1>5. CASE RunDetector(r)
    BY <1>5, RunDetectorStep
  <1>6. CASE CreateIncident(r)
    BY <1>6, CreateIncidentStep
  <1>7. CASE GroupAlerts(r)
    BY <1>7, GroupAlertsStep
  <1>8. CASE Find(r)
    BY <1>8, FindStep
  <1>9. CASE InsertChild(r)
    BY <1>9, InsertChildStep
  <1>10. CASE BuildContext(r)
    BY <1>10, BuildContextStep
  <1>11. CASE Commit(r)
    BY <1>11, CommitStep DEF Published
  <1>12. CASE BreakDeadlock(r)
    <2>1. WaitsFor(r) # {} /\ Abort(r)
      BY <1>12 DEF BreakDeadlock, InSmallestCircle, Deadlock
    <2> QED
      BY <2>1, WaitersAreOpen, AbortStep
  <1>13. CASE Fail(r)
    BY <1>13, AbortStep DEF Fail
  <1> QED
    BY <1>1, <1>2, <1>3, <1>4, <1>5, <1>6, <1>7, <1>8, <1>9, <1>10, <1>11, <1>12, <1>13
    DEF Execute

\* A step that changes nothing keeps the invariant.
LEMMA StutterKeepsIInv == IInv /\ UNCHANGED vars => IInv'
  <1> SUFFICES ASSUME IInv, UNCHANGED vars PROVE IInv'
    OBVIOUS
  <1>1. /\ op' = op /\ at' = at /\ status' = status /\ rows' = rows /\ gone' = gone
        /\ snapshot' = snapshot /\ locking' = locking /\ found' = found /\ context' = context
    BY DEF vars
  <1>2. TypeOK'
    BY <1>1 DEF IInv, TypeOK
  <1>3. OwnersInv'
    BY <1>1 DEF IInv, OwnersInv
  <1>4. \A x : Committed(x)' <=> Committed(x)
    BY <1>1 DEF Committed
  <1>5. GoneInv'
    BY <1>1, <1>4 DEF IInv, GoneInv
  <1>6. \A q \in Requests : (\A name : At(q, name)' <=> At(q, name)) /\ Argument(q)' = Argument(q)
    BY <1>1 DEF At, Argument
  <1>7. SnapshotInv'
    BY <1>1, <1>4, <1>6 DEF IInv, SnapshotInv
  <1>8. Of("data", Store)' = Of("data", Store) /\ Of("data", rows)' = Of("data", rows)
    BY <1>1, <1>4 DEF Of, Store
  <1>9. \A q \in Requests : Own(q)' = Own(q) /\ Deleted(q)' = Deleted(q)
    BY <1>1 DEF Own, Deleted, Of
  <1>10. DataInv'
    BY <1>1, <1>6, <1>8, <1>9 DEF IInv, DataInv
  <1> QED
    BY <1>2, <1>3, <1>5, <1>7, <1>10 DEF IInv

\* The invariant holds of every run of the system.
THEOREM StoreInvariant == Spec => []IInv
  <1>1. Init => IInv
    BY InitIInv
  <1>2. IInv /\ [Next]_vars => IInv'
    <2> SUFFICES ASSUME IInv, [Next]_vars PROVE IInv'
      OBVIOUS
    <2>1. CASE UNCHANGED vars
      BY <2>1, StutterKeepsIInv
    <2>2. CASE Next
      BY <2>2, StepOutcome DEF Next
    <2> QED
      BY <2>1, <2>2
  <1> QED
    BY <1>1, <1>2, PTL DEF Spec

\* Every variable of the store stays within its type, whatever is requested.
THEOREM StoreTyped == Spec => []TypeOK
  <1>1. IInv => TypeOK
    BY DEF IInv
  <1> QED
    BY <1>1, StoreInvariant, PTL

-------------------------------------------------------------------------------
(* One regeneration at a time.                                             *)

OneHolder ==
  /\ Holders = {r \in Requests : Deleted(r) # {}}
  /\ \A q, r \in Holders : q = r
  /\ \E d : Of("data", Store) = {d}

\* Whoever holds the data set has deleted the committed one.
LEMMA HoldersHaveDeleted == IInv => OneHolder
  <1> SUFFICES ASSUME IInv PROVE OneHolder
    OBVIOUS
  <1>1. PICK d : Of("data", Store) = {d}
    BY DEF IInv, DataInv
  <1>2. ASSUME NEW r \in Requests PROVE r \in Holders <=> Deleted(r) # {}
    <2>1. ASSUME Deleted(r) # {} PROVE r \in Holders
      <3>1. PICK w \in gone[r] : w.table = "data"
        BY <2>1 DEF Deleted, Of
      <3>2. w \in Of("data", rows)
        BY <3>1 DEF Of, IInv, TypeOK
      <3> QED
        BY <3>1, <3>2 DEF Holders
    <2>2. ASSUME r \in Holders PROVE Deleted(r) # {}
      <3>1. PICK w \in Of("data", rows) : w \in gone[r] \/ (w.by = r /\ ~Committed(r))
        BY <2>2 DEF Holders
      <3>2. CASE w \in gone[r]
        BY <3>1, <3>2 DEF Deleted, Of
      <3>3. CASE w.by = r /\ ~Committed(r)
        <4>1. status[r] = "open"
          BY <3>1, <3>3, NoNameClash DEF Of, IInv, OwnersInv, Committed
        <4>2. w \in Own(r)
          BY <3>1, <3>3 DEF Own
        <4> QED
          BY <4>1, <4>2 DEF IInv, DataInv
      <3> QED
        BY <3>1, <3>2, <3>3
    <2> QED
      BY <2>1, <2>2
  <1>3. ASSUME NEW r \in Requests PROVE Deleted(r) \subseteq {d}
    <2>1. Deleted(r) \subseteq Of("data", Store)
      BY DEF Deleted, Of, Store, IInv, GoneInv, TypeOK
    <2> QED
      BY <1>1, <2>1
  <1>4. ASSUME NEW q \in Holders, NEW r \in Holders, q # r PROVE FALSE
    <2>1. q \in Requests /\ r \in Requests
      BY DEF Holders
    <2>2. d \in gone[q] /\ d \in gone[r]
      BY <1>2, <1>3, <2>1 DEF Deleted, Of
    <2>3. gone[q] \cap gone[r] = {}
      BY <1>4, <2>1 DEF IInv, GoneInv
    <2> QED
      BY <2>2, <2>3
  <1>5. Holders \subseteq Requests
    BY DEF Holders
  <1> QED
    BY <1>1, <1>2, <1>4, <1>5 DEF OneHolder

\* The data set is held by its holder.
LEMMA HolderIs ==
  ASSUME OneHolder
  PROVE  /\ Holders = {} => Holder = Setup
         /\ \A r \in Holders : Holder = r
         /\ \A d : Of("data", Store) = {d} => Generator = d.by
  BY DEF OneHolder, Holder, Generator

\* At most one request holds the data set.
LEMMA HoldersAreFew == OneHolder => Cardinality(Holders) <= 1
  <1> SUFFICES ASSUME OneHolder PROVE Cardinality(Holders) <= 1
    OBVIOUS
  <1>1. CASE Holders = {}
    BY <1>1, FS_EmptySet
  <1>2. CASE Holders # {}
    <2>1. PICK r \in Holders : TRUE
      BY <1>2
    <2>2. \A q \in Holders : q = r
      BY <2>1 DEF OneHolder
    <2>3. Holders = {r}
      BY <2>1, <2>2
    <2>4. Cardinality({r}) = 1
      BY FS_Singleton
    <2> QED
      BY <2>3, <2>4
  <1> QED
    BY <1>1, <1>2

\* At first nobody holds the data set, and no request has generated it.
LEMMA InitRefines == Init => Regenerated!Init
  <1> SUFFICES ASSUME Init PROVE Regenerated!Init
    OBVIOUS
  <1>1. IInv /\ OneHolder
    BY InitIInv, HoldersHaveDeleted
  <1>2. \A r \in Requests : gone[r] = {} /\ status[r] = "idle"
    BY DEF Init
  <1>3. Holders = {}
    BY <1>1, <1>2 DEF OneHolder, Deleted, Of
  <1>4. PICK d : Of("data", Store) = {d}
    BY <1>1 DEF OneHolder
  <1>5. d \in rows /\ d.by \in Requests \cup {Setup}
    BY <1>1, <1>4 DEF Of, Store, IInv, TypeOK, AllRows
  <1>6. d.by = Setup
    BY <1>1, <1>2, <1>5 DEF IInv, OwnersInv
  <1>7. Holder = Setup /\ Generator = Setup
    BY <1>1, <1>3, <1>4, <1>6, HolderIs
  <1> QED
    BY <1>7, NoNameClash DEF Regenerated!Init

\* A request takes the data set, gives it back, or publishes its own.
LEMMA StepRefines ==
  ASSUME OneHolder, OneHolder', NEW r \in Requests,
         Kept \/ Taken(r) \/ Freed(r) \/ Published(r)
  PROVE  Regenerated!Next \/ (Holder' = Holder /\ Generator' = Generator)
  <1> DEFINE kept == Of("data", Store)' = Of("data", Store)
             same == \A q \in Requests : Deleted(q)' = Deleted(q)
  <1>1. /\ Holders = {q \in Requests : Deleted(q) # {}}
        /\ Holders' = {q \in Requests : Deleted(q)' # {}}
        /\ \A p, q \in Holders : p = q
        /\ \A p, q \in Holders' : p = q
    BY DEF OneHolder
  <1>2. ASSUME kept PROVE Generator' = Generator
    BY <1>2 DEF Generator
  <1>3. ASSUME Holders' = Holders PROVE Holder' = Holder
    BY <1>3 DEF Holder
  <1>4. ASSUME same PROVE Holders' = Holders
    BY <1>1, <1>4
  <1>5. /\ Holders = {} => Holder = Setup
        /\ r \in Holders => Holder = r
    BY HolderIs
  <1>6. /\ Holders' = {} => Holder' = Setup
        /\ r \in Holders' => Holder' = r
    BY <1>1 DEF Holder
  <1>7. CASE Kept
    BY <1>2, <1>3, <1>4, <1>7 DEF Kept
  <1>8. CASE Taken(r)
    <2>1. CASE Deleted(r) # {} \/ Deleted(r)' = {}
      <3>1. Holders' = Holders
        BY <1>1, <1>8, <2>1 DEF Taken
      <3> QED
        BY <1>2, <1>3, <1>8, <3>1 DEF Taken
    <2>2. CASE Deleted(r) = {} /\ Deleted(r)' # {}
      <3>1. r \in Holders' /\ Holders = {}
        BY <1>1, <1>8, <2>2 DEF Taken
      <3>2. Regenerated!Take(r)
        BY <1>2, <1>5, <1>6, <1>8, <3>1 DEF Taken, Regenerated!Take
      <3> QED
        BY <3>2 DEF Regenerated!Next
    <2> QED
      BY <2>1, <2>2
  <1>9. CASE Freed(r)
    <2>1. CASE Deleted(r) = {}
      <3>1. Holders' = Holders
        BY <1>1, <1>9, <2>1 DEF Freed
      <3> QED
        BY <1>2, <1>3, <1>9, <3>1 DEF Freed
    <2>2. CASE Deleted(r) # {}
      <3>1. r \in Holders /\ Holders' = {}
        BY <1>1, <1>9, <2>2 DEF Freed
      <3>2. Regenerated!Release(r)
        BY <1>2, <1>5, <1>6, <1>9, <3>1 DEF Freed, Regenerated!Release
      <3> QED
        BY <3>2 DEF Regenerated!Next
    <2> QED
      BY <2>1, <2>2
  <1>10. CASE Published(r)
    <2>1. CASE Deleted(r) = {}
      <3>1. Holders' = Holders
        BY <1>1, <1>10, <2>1 DEF Published
      <3> QED
        BY <1>2, <1>3, <1>10, <2>1, <3>1 DEF Published
    <2>2. CASE Deleted(r) # {}
      <3>1. r \in Holders /\ Holders' = {}
        BY <1>1, <1>10, <2>2 DEF Published
      <3>2. PICK d : Of("data", Store)' = {d} /\ d.by = r
        BY <1>10, <2>2 DEF Published
      <3>3. Generator' = r
        BY <3>2 DEF Generator
      <3>4. Regenerated!Publish(r)
        BY <1>5, <1>6, <3>1, <3>3 DEF Regenerated!Publish
      <3> QED
        BY <3>4 DEF Regenerated!Next
    <2> QED
      BY <2>1, <2>2
  <1> QED
    BY <1>7, <1>8, <1>9, <1>10

\* RegeneratesOneAtATime: locks and key collisions let one request at a time regenerate
\* the data set, for any number of requests, manifests and operations.
THEOREM OneRegenerationAtATime == Spec => RegeneratesOneAtATime
  <1>1. Init => Regenerated!Init
    BY InitRefines
  <1>2. IInv /\ OneHolder /\ OneHolder' /\ [Next]_vars => [Regenerated!Next]_(Regenerated!vars)
    <2> SUFFICES ASSUME IInv, OneHolder, OneHolder', [Next]_vars
                 PROVE  [Regenerated!Next]_(Regenerated!vars)
      OBVIOUS
    <2>1. CASE UNCHANGED vars
      <3>1. status' = status /\ rows' = rows /\ gone' = gone
        BY <2>1 DEF vars
      <3>2. Store' = Store
        BY <3>1 DEF Store, Committed
      <3>3. Holders' = Holders
        BY <3>1 DEF Holders, Committed, Of
      <3>4. Holder' = Holder /\ Generator' = Generator
        BY <3>2, <3>3 DEF Holder, Generator, Of
      <3> QED
        BY <3>4 DEF Regenerated!vars
    <2>2. ASSUME NEW r \in Requests, Begin(r) \/ Execute(r) \/ Fail(r)
          PROVE  [Regenerated!Next]_(Regenerated!vars)
      <3>1. Kept \/ Taken(r) \/ Freed(r) \/ Published(r)
        BY <2>2, StepOutcome
      <3>2. Regenerated!Next \/ (Holder' = Holder /\ Generator' = Generator)
        BY <3>1, StepRefines
      <3> QED
        BY <3>2 DEF Regenerated!vars
    <2> QED
      BY <2>1, <2>2 DEF Next
  <1>3. IInv => OneHolder
    BY HoldersHaveDeleted
  <1>4. OneHolder => Cardinality(Holders) <= 1
    BY HoldersAreFew
  <1>5. Spec => [](Cardinality(Holders) <= 1)
    BY <1>3, <1>4, StoreInvariant, PTL
  <1>6. Spec => Regenerated!Spec
    BY <1>1, <1>2, <1>3, StoreInvariant, PTL DEF Spec, Regenerated!Spec
  <1> QED
    BY <1>5, <1>6 DEF RegeneratesOneAtATime
-------------------------------------------------------------------------------
(* Waiting.                                                                *)

Open == {r \in Requests : status[r] = "open"}

\* Nobody waits for a request that has ended or not begun: such a request has no row that it
\* deleted and none that is not committed.
LEMMA WaitsAreForOpen ==
  ASSUME IInv, NEW r \in Requests PROVE WaitsFor(r) \subseteq Open
  <1> DEFINE holds(q) == gone[q] # {} \/ \E c \in rows : c.by = q
  <1>1. ASSUME NEW q \in Uncommitted(r), holds(q) PROVE q \in Open
    <2>1. q \in Requests /\ status[q] # "ok" /\ q # Setup
      BY NoNameClash DEF Uncommitted, Committed
    <2>2. CASE gone[q] # {}
      BY <2>1, <2>2 DEF IInv, GoneInv, Open
    <2>3. CASE \E c \in rows : c.by = q
      BY <2>1, <2>3 DEF IInv, OwnersInv, Open
    <2> QED
      BY <1>1, <2>2, <2>3
  <1>2. \A q \in DeleteWaitsFor(r) : q \in Uncommitted(r) /\ holds(q)
    BY DEF DeleteWaitsFor, Children
  <1>3. \A table, key : \A q \in InsertWaitsFor(r, table, key) : q \in Uncommitted(r) /\ holds(q)
    BY DEF InsertWaitsFor, Rivals, Of
  <1>4. \A incident : \A q \in ParentWaitsFor(r, incident) : q \in Uncommitted(r) /\ holds(q)
    BY DEF ParentWaitsFor
  <1> HIDE DEF holds
  <1>5. \/ WaitsFor(r) = DeleteWaitsFor(r) \/ WaitsFor(r) = InsertWaitsFor(r, "data", BaselineKey)
        \/ WaitsFor(r) = InsertWaitsFor(r, "incidents", Argument(r))
        \/ WaitsFor(r) = ParentWaitsFor(r, Argument(r)) \/ WaitsFor(r) = {}
    BY DEF WaitsFor
  <1> QED
    BY <1>1, <1>2, <1>3, <1>4, <1>5

\* Some circle has no smaller one in it.
LEMMA SmallestCircle ==
  ASSUME NEW O \in SUBSET Requests, Deadlock(O)
  PROVE  \E S \in SUBSET Requests : Deadlock(S) /\ \A T \in (SUBSET S) \ {S} : ~Deadlock(T)
  <1> DEFINE circles == {S \in SUBSET Requests : Deadlock(S)}
             sizes == {Cardinality(S) : S \in circles}
  <1>1. \A S \in SUBSET Requests : IsFiniteSet(S) /\ Cardinality(S) \in Nat
    BY RequestsAreFinite, FS_Subset, FS_CardinalityType
  <1>2. sizes \in SUBSET Nat /\ sizes # {}
    BY <1>1
  <1> HIDE DEF sizes
  <1>3. PICK k \in sizes : \A j \in sizes : k <= j
    BY <1>2, LeastOf
  <1>4. PICK S \in circles : Cardinality(S) = k
    BY DEF sizes
  <1>5. ASSUME NEW T \in (SUBSET S) \ {S}, Deadlock(T) PROVE FALSE
    <2>1. T \in circles
      BY <1>4, <1>5
    <2>2. k <= Cardinality(T)
      BY <1>3, <2>1 DEF sizes
    <2>3. Cardinality(T) <= Cardinality(S) /\ (Cardinality(T) = Cardinality(S) => S = T)
      BY <1>1, FS_Subset
    <2>4. Cardinality(T) \in Nat /\ Cardinality(S) \in Nat
      BY <1>1, <2>1
    <2> QED
      BY <1>4, <1>5, <2>2, <2>3, <2>4
  <1> QED
    BY <1>4, <1>5

\* A detector has a data set to read: the committed one, or the one of its own request.
LEMMA DataIsThere ==
  ASSUME IInv, NEW r \in Requests, At(r, "detector") PROVE Of("data", Visible(r)) # {}
  <1>1. PICK d : Of("data", Store) = {d}
    BY DEF IInv, DataInv
  <1>2. d \in rows /\ d.table = "data" /\ Committed(d.by)
    BY <1>1 DEF Of, Store
  <1>3. CASE d \notin gone[r]
    BY <1>2, <1>3 DEF Of, Visible
  <1>4. CASE d \in gone[r]
    <2>1. Deleted(r) # {} /\ status[r] = "open"
      BY <1>2, <1>4 DEF Deleted, Of, At
    <2>2. ~At(r, "load")
      BY DEF At
    <2>3. PICK w : w \in Own(r)
      BY <2>1, <2>2 DEF IInv, DataInv
    <2>4. w \in rows /\ w.table = "data" /\ w.by = r /\ w \notin gone[r]
      BY <2>3 DEF Own, Of, IInv, GoneInv
    <2> QED
      BY <2>4 DEF Of, Visible
  <1> QED
    BY <1>3, <1>4

\* If every open request waits, the open requests wait for each other.
LEMMA SomeoneGoesOnHolds == IInv => SomeoneGoesOn
  <1> SUFFICES ASSUME IInv, Open # {}
               PROVE  \E r \in Open : \/ /\ WaitsFor(r) = {}
                                         /\ At(r, "detector") => Of("data", Visible(r)) # {}
                                      \/ InSmallestCircle(r)
    BY DEF SomeoneGoesOn, Open
  <1>1. CASE \E r \in Open : WaitsFor(r) = {}
    <2>1. \A r \in Open : At(r, "detector") => Of("data", Visible(r)) # {}
      BY DataIsThere DEF Open
    <2> QED
      BY <1>1, <2>1
  <1>2. CASE \A r \in Open : WaitsFor(r) # {}
    <2>1. Deadlock(Open) /\ Open \in SUBSET Requests
      BY <1>2, WaitsAreForOpen DEF Deadlock, Open
    <2>2. PICK S \in SUBSET Requests : Deadlock(S) /\ \A T \in (SUBSET S) \ {S} : ~Deadlock(T)
      BY <2>1, SmallestCircle
    <2>3. PICK r \in S : WaitsFor(r) # {}
      BY <2>2 DEF Deadlock
    <2>4. r \in Open
      BY <2>3, WaitersAreOpen DEF Open
    <2>5. InSmallestCircle(r)
      BY <2>2, <2>3 DEF InSmallestCircle, Deadlock
    <2> QED
      BY <2>4, <2>5
  <1> QED
    BY <1>1, <1>2

\* No request waits for what has ended: as long as some are open, one of them can go on, or
\* PostgreSQL finds a circle to break.
THEOREM WaitsAreResolved == Spec => []SomeoneGoesOn
  BY StoreInvariant, SomeoneGoesOnHolds, PTL

-------------------------------------------------------------------------------
(* How long a request can take.                                            *)

\* A bound on the steps that a request still takes: to begin, two for each statement at
\* most, and to end.
Remaining(r) ==
  LET n == Len(Program[op[r]])
  IN  CASE status[r] = "idle" -> 2 * n + 2
        [] status[r] = "open" -> 2 * (n + 1 - at[r]) + (IF locking[r] THEN 0 ELSE 1)
        [] OTHER -> 0

\* A request that has come to its commit is just behind its last statement.
AtInv == \A r \in Requests : at[r] <= Len(Program[op[r]]) + 1

\* A step of r brings r nearer to its end and leaves the others where they are.
Nearer(r) ==
  /\ Remaining(r)' < Remaining(r)
  /\ \A q \in Requests \ {r} : Remaining(q)' = Remaining(q)

\* What a step of r does to where requests are: it begins, chooses the rows of a DELETE,
\* completes a statement or ends.
Onwards(r) ==
  /\ op' = op
  /\ \A q \in Requests \ {r} : at'[q] = at[q] /\ status'[q] = status[q] /\ locking'[q] = locking[q]
  /\ \/ status[r] = "idle" /\ status'[r] = "open" /\ at'[r] = at[r] /\ locking'[r] = locking[r]
     \/ /\ At(r, "delete") /\ ~locking[r] /\ locking'[r]
        /\ status'[r] = "open" /\ at'[r] = at[r]
     \/ /\ \E name : At(r, name)
        /\ at'[r] = at[r] + 1 /\ locking'[r] = FALSE /\ status'[r] = "open"
     \/ status[r] = "open" /\ status'[r] \in Ended /\ at'[r] = at[r]

\* A request is rolled back once.
LEMMA EndIsOnwards ==
  ASSUME IInv, NEW r \in Requests, status[r] = "open", NEW how \in Ended, End(r, how)
  PROVE  Onwards(r)
  <1>1. /\ op' = op /\ at' = at /\ status' = [status EXCEPT ![r] = how]
        /\ locking' = [locking EXCEPT ![r] = FALSE]
    BY DEF End
  <1> QED
    BY <1>1 DEF Onwards, IInv, TypeOK

\* A statement that is none of the wipe is completed in one step.
LEMMA InsertIsOnwards ==
  ASSUME IInv, NEW r \in Requests, NEW name, At(r, name), name # "delete",
         Advance(r), UNCHANGED <<op, status, locking>>
  PROVE  Onwards(r)
  <1>1. ~At(r, "delete") /\ status[r] = "open"
    BY DEF At
  <1>2. locking[r] = FALSE
    BY <1>1, NotLocking
  <1>3. at' = [at EXCEPT ![r] = @ + 1] /\ op' = op /\ status' = status /\ locking' = locking
    BY DEF Advance
  <1>4. at'[r] = at[r] + 1 /\ \A q \in Requests \ {r} : at'[q] = at[q]
    BY <1>3 DEF IInv, TypeOK
  <1> QED
    BY <1>1, <1>2, <1>3, <1>4 DEF Onwards

\* Every step takes its request onwards.
LEMMA StepIsOnwards ==
  ASSUME IInv, NEW r \in Requests, Begin(r) \/ Execute(r) \/ Fail(r)
  PROVE  Onwards(r)
  <1>1. CASE Begin(r)
    BY <1>1 DEF Begin, Onwards, IInv, TypeOK
  <1>2. CASE StartDelete(r)
    BY <1>2 DEF StartDelete, At, Onwards, IInv, TypeOK
  <1>3. ASSUME status[r] = "open", Abort(r) \/ End(r, "missing") PROVE Onwards(r)
    BY <1>3, EndIsOnwards DEF Abort, Ended
  <1>4. CASE FinishDelete(r)
    <2>1. At(r, "delete") /\ status[r] = "open"
      BY <1>4 DEF FinishDelete, At
    <2>2. CASE Abort(r)
      BY <1>3, <2>1, <2>2
    <2>3. CASE ~Abort(r)
      <3>1. /\ at' = [at EXCEPT ![r] = @ + 1] /\ op' = op /\ status' = status
            /\ locking' = [locking EXCEPT ![r] = FALSE]
        BY <1>4, <2>3 DEF FinishDelete, Advance
      <3>2. /\ at'[r] = at[r] + 1 /\ locking'[r] = FALSE /\ status'[r] = "open"
            /\ \A q \in Requests \ {r} : at'[q] = at[q] /\ locking'[q] = locking[q]
        BY <2>1, <3>1 DEF IInv, TypeOK
      <3> QED
        BY <2>1, <3>1, <3>2 DEF Onwards
    <2> QED
      BY <2>2, <2>3
  <1>5. CASE Load(r)
    <2>1. At(r, "load") /\ status[r] = "open"
      BY <1>5 DEF Load, At
    <2>2. Abort(r) \/ (Advance(r) /\ UNCHANGED <<op, status, locking>>)
      BY <1>5 DEF Load
    <2> QED
      BY <1>3, <2>1, <2>2, InsertIsOnwards
  <1>6. CASE RunDetector(r) \/ BuildContext(r)
    <2>1. /\ At(r, "detector") \/ At(r, "context")
          /\ Advance(r) /\ UNCHANGED <<op, status, locking>>
      BY <1>6 DEF RunDetector, BuildContext
    <2> QED
      BY <2>1, InsertIsOnwards
  <1>7. CASE CreateIncident(r) \/ GroupAlerts(r) \/ InsertChild(r)
    <2>1. At(r, "create") \/ At(r, "group") \/ At(r, "run") \/ At(r, "tool")
      BY <1>7 DEF CreateIncident, GroupAlerts, InsertChild
    <2>2. Abort(r) \/ \E new : Insert(r, new)
      BY <1>7 DEF CreateIncident, GroupAlerts, InsertChild
    <2>3. (\E new : Insert(r, new)) => Advance(r) /\ UNCHANGED <<op, status, locking>>
      BY DEF Insert
    <2>4. status[r] = "open"
      BY <2>1 DEF At
    <2> QED
      BY <1>3, <2>1, <2>2, <2>3, <2>4, InsertIsOnwards
  <1>8. CASE Find(r)
    <2>1. At(r, "find") /\ status[r] = "open"
      BY <1>8 DEF Find, At
    <2>2. End(r, "missing") \/ (Advance(r) /\ UNCHANGED <<op, status, locking>>)
      BY <1>8 DEF Find
    <2> QED
      BY <1>3, <2>1, <2>2, InsertIsOnwards
  <1>9. CASE Commit(r)
    BY <1>9 DEF Commit, Onwards, Ended, IInv, TypeOK
  <1>10. CASE BreakDeadlock(r)
    <2>1. WaitsFor(r) # {} /\ Abort(r)
      BY <1>10 DEF BreakDeadlock, InSmallestCircle, Deadlock
    <2> QED
      BY <1>3, <2>1, WaitersAreOpen
  <1>11. CASE Fail(r)
    BY <1>3, <1>11 DEF Fail
  <1> QED
    BY <1>1, <1>2, <1>4, <1>5, <1>6, <1>7, <1>8, <1>9, <1>10, <1>11 DEF Execute

\* The bound in each of the cases.
Counted(r) ==
  LET n == Len(Program[op[r]])
  IN  /\ n \in Nat /\ at[r] \in Nat \ {0} /\ at[r] <= n + 1
      /\ Remaining(r) \in Nat
      /\ status[r] = "idle" => Remaining(r) = 2 * n + 2 /\ ~locking[r]
      /\ status[r] = "open" /\ locking[r] => Remaining(r) = 2 * (n + 1 - at[r]) /\ at[r] <= n
      /\ status[r] = "open" /\ ~locking[r] => Remaining(r) = 2 * (n + 1 - at[r]) + 1
      /\ status[r] \in Ended => Remaining(r) = 0

AllCounted == \A r \in Requests : Counted(r)

\* It is a natural number.
LEMMA RemainingIs == IInv /\ AtInv => AllCounted
  <1> SUFFICES ASSUME IInv, AtInv, NEW r \in Requests PROVE Counted(r)
    BY DEF AllCounted
  <1> DEFINE n == Len(Program[op[r]])
             a == at[r]
  <1>1. n \in Nat
    <2>1. op[r] \in Operations
      BY DEF IInv, TypeOK
    <2> QED
      BY <2>1, ProgramIsProgram DEF Programs
  <1>2. a \in Nat \ {0} /\ a <= n + 1
    BY DEF IInv, TypeOK, AtInv
  <1>3. locking[r] => status[r] = "open" /\ a <= n
    BY DEF IInv, SnapshotInv, At
  <1>4. status[r] \in {"idle", "open"} \cup Ended
    BY DEF IInv, TypeOK
  <1>5. Remaining(r) = CASE status[r] = "idle" -> 2 * n + 2
                         [] status[r] = "open" -> 2 * (n + 1 - a) + (IF locking[r] THEN 0 ELSE 1)
                         [] OTHER -> 0
    BY DEF Remaining
  <1> HIDE DEF Counted, n, a
  <1>6. 2 * n + 2 \in Nat /\ 2 * (n + 1 - a) \in Nat /\ 2 * (n + 1 - a) + 1 \in Nat
    BY <1>1, <1>2
  <1>7. "idle" \notin Ended /\ "open" \notin Ended
    BY DEF Ended
  <1>8. CASE status[r] = "idle"
    BY <1>1, <1>2, <1>3, <1>5, <1>6, <1>7, <1>8 DEF Counted, n, a
  <1>9. CASE status[r] = "open"
    <2>1. Remaining(r) = 2 * (n + 1 - a) + (IF locking[r] THEN 0 ELSE 1)
      BY <1>5, <1>9
    <2>2. CASE locking[r]
      <3>1. Remaining(r) = 2 * (n + 1 - a)
        BY <1>6, <2>1, <2>2
      <3> QED
        BY <1>1, <1>2, <1>3, <1>6, <1>7, <1>9, <2>2, <3>1 DEF Counted, n, a
    <2>3. CASE ~locking[r]
      <3>1. Remaining(r) = 2 * (n + 1 - a) + 1
        BY <2>1, <2>3
      <3> QED
        BY <1>1, <1>2, <1>6, <1>7, <1>9, <2>3, <3>1 DEF Counted, n, a
    <2> QED
      BY <2>2, <2>3
  <1>10. CASE status[r] \in Ended
    <2>1. Remaining(r) = 0
      BY <1>5, <1>7, <1>10
    <2> QED
      BY <1>1, <1>2, <1>3, <1>7, <1>10, <2>1 DEF Counted, n, a
  <1> QED
    BY <1>4, <1>8, <1>9, <1>10

\* So it is after a step.
LEMMA RemainingWillBe == IInv' /\ AtInv' => AllCounted'
  BY RemainingIs, PTL

\* Every step brings a request nearer to its end.
LEMMA StepIsNearer ==
  ASSUME IInv, AtInv, NEW r \in Requests, Begin(r) \/ Execute(r) \/ Fail(r)
  PROVE  AtInv' /\ Nearer(r)
  <1>1. Onwards(r) /\ IInv'
    BY StepIsOnwards, StepOutcome
  <1> DEFINE n == Len(Program[op[r]])
  <1>2. \A name : At(r, name) => at[r] <= n
    BY DEF At
  <1>3. AtInv'
    <2>1. \A q \in Requests \ {r} : at'[q] <= Len(Program[op[q]])' + 1
      BY <1>1 DEF Onwards, AtInv
    <2>2. n \in Nat /\ at[r] \in Nat /\ at[r] <= n + 1 /\ n' = n
      BY <1>1, RemainingIs DEF Onwards, Counted, AllCounted
    <2>3. at'[r] = at[r] \/ (at'[r] = at[r] + 1 /\ at[r] <= n)
      BY <1>1, <1>2 DEF Onwards
    <2>4. at'[r] <= n' + 1
      <3> HIDE DEF n
      <3> QED
        BY <2>2, <2>3
    <2> QED
      BY <2>1, <2>4 DEF AtInv
  <1>4. ASSUME NEW q \in Requests \ {r} PROVE Remaining(q)' = Remaining(q)
    BY <1>1 DEF Onwards, Remaining
  <1>5. Remaining(r)' < Remaining(r)
    <2> DEFINE a == at[r]
               b == at'[r]
               now == Remaining(r)
               then == Remaining(r)'
    <2>1. /\ n \in Nat /\ a \in Nat \ {0} /\ a <= n + 1 /\ now \in Nat
          /\ status[r] = "idle" => now = 2 * n + 2 /\ ~locking[r]
          /\ status[r] = "open" /\ locking[r] => now = 2 * (n + 1 - a) /\ a <= n
          /\ status[r] = "open" /\ ~locking[r] => now = 2 * (n + 1 - a) + 1
      BY RemainingIs DEF Counted, AllCounted
    <2>2. /\ n' = n /\ b \in Nat \ {0} /\ b <= n' + 1 /\ then \in Nat
          /\ status'[r] = "open" /\ locking'[r] => then = 2 * (n' + 1 - b)
          /\ status'[r] = "open" /\ ~locking'[r] => then = 2 * (n' + 1 - b) + 1
          /\ status'[r] \in Ended => then = 0
      <3>1. n' = n
        BY <1>1 DEF Onwards
      <3>2. Counted(r)'
        BY <1>1, <1>3, RemainingWillBe DEF AllCounted
      <3> QED
        BY <3>1, <3>2 DEF Counted
    <2>3. \/ status[r] = "idle" /\ status'[r] = "open" /\ b = a /\ ~locking'[r]
          \/ status[r] = "open" /\ ~locking[r] /\ locking'[r] /\ status'[r] = "open" /\ b = a
          \/ status[r] = "open" /\ a <= n /\ b = a + 1 /\ ~locking'[r] /\ status'[r] = "open"
          \/ status[r] = "open" /\ status'[r] \in Ended
      BY <1>1, <1>2, <2>1 DEF Onwards, At
    <2> HIDE DEF n, a, b, now, then
    <2>4. CASE status[r] = "idle" /\ status'[r] = "open" /\ b = a /\ ~locking'[r]
      <3>1. now = 2 * n + 2 /\ then = 2 * (n + 1 - a) + 1
        BY <2>1, <2>2, <2>4
      <3> QED
        BY <2>1, <3>1 DEF now, then
    <2>5. CASE status[r] = "open" /\ ~locking[r] /\ locking'[r] /\ status'[r] = "open" /\ b = a
      <3>1. now = 2 * (n + 1 - a) + 1 /\ then = 2 * (n + 1 - a)
        BY <2>1, <2>2, <2>5
      <3> QED
        BY <2>1, <3>1 DEF now, then
    <2>6. CASE status[r] = "open" /\ a <= n /\ b = a + 1 /\ ~locking'[r] /\ status'[r] = "open"
      <3>1. then = 2 * (n + 1 - b) + 1 /\ (now = 2 * (n + 1 - a) \/ now = 2 * (n + 1 - a) + 1)
        BY <2>1, <2>2, <2>6
      <3> QED
        BY <2>1, <2>6, <3>1 DEF now, then
    <2>7. CASE status[r] = "open" /\ status'[r] \in Ended
      <3>1. then = 0 /\ ((now = 2 * (n + 1 - a) /\ a <= n) \/ now = 2 * (n + 1 - a) + 1)
        BY <2>1, <2>2, <2>7
      <3> QED
        BY <2>1, <3>1 DEF now, then
    <2> QED
      BY <2>3, <2>4, <2>5, <2>6, <2>7
  <1> QED
    BY <1>3, <1>4, <1>5 DEF Nearer

\* Whatever they are and however they interleave, fail and deadlock, requests take no more steps
\* than this: every step of the store brings one nearer to its end and none farther from it.
THEOREM EveryStepCounts ==
  Spec => [](\A r \in Requests : Remaining(r) \in Nat) /\ [][\E r \in Requests : Nearer(r)]_vars
  <1>1. Init => AtInv
    <2> SUFFICES ASSUME Init, NEW r \in Requests PROVE at[r] <= Len(Program[op[r]]) + 1
      BY DEF AtInv
    <2> DEFINE n == Len(Program[op[r]])
    <2>1. n \in Nat
      <3>1. op[r] \in Operations
        BY DEF Init
      <3> QED
        BY <3>1, ProgramIsProgram DEF Programs
    <2>2. at[r] = 1
      BY DEF Init
    <2> HIDE DEF n
    <2>3. at[r] <= n + 1
      BY <2>1, <2>2
    <2> QED
      BY <2>3 DEF n
  <1>2. IInv /\ AtInv /\ [Next]_vars => AtInv' /\ [\E r \in Requests : Nearer(r)]_vars
    <2> SUFFICES ASSUME IInv, AtInv, [Next]_vars
                 PROVE  AtInv' /\ [\E r \in Requests : Nearer(r)]_vars
      OBVIOUS
    <2>1. CASE UNCHANGED vars
      BY <2>1 DEF AtInv, vars
    <2>2. CASE Next
      BY <2>2, StepIsNearer DEF Next
    <2> QED
      BY <2>1, <2>2
  <1>3. IInv /\ AtInv => \A r \in Requests : Remaining(r) \in Nat
    BY RemainingIs DEF Counted, AllCounted
  <1>4. Spec => []AtInv
    BY <1>1, <1>2, StoreInvariant, PTL DEF Spec
  <1>5. Spec => [](\A r \in Requests : Remaining(r) \in Nat)
    BY <1>3, <1>4, StoreInvariant, PTL
  <1>6. Spec => [][\E r \in Requests : Nearer(r)]_vars
    BY <1>2, <1>4, StoreInvariant, PTL DEF Spec
  <1> QED
    BY <1>5, <1>6
===============================================================================
