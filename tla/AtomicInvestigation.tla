------------------------- MODULE AtomicInvestigation --------------------------
(***************************************************************************)
(* What an investigation promises to the readers of the incident store: a  *)
(* request is served by one step that stores a completed AgentRun together *)
(* with exactly the evidence its tools found, or by one that stores        *)
(* nothing.  No reader ever sees a run under way, and what is stored is    *)
(* never changed.                                                          *)
(***************************************************************************)
EXTENDS Naturals, FiniteSets

CONSTANTS Runs, NoEvidence

VARIABLES
  state,      \* run -> "idle", "running", "recorded" or "lost"
  evidence,   \* stored evidence rows
  agentRuns   \* stored AgentRun rows

vars == <<state, evidence, agentRuns>>

Move(r, from, to) == state[r] = from /\ state' = [state EXCEPT ![r] = to]

Init ==
  /\ state = [r \in Runs |-> "idle"]
  /\ \A e \in evidence : e.type = "alert"
  /\ agentRuns = {}

Begin(r) == Move(r, "idle", "running") /\ UNCHANGED <<evidence, agentRuns>>

Lose(r) == Move(r, "running", "lost") /\ UNCHANGED <<evidence, agentRuns>>

\* What may be stored for run r as AgentRun a with the new evidence rows.
Sound(r, a, new) ==
  /\ a.run = r
  /\ a.status = "completed"
  /\ a.calls = Cardinality(new)
  /\ \A e \in new : e.id[1] = r /\ e.incident = a.incident
  /\ \A id \in a.report.cited \ {NoEvidence} :
       \E e \in evidence' : e.id = id /\ e.incident = a.incident
  /\ a.report.review \/ \E d, e \in new : d.type # e.type

Record(r) ==
  /\ Move(r, "running", "recorded")
  /\ evidence \subseteq evidence'
  /\ \E a \in agentRuns' \ agentRuns :
       agentRuns' = agentRuns \cup {a} /\ Sound(r, a, evidence' \ evidence)

Next == \E r \in Runs : Begin(r) \/ Record(r) \/ Lose(r)

Spec == Init /\ [][Next]_vars
===============================================================================
