-------------------------- MODULE Orchestration_proofs --------------------------
(***************************************************************************)
(* Theorems about the engine running the real decider and projections: the *)
(* memory the commands are decided against and the tables agree, and the   *)
(* log is a legal life of every thread and plan, for any projects,         *)
(* threads, plans and commands, through every retry, failure and crash.    *)
(***************************************************************************)
EXTENDS Orchestration, OrchestrationEngine_proofs

-----------------------------------------------------------------------------
(* Memory and tables, event by event.  A row of memory without its plans is   *)
(* the table's row, and each side's own code does the same to it.             *)
RowOf(row) == [state |-> row.state, project |-> row.project, archived |-> row.archived]

Agree(m, d) ==
    /\ m.projects = d.projects
    /\ \A t \in ThreadId : d.threads[t] = RowOf(m.threads[t])

\* Neither side keeps anything of a thread it does not hold.
TidyMemory(m) ==
    \A t \in ThreadId : m.threads[t].state = "absent" => m.threads[t].plans = {}
TidyTables(d) ==
    \A t \in ThreadId : d.threads[t].state = "absent" => d.threads[t] = AbsentRow

\* What an event makes of the projects, and of the row of its thread.
ProjectsAfter(projects, e) ==
    CASE e.type = "project.created" -> [projects EXCEPT ![e.project] = "live"]
      [] e.type = "project.deleted" ->
            [projects EXCEPT ![e.project] = IF @ = "absent" THEN @ ELSE "deleted"]
      [] OTHER -> projects

RowAfter(row, e) ==
    CASE e.type = "thread.created" -> [AbsentRow EXCEPT !.state = "live", !.project = e.project]
      [] e.type # "thread.created" /\ row.state = "absent" -> row
      [] e.type = "thread.deleted" /\ row.state # "absent" -> [row EXCEPT !.state = "deleted"]
      [] e.type = "thread.archived" /\ row.state # "absent" -> [row EXCEPT !.archived = TRUE]
      [] e.type = "thread.unarchived" /\ row.state # "absent" -> [row EXCEPT !.archived = FALSE]
      [] OTHER -> row

RowEvents == {"thread.deleted", "thread.archived", "thread.unarchived"}
PlanEvents == {"thread.proposed-plan-upserted", "thread.reverted"}
ProjectEvents == {"project.created", "project.deleted"}

(* The projects, in memory and in the tables.                                 *)
LEMMA ProjectsStep ==
    ASSUME NEW m \in ReadModel, NEW d \in Tables, NEW e \in Payload
    PROVE  /\ ApplyEvent(m, e).projects = ProjectsAfter(m.projects, e)
           /\ ProjectEvent(d, e).projects = ProjectsAfter(d.projects, e)
<1>m. m = [projects |-> m.projects, threads |-> m.threads]
  BY DEF ReadModel
<1>d. d = [projects |-> d.projects, threads |-> d.threads, plans |-> d.plans]
  BY DEF Tables
<1>1. CASE e.type = "project.created"
  BY <1>1, <1>m, <1>d DEF ApplyEvent, ProjectEvent, ProjectsAfter
<1>2. CASE e.type = "project.deleted"
  BY <1>2, <1>m, <1>d DEF ApplyEvent, ProjectEvent, ProjectsAfter
<1>3. CASE e.type \notin ProjectEvents
  <2>1. ProjectsAfter(m.projects, e) = m.projects /\ ProjectsAfter(d.projects, e) = d.projects
    BY <1>3 DEF ProjectsAfter, ProjectEvents
  <2>2. ApplyEvent(m, e).projects = m.projects
    BY <1>3, <1>m DEF ApplyEvent, UpdateThread, ProjectEvents
  <2>3. ProjectEvent(d, e).projects = d.projects
    BY <1>3, <1>d DEF ProjectEvent, UpdateRow, ProjectEvents
  <2> QED
    BY <2>1, <2>2, <2>3
<1> QED
  BY <1>1, <1>2, <1>3 DEF ProjectEvents

(* The row of the event's thread, in the tables.                              *)
LEMMA TableRowStep ==
    ASSUME NEW d \in Tables, NEW e \in Payload, NEW t \in ThreadId
    PROVE  ProjectEvent(d, e).threads[t] =
             IF e.thread = t THEN RowAfter(d.threads[t], e) ELSE d.threads[t]
<1>d. /\ d = [projects |-> d.projects, threads |-> d.threads, plans |-> d.plans]
      /\ d.threads \in [ThreadId -> TableRow]
  BY DEF Tables
<1>1. \A row : UpdateRow(d, e.thread, row).threads[t] =
                  IF e.thread = t /\ d.threads[t].state # "absent" THEN row ELSE d.threads[t]
  BY <1>d DEF UpdateRow
<1>2. CASE e.type = "thread.created"
  BY <1>d, <1>2 DEF ProjectEvent, RowAfter
<1>3. CASE e.type = "thread.deleted"
  BY <1>1, <1>3 DEF ProjectEvent, RowAfter
<1>4. CASE e.type = "thread.archived"
  BY <1>1, <1>4 DEF ProjectEvent, RowAfter
<1>5. CASE e.type = "thread.unarchived"
  BY <1>1, <1>5 DEF ProjectEvent, RowAfter
<1>6. CASE e.type \in ProjectEvents \cup PlanEvents
  <2>1. ProjectEvent(d, e).threads = d.threads
    BY <1>d, <1>6 DEF ProjectEvent, ProjectEvents, PlanEvents
  <2>2. RowAfter(d.threads[t], e) = d.threads[t]
    BY <1>6 DEF RowAfter, ProjectEvents, PlanEvents
  <2> QED
    BY <2>1, <2>2
<1>7. CASE e.type \notin ProjectEvents \cup PlanEvents \cup RowEvents \cup {"thread.created"}
  BY <1>7 DEF ProjectEvent, RowAfter, ProjectEvents, PlanEvents, RowEvents
<1> QED
  BY <1>2, <1>3, <1>4, <1>5, <1>6, <1>7 DEF ProjectEvents, PlanEvents, RowEvents

(* A row is its fields, and archival goes through.                            *)
LEMMA RowArchived ==
    ASSUME NEW old \in ThreadRow
    PROVE  /\ RowOf([old EXCEPT !.archived = TRUE]) = [RowOf(old) EXCEPT !.archived = TRUE]
           /\ RowOf([old EXCEPT !.archived = FALSE]) = [RowOf(old) EXCEPT !.archived = FALSE]
<1>1. ASSUME NEW a \in TableRow, NEW b \in TableRow, a.state = b.state,
             a.project = b.project, a.archived <=> b.archived
      PROVE  a = b
  BY <1>1 DEF TableRow
<1>2. ASSUME NEW x \in ThreadRow
      PROVE  /\ RowOf(x) \in TableRow /\ RowOf(x).state = x.state
             /\ RowOf(x).project = x.project /\ (RowOf(x).archived <=> x.archived)
  BY DEF RowOf, TableRow, ThreadRow
<1> DEFINE row == RowOf(old)
           on == [old EXCEPT !.archived = TRUE]
           off == [old EXCEPT !.archived = FALSE]
           rowOn == [row EXCEPT !.archived = TRUE]
           rowOff == [row EXCEPT !.archived = FALSE]
<1>3. on \in ThreadRow /\ on.archived /\ on.state = old.state /\ on.project = old.project
  BY DEF ThreadRow
<1>4. off \in ThreadRow /\ ~off.archived /\ off.state = old.state /\ off.project = old.project
  BY DEF ThreadRow
<1>5. row \in TableRow /\ row.state = old.state /\ row.project = old.project
  BY <1>2
<1> HIDE DEF row, on, off
<1>6. rowOn \in TableRow /\ rowOn.archived /\ rowOn.state = row.state /\ rowOn.project = row.project
  BY <1>5 DEF TableRow
<1>7. rowOff \in TableRow /\ ~rowOff.archived /\ rowOff.state = row.state
      /\ rowOff.project = row.project
  BY <1>5 DEF TableRow
<1> HIDE DEF rowOn, rowOff
<1>8. RowOf(on) = rowOn
  BY <1>1, <1>2, <1>3, <1>5, <1>6
<1>9. RowOf(off) = rowOff
  BY <1>1, <1>2, <1>4, <1>5, <1>7
<1> QED
  BY <1>8, <1>9 DEF on, off, rowOn, rowOff, row

(* The same row, in memory: the same without its plans.                        *)
LEMMA MemoryRowStep ==
    ASSUME NEW m \in ReadModel, NEW e \in Payload, NEW t \in ThreadId
    PROVE  RowOf(ApplyEvent(m, e).threads[t]) =
             IF e.thread = t THEN RowAfter(RowOf(m.threads[t]), e) ELSE RowOf(m.threads[t])
<1>m. /\ m = [projects |-> m.projects, threads |-> m.threads]
      /\ m.threads \in [ThreadId -> ThreadRow]
  BY DEF ReadModel
<1>1. \A row : UpdateThread(m, e.thread, row).threads[t] =
                  IF e.thread = t /\ m.threads[t].state # "absent" THEN row ELSE m.threads[t]
  BY <1>m DEF UpdateThread, HasThread
<1>t. m.threads[t] \in ThreadRow
  BY <1>m
<1>2. CASE e.type = "thread.created"
  BY <1>m, <1>2 DEF ApplyEvent, RowAfter, RowOf, AbsentThread, AbsentRow
<1>3. CASE e.type = "thread.deleted"
  BY <1>1, <1>t, <1>3 DEF ApplyEvent, RowAfter, RowOf, ThreadRow
<1>4. CASE e.type = "thread.archived"
  <2> DEFINE old == m.threads[t]
             new == [old EXCEPT !.archived = TRUE]
  <2>1. ApplyEvent(m, e).threads[t] = IF e.thread = t /\ old.state # "absent" THEN new ELSE old
    BY <1>1, <1>4 DEF ApplyEvent
  <2>2. RowOf(new) = [RowOf(old) EXCEPT !.archived = TRUE]
    BY <1>t, RowArchived
  <2>3. RowAfter(RowOf(old), e) = IF old.state # "absent" THEN RowOf(new) ELSE RowOf(old)
    <3>1. RowOf(old).state = old.state
      BY DEF RowOf
    <3> HIDE DEF new, old
    <3> QED
      BY <1>4, <2>2, <3>1 DEF RowAfter
  <2> HIDE DEF new, old
  <2>4. RowOf(ApplyEvent(m, e).threads[t]) =
           IF e.thread = t THEN RowAfter(RowOf(old), e) ELSE RowOf(old)
    BY <2>1, <2>3
  <2> QED
    BY <2>4 DEF old
<1>5. CASE e.type = "thread.unarchived"
  <2> DEFINE old == m.threads[t]
             new == [old EXCEPT !.archived = FALSE]
  <2>1. ApplyEvent(m, e).threads[t] = IF e.thread = t /\ old.state # "absent" THEN new ELSE old
    BY <1>1, <1>5 DEF ApplyEvent
  <2>2. RowOf(new) = [RowOf(old) EXCEPT !.archived = FALSE]
    BY <1>t, RowArchived
  <2>3. RowAfter(RowOf(old), e) = IF old.state # "absent" THEN RowOf(new) ELSE RowOf(old)
    <3>1. RowOf(old).state = old.state
      BY DEF RowOf
    <3> HIDE DEF new, old
    <3> QED
      BY <1>5, <2>2, <3>1 DEF RowAfter
  <2> HIDE DEF new, old
  <2>4. RowOf(ApplyEvent(m, e).threads[t]) =
           IF e.thread = t THEN RowAfter(RowOf(old), e) ELSE RowOf(old)
    BY <2>1, <2>3
  <2> QED
    BY <2>4 DEF old
<1>6. CASE e.type \in PlanEvents
  <2>1. RowAfter(RowOf(m.threads[t]), e) = RowOf(m.threads[t])
    BY <1>6 DEF RowAfter, PlanEvents
  <2>2. RowOf(ApplyEvent(m, e).threads[t]) = RowOf(m.threads[t])
    <3> DEFINE old == m.threads[t]
    <3>1. \E S : \/ ApplyEvent(m, e).threads[t] = old
                \/ ApplyEvent(m, e).threads[t] = [old EXCEPT !.plans = S]
      <4>1. CASE e.type = "thread.proposed-plan-upserted"
        <5> DEFINE S == Newest(m.threads[e.thread].plans \cup e.plans)
        <5>1. ApplyEvent(m, e)
                = UpdateThread(m, e.thread, [m.threads[e.thread] EXCEPT !.plans = S])
          BY <4>1 DEF ApplyEvent
        <5> HIDE DEF S
        <5>2. \/ ApplyEvent(m, e).threads[t] = old
              \/ ApplyEvent(m, e).threads[t] = [old EXCEPT !.plans = S]
          BY <1>1, <5>1
        <5> QED
          BY <5>2
      <4>2. CASE e.type = "thread.reverted"
        <5> DEFINE S == Newest(m.threads[e.thread].plans \ e.plans)
        <5>1. ApplyEvent(m, e)
                = UpdateThread(m, e.thread, [m.threads[e.thread] EXCEPT !.plans = S])
          BY <4>2 DEF ApplyEvent
        <5> HIDE DEF S
        <5>2. \/ ApplyEvent(m, e).threads[t] = old
              \/ ApplyEvent(m, e).threads[t] = [old EXCEPT !.plans = S]
          BY <1>1, <5>1
        <5> QED
          BY <5>2
      <4> QED
        BY <1>6, <4>1, <4>2 DEF PlanEvents
    <3>2. \A S : LET new == [old EXCEPT !.plans = S]
                 IN new.state = old.state /\ new.project = old.project
                    /\ new.archived = old.archived
      BY <1>t DEF ThreadRow
    <3> HIDE DEF old
    <3>3. RowOf(ApplyEvent(m, e).threads[t]) = RowOf(old)
      BY <3>1, <3>2 DEF RowOf
    <3> QED
      BY <3>3 DEF old
  <2> QED
    BY <2>1, <2>2
<1>7. CASE e.type \in ProjectEvents
  <2>1. ApplyEvent(m, e).threads = m.threads
    BY <1>m, <1>7 DEF ApplyEvent, ProjectEvents
  <2>2. RowAfter(RowOf(m.threads[t]), e) = RowOf(m.threads[t])
    BY <1>7 DEF RowAfter, ProjectEvents
  <2> QED
    BY <2>1, <2>2
<1>8. CASE e.type \notin ProjectEvents \cup PlanEvents \cup RowEvents \cup {"thread.created"}
  BY <1>8 DEF ApplyEvent, RowAfter, ProjectEvents, PlanEvents, RowEvents
<1> QED
  BY <1>2, <1>3, <1>4, <1>5, <1>6, <1>7, <1>8 DEF ProjectEvents, PlanEvents, RowEvents

(* What memory still holds of a thread's plans: what it held, but for those a  *)
(* revert takes by the checkpoints, and the one an upsert brings.  The cap     *)
(* takes more, and brings none.                                                *)
LEMMA MemoryPlansStep ==
    ASSUME NEW m \in ReadModel, NEW e \in Payload, NEW t \in ThreadId, TidyMemory(m),
           NEW p \in ApplyEvent(m, e).threads[t].plans
    PROVE  \/ p \in m.threads[t].plans /\ (e.thread = t /\ e.type = "thread.reverted"
                                             => p \notin e.plans)
           \/ /\ e.thread = t /\ e.type = "thread.proposed-plan-upserted" /\ p \in e.plans
              /\ m.threads[t].state # "absent"
<1>m. /\ m = [projects |-> m.projects, threads |-> m.threads]
      /\ m.threads \in [ThreadId -> ThreadRow]
  BY DEF ReadModel
<1>1. \A row : UpdateThread(m, e.thread, row).threads[t] =
                  IF e.thread = t /\ m.threads[t].state # "absent" THEN row ELSE m.threads[t]
  BY <1>m DEF UpdateThread, HasThread
<1>t. m.threads[t] \in ThreadRow /\ (m.threads[t].state = "absent" => m.threads[t].plans = {})
  BY <1>m DEF TidyMemory
<1>n. \A S : Newest(S) \subseteq S
  BY DEF Newest
<1>2. CASE e.type = "thread.created"
  BY <1>m, <1>2 DEF ApplyEvent, AbsentThread
<1>3. CASE e.type \in RowEvents
  BY <1>1, <1>t, <1>3 DEF ApplyEvent, ThreadRow, RowEvents
<1>4. CASE e.type = "thread.proposed-plan-upserted"
  <2>1. ASSUME e.thread = t, m.threads[t].state # "absent"
        PROVE  p \in Newest(m.threads[t].plans \cup e.plans)
    <3> DEFINE old == m.threads[t]
               new == [old EXCEPT !.plans = Newest(@ \cup e.plans)]
    <3>1. ApplyEvent(m, e).threads[t] = new
      BY <1>1, <1>4, <2>1 DEF ApplyEvent
    <3>2. new.plans = Newest(old.plans \cup e.plans)
      BY <1>t DEF ThreadRow
    <3> QED
      BY <3>1, <3>2
  <2>2. ASSUME ~(e.thread = t /\ m.threads[t].state # "absent") PROVE p \in m.threads[t].plans
    BY <1>1, <1>4, <2>2 DEF ApplyEvent
  <2> QED
    BY <1>4, <1>n, <2>1, <2>2
<1>5. CASE e.type = "thread.reverted"
  <2>1. ASSUME e.thread = t, m.threads[t].state # "absent"
        PROVE  p \in Newest(m.threads[t].plans \ e.plans)
    <3> DEFINE old == m.threads[t]
               new == [old EXCEPT !.plans = Newest(@ \ e.plans)]
    <3>1. ApplyEvent(m, e).threads[t] = new
      BY <1>1, <1>5, <2>1 DEF ApplyEvent
    <3>2. new.plans = Newest(old.plans \ e.plans)
      BY <1>t DEF ThreadRow
    <3> QED
      BY <3>1, <3>2
  <2>2. ASSUME ~(e.thread = t /\ m.threads[t].state # "absent") PROVE p \in m.threads[t].plans
    BY <1>1, <1>5, <2>2 DEF ApplyEvent
  <2> QED
    BY <1>5, <1>n, <1>t, <2>1, <2>2
<1>6. CASE e.type \in ProjectEvents
  <2>1. ApplyEvent(m, e).threads = m.threads
    BY <1>m, <1>6 DEF ApplyEvent, ProjectEvents
  <2> QED
    BY <1>6, <2>1 DEF ProjectEvents
<1>7. CASE e.type \notin ProjectEvents \cup PlanEvents \cup RowEvents \cup {"thread.created"}
  BY <1>7 DEF ApplyEvent, ProjectEvents, PlanEvents, RowEvents
<1> QED
  BY <1>2, <1>3, <1>4, <1>5, <1>6, <1>7 DEF ProjectEvents, PlanEvents, RowEvents

(* And what the tables hold: a revert takes those whose turns it takes.        *)
LEMMA TablePlansStep ==
    ASSUME NEW d \in Tables, NEW e \in Payload, NEW t \in ThreadId,
           NEW p \in PlansOf(ProjectEvent(d, e), t)
    PROVE  \/ p \in PlansOf(d, t) /\ (e.thread = t /\ e.type = "thread.reverted"
                                        => p \notin e.rows)
           \/ e.thread = t /\ e.type = "thread.proposed-plan-upserted" /\ p \in e.plans
<1>d. /\ d = [projects |-> d.projects, threads |-> d.threads, plans |-> d.plans]
      /\ d.plans \in [PlanId -> ThreadId \cup {NoId}] /\ t # NoId
  BY DeciderAssumption DEF Tables
<1>p. p \in PlanId /\ ProjectEvent(d, e).plans[p] = t
  BY DEF PlansOf
<1>1. CASE e.type = "thread.proposed-plan-upserted"
  <2>1. ProjectEvent(d, e).plans[p] = IF p \in e.plans THEN e.thread ELSE d.plans[p]
    BY <1>d, <1>p, <1>1 DEF ProjectEvent
  <2> QED
    BY <1>p, <1>1, <2>1 DEF PlansOf
<1>2. CASE e.type = "thread.reverted"
  <2>1. ProjectEvent(d, e).plans[p] =
           IF d.plans[p] = e.thread /\ p \in e.rows THEN NoId ELSE d.plans[p]
    BY <1>d, <1>p, <1>2 DEF ProjectEvent
  <2> QED
    BY <1>d, <1>p, <1>2, <2>1 DEF PlansOf
<1>3. CASE e.type \notin PlanEvents
  <2>1. ProjectEvent(d, e).plans = d.plans
    BY <1>d, <1>3 DEF ProjectEvent, UpdateRow, PlanEvents
  <2> QED
    BY <1>p, <1>3, <2>1 DEF PlansOf, PlanEvents
<1> QED
  BY <1>1, <1>2, <1>3 DEF PlanEvents

(* A thread nobody created stays absent, on both sides.                        *)
LEMMA RowIs ==
    ASSUME NEW row \in TableRow, NEW e \in Payload
    PROVE  LET new == RowAfter(row, e) IN
           /\ e.type = "thread.created" =>
                new.state # "absent" /\ new.project = e.project /\ ~new.archived
           /\ e.type # "thread.created" =>
                /\ new.state = "absent" <=> row.state = "absent"
                /\ new.project = row.project
                /\ row.state = "absent" => new = row
           /\ e.type \notin {"thread.created", "thread.archived", "thread.unarchived"} =>
                (new.archived <=> row.archived)
           /\ e.type = "thread.archived" /\ row.state # "absent" => new.archived
           /\ e.type = "thread.unarchived" /\ row.state # "absent" => ~new.archived
<1>1. CASE e.type = "thread.created"
  BY <1>1 DEF RowAfter, TableRow, AbsentRow
<1>2. CASE e.type # "thread.created" /\ row.state = "absent"
  BY <1>2 DEF RowAfter, TableRow
<1>3. CASE row.state # "absent" /\ e.type \in RowEvents
  BY <1>3 DEF RowAfter, TableRow, RowEvents
<1>4. CASE row.state # "absent" /\ e.type \notin RowEvents \cup {"thread.created"}
  BY <1>4 DEF RowAfter, RowEvents
<1> QED
  BY <1>1, <1>2, <1>3, <1>4

(* What the tables hold, a process that loads them has: rows and projects, and *)
(* all their plans.                                                            *)
LEMMA LoadIs ==
    ASSUME NEW d \in Tables, TidyTables(d)
    PROVE  /\ Agree(LoadModel(d), d) /\ TidyMemory(LoadModel(d))
           /\ \A t \in ThreadId : LoadModel(d).threads[t].plans \subseteq PlansOf(d, t)
<1>1. d.threads \in [ThreadId -> TableRow] /\ LoadModel(d).projects = d.projects
  BY DEF Tables, LoadModel
<1>2. ASSUME NEW t \in ThreadId
      PROVE  /\ d.threads[t] = RowOf(LoadModel(d).threads[t])
             /\ LoadModel(d).threads[t].state = "absent" => LoadModel(d).threads[t].plans = {}
             /\ LoadModel(d).threads[t].plans \subseteq PlansOf(d, t)
  <2>1. d.threads[t] \in TableRow
    BY <1>1
  <2>2. CASE d.threads[t].state = "absent"
    <3>1. d.threads[t] = AbsentRow /\ LoadModel(d).threads[t] = AbsentThread
      BY <2>2 DEF TidyTables, LoadModel
    <3> QED
      BY <3>1 DEF RowOf, AbsentThread, AbsentRow
  <2>3. CASE d.threads[t].state # "absent"
    <3>1. LoadModel(d).threads[t] = [state |-> d.threads[t].state, project |-> d.threads[t].project,
                                     archived |-> d.threads[t].archived, plans |-> PlansOf(d, t)]
      BY <2>3 DEF LoadModel
    <3> QED
      BY <2>1, <2>3, <3>1 DEF RowOf, TableRow
  <2> QED
    BY <2>2, <2>3
<1> QED
  BY <1>1, <1>2 DEF Agree, TidyMemory

(* Taking in an event, they still agree, and still keep nothing of a thread     *)
(* they do not hold.                                                           *)
LEMMA AgreeStep ==
    ASSUME NEW m \in ReadModel, NEW d \in Tables, NEW e \in Payload
    PROVE  /\ Agree(m, d) => Agree(ApplyEvent(m, e), ProjectEvent(d, e))
           /\ TidyTables(d) => TidyTables(ProjectEvent(d, e))
           /\ TidyMemory(m) /\ ApplyEvent(m, e) \in ReadModel => TidyMemory(ApplyEvent(m, e))
<1>1. ASSUME Agree(m, d) PROVE Agree(ApplyEvent(m, e), ProjectEvent(d, e))
  <2>1. ApplyEvent(m, e).projects = ProjectEvent(d, e).projects
    BY <1>1, ProjectsStep DEF Agree
  <2>2. ASSUME NEW t \in ThreadId
        PROVE  ProjectEvent(d, e).threads[t] = RowOf(ApplyEvent(m, e).threads[t])
    <3>1. d.threads[t] = RowOf(m.threads[t])
      BY <1>1 DEF Agree
    <3> QED
      BY <3>1, TableRowStep, MemoryRowStep
  <2> QED
    BY <2>1, <2>2 DEF Agree
<1>2. ASSUME TidyTables(d) PROVE TidyTables(ProjectEvent(d, e))
  <2>1. ASSUME NEW t \in ThreadId, ProjectEvent(d, e).threads[t].state = "absent"
        PROVE  ProjectEvent(d, e).threads[t] = AbsentRow
    <3>1. d.threads[t] \in TableRow
      BY DEF Tables
    <3>2. CASE e.thread = t
      <4> DEFINE new == RowAfter(d.threads[t], e)
      <4>1. ProjectEvent(d, e).threads[t] = new
        BY <3>2, TableRowStep
      <4>2. /\ e.type = "thread.created" => new.state # "absent"
            /\ e.type # "thread.created" =>
                 (new.state = "absent" => d.threads[t].state = "absent")
            /\ e.type # "thread.created" /\ d.threads[t].state = "absent" => new = d.threads[t]
        BY <3>1, RowIs
      <4> HIDE DEF new
      <4> QED
        BY <1>2, <2>1, <4>1, <4>2 DEF TidyTables
    <3>3. CASE e.thread # t
      <4>1. ProjectEvent(d, e).threads[t] = d.threads[t]
        BY <3>3, TableRowStep
      <4> QED
        BY <1>2, <2>1, <4>1 DEF TidyTables
    <3> QED
      BY <3>2, <3>3
  <2> QED
    BY <2>1 DEF TidyTables
<1>3. ASSUME TidyMemory(m), ApplyEvent(m, e) \in ReadModel PROVE TidyMemory(ApplyEvent(m, e))
  <2>1. ASSUME NEW t \in ThreadId, ApplyEvent(m, e).threads[t].state = "absent"
        PROVE  ApplyEvent(m, e).threads[t].plans = {}
    <3> DEFINE old == m.threads[t]
               row == ApplyEvent(m, e).threads[t]
    <3>1. old \in ThreadRow /\ row \in ThreadRow
      BY <1>3 DEF ReadModel
    <3>2. RowOf(old) \in TableRow /\ RowOf(row).state = row.state /\ RowOf(old).state = old.state
      BY <3>1 DEF RowOf, TableRow, ThreadRow
    <3>3. RowOf(row) = IF e.thread = t THEN RowAfter(RowOf(old), e) ELSE RowOf(old)
      BY MemoryRowStep
    <3>4. \A p \in row.plans : p \in old.plans \/ old.state # "absent"
      BY <1>3, MemoryPlansStep
    <3>5. row.state = "absent"
      BY <2>1
    <3> HIDE DEF row
    <3>6. old.state = "absent"
      BY <3>2, <3>3, <3>5, RowIs
    <3>7. old.plans = {}
      BY <1>3, <3>6 DEF TidyMemory
    <3>8. row.plans = {}
      BY <3>4, <3>6, <3>7
    <3> QED
      BY <3>8 DEF row
  <2> QED
    BY <2>1 DEF TidyMemory
<1> QED
  BY <1>1, <1>2, <1>3

-----------------------------------------------------------------------------
(* Along a log, for any boot.                                                 *)
PayloadAt(l, i) == l[i] \in Event /\ l[i].body \in Body /\ l[i].body \in Payload

LEMMA Payloads ==
    ASSUME NEW l \in Seq(Event)
    PROVE  Len(l) \in Nat /\ \A i \in 1 .. Len(l) : PayloadAt(l, i)
<1>1. \A i \in 1 .. Len(l) : l[i] \in Event
  BY ElementOfSeq
<1> QED
  BY <1>1, LenProperties, DeciderAssumption DEF PayloadAt, Event

\* After n events of the log a process of boot b has a memory that is a model and
\* agrees with the tables.
InStep(l, b, n) ==
    LET m == ReplayTo(b, l)[n].model
        d == ReplayTo(b, l)[n].db
    IN /\ m \in Model /\ d \in Table /\ m \in ReadModel /\ d \in Tables
       /\ TidyMemory(m) /\ TidyTables(d) /\ Agree(m, d)

(* It always does.                                                            *)
LEMMA ReplaysInStep ==
    ASSUME NEW l \in Seq(Event), NEW b \in Nat
    PROVE  \A n \in 0 .. Len(l) : InStep(l, b, n)
<1> DEFINE S == {n \in 0 .. Len(l) : InStep(l, b, n)}
<1>l. Len(l) \in Nat /\ \A i \in 1 .. Len(l) : PayloadAt(l, i)
  BY Payloads
<1>s. Model \subseteq ReadModel /\ Table \subseteq Tables
  BY DeciderAssumption
<1>a. ASSUME NEW d \in Table, TidyTables(d)
      PROVE  /\ Load(d) \in Model /\ Load(d) \in ReadModel /\ d \in Tables
             /\ TidyMemory(Load(d)) /\ Agree(Load(d), d)
  <2>1. Load(d) = LoadModel(d) /\ Load(d) \in Model /\ d \in Tables
    BY <1>s, DeciderAssumption, ProjectAssumption
  <2> QED
    BY <1>a, <1>s, <2>1, LoadIs
<1>1. 0 \in S
  <2>1. ReplayTo(b, l)[0].db = EmptyTable /\ ReplayTo(b, l)[0].model = Load(EmptyTable)
    BY ReplayToStep DEF Nothing
  <2>2. EmptyTable \in Table /\ TidyTables(EmptyTable)
    <3>1. EmptyTable = EmptyTables /\ EmptyTable \in Table
      BY DeciderAssumption, ModelAssumption
    <3> QED
      BY <3>1 DEF TidyTables, EmptyTables
  <2>3. InStep(l, b, 0)
    BY <1>a, <2>1, <2>2 DEF InStep
  <2> QED
    BY <1>l, <2>3
<1>2. ASSUME NEW n \in 0 .. Len(l), n \in S /\ n < Len(l) PROVE n + 1 \in S
  <2>n. n \in Nat /\ n + 1 \in 0 .. Len(l) /\ n + 1 \in 1 .. Len(l) /\ InStep(l, b, n)
    BY <1>2, <1>l
  <2> DEFINE m == ReplayTo(b, l)[n].model
             d == ReplayTo(b, l)[n].db
             e == l[n + 1].body
             m2 == ReplayTo(b, l)[n + 1].model
             d2 == ReplayTo(b, l)[n + 1].db
  <2>1. /\ m \in Model /\ d \in Table /\ m \in ReadModel /\ d \in Tables
        /\ TidyMemory(m) /\ TidyTables(d) /\ Agree(m, d)
    BY <2>n DEF InStep
  <2>2. e \in Body /\ e \in Payload
    BY <1>l, <2>n DEF PayloadAt
  <2>3. d2 = Project(d, e) /\ (b <= n => m2 = Apply(m, e)) /\ (n + 1 <= b => m2 = Load(d2))
    <3>1. d2 = Project(d, e) /\ (b <= n => m2 = Apply(m, e))
      BY <1>2, <2>n, ReplayEvent
    <3>2. n + 1 <= b => m2 = Load(d2)
      BY <2>n, ReplayLoads
    <3> QED
      BY <3>1, <3>2
  <2> HIDE DEF m, d, e, m2, d2
  <2>4. d2 \in Table /\ d2 \in Tables /\ d2 = ProjectEvent(d, e) /\ TidyTables(d2)
    <3>1. d2 \in Table /\ d2 = ProjectEvent(d, e)
      BY <2>1, <2>2, <2>3, DeciderAssumption, ProjectAssumption
    <3> QED
      BY <1>s, <2>1, <2>2, <3>1, AgreeStep
  <2>5. m2 \in Model /\ m2 \in ReadModel /\ TidyMemory(m2) /\ Agree(m2, d2)
    <3>1. CASE b <= n
      <4>1. m2 = ApplyEvent(m, e) /\ m2 \in Model /\ m2 \in ReadModel
        BY <1>s, <2>1, <2>2, <2>3, <3>1, DeciderAssumption, ApplyAssumption
      <4> QED
        BY <2>1, <2>2, <2>4, <4>1, AgreeStep
    <3>2. CASE n + 1 <= b
      BY <1>a, <2>3, <2>4, <3>2
    <3> QED
      BY <2>n, <3>1, <3>2
  <2>6. InStep(l, b, n + 1)
    BY <2>4, <2>5 DEF InStep, m2, d2
  <2> QED
    BY <2>n, <2>6
<1> HIDE DEF S
<1>3. \A n \in 0 .. Len(l) : n \in S
  BY <1>l, <1>1, <1>2, UpTo
<1> QED
  BY <1>3 DEF S

(* The tables do not depend on the boot.                                      *)
LEMMA SameTables ==
    ASSUME NEW l \in Seq(Event), NEW b \in Nat, NEW c \in Nat
    PROVE  \A n \in 0 .. Len(l) : ReplayTo(b, l)[n].db = ReplayTo(c, l)[n].db
<1> DEFINE S == {n \in 0 .. Len(l) : ReplayTo(b, l)[n].db = ReplayTo(c, l)[n].db}
<1>l. Len(l) \in Nat
  BY LenProperties
<1>1. 0 \in S
  BY <1>l, ReplayToStep
<1>2. ASSUME NEW n \in 0 .. Len(l), n \in S /\ n < Len(l) PROVE n + 1 \in S
  <2>1. /\ ReplayTo(b, l)[n + 1].db = Project(ReplayTo(b, l)[n].db, l[n + 1].body)
        /\ ReplayTo(c, l)[n + 1].db = Project(ReplayTo(c, l)[n].db, l[n + 1].body)
    BY <1>2, ReplayEvent
  <2> QED
    BY <1>l, <1>2, <2>1
<1> HIDE DEF S
<1>3. \A n \in 0 .. Len(l) : n \in S
  BY <1>l, <1>1, <1>2, UpTo
<1> QED
  BY <1>3 DEF S

\* The tables after n events.
TablesAt(l, n) == ReplayTo(0, l)[n].db

(* Their step, and what every memory has in common with them.                 *)
LEMMA TablesStep ==
    ASSUME NEW l \in Seq(Event)
    PROVE  /\ TablesAt(l, 0) = EmptyTables
           /\ \A n \in 0 .. Len(l) : /\ TablesAt(l, n) \in Tables
                                     /\ \A b \in Nat : /\ ReplayTo(b, l)[n].db = TablesAt(l, n)
                                                       /\ ReplayTo(b, l)[n].model \in ReadModel
                                                       /\ ReplayTo(b, l)[n].model \in Model
                                                       /\ TidyMemory(ReplayTo(b, l)[n].model)
                                                       /\ Agree(ReplayTo(b, l)[n].model, TablesAt(l, n))
           /\ \A n \in 0 .. Len(l) : n < Len(l) =>
                TablesAt(l, n + 1) = ProjectEvent(TablesAt(l, n), l[n + 1].body)
<1>l. Len(l) \in Nat /\ \A i \in 1 .. Len(l) : PayloadAt(l, i)
  BY Payloads
<1>1. TablesAt(l, 0) = EmptyTables
  BY ReplayToStep, DeciderAssumption DEF Nothing, TablesAt
<1>2. ASSUME NEW n \in 0 .. Len(l), NEW b \in Nat
      PROVE  /\ TablesAt(l, n) \in Tables /\ ReplayTo(b, l)[n].db = TablesAt(l, n)
             /\ ReplayTo(b, l)[n].model \in ReadModel /\ ReplayTo(b, l)[n].model \in Model
             /\ TidyMemory(ReplayTo(b, l)[n].model)
             /\ Agree(ReplayTo(b, l)[n].model, TablesAt(l, n))
  <2>1. ReplayTo(b, l)[n].db = TablesAt(l, n)
    BY SameTables DEF TablesAt
  <2>2. InStep(l, b, n)
    BY ReplaysInStep
  <2> QED
    BY <2>1, <2>2 DEF InStep
<1>3. ASSUME NEW n \in 0 .. Len(l), n < Len(l)
      PROVE  TablesAt(l, n + 1) = ProjectEvent(TablesAt(l, n), l[n + 1].body)
  <2>1. TablesAt(l, n + 1) = Project(TablesAt(l, n), l[n + 1].body)
    BY <1>3, ReplayEvent DEF TablesAt
  <2>2. TablesAt(l, n) \in Table /\ n + 1 \in 1 .. Len(l)
    BY <1>l, <1>3, ReplaysInStep DEF InStep, TablesAt
  <2>3. l[n + 1].body \in Body
    BY <1>l, <2>2 DEF PayloadAt
  <2> QED
    BY <2>1, <2>2, <2>3, DeciderAssumption
<1>4. 0 \in Nat
  OBVIOUS
<1> QED
  BY <1>1, <1>2, <1>3, <1>4

-----------------------------------------------------------------------------
(* A log describes its tables: what a row says of a project or a thread is    *)
(* what the first n events of the log say.                                    *)
At(l, i, t, type) == l[i].body.thread = t /\ l[i].body.type = type

DescribesProject(l, n, state, j) ==
    state # "absent" =>
        \E i \in 1 .. n : l[i].body.type = "project.created" /\ l[i].body.project = j

Unmade(l, n, row, t) ==
    row.state = "absent" =>
        /\ ~row.archived
        /\ \A i \in 1 .. n : \A type \in {"thread.created", "thread.archived", "thread.unarchived"} :
             ~At(l, i, t, type)

Made(l, n, row, t) ==
    row.state # "absent" =>
        \E i \in 1 .. n : /\ At(l, i, t, "thread.created") /\ row.project = l[i].body.project
                          /\ \A k \in 1 .. n : At(l, k, t, "thread.created") => k = i

Archived(l, n, row, t) ==
    row.archived <=>
        \E i \in 1 .. n : /\ At(l, i, t, "thread.archived")
                          /\ \A k \in i .. n : ~At(l, k, t, "thread.unarchived")

DescribesThread(l, n, row, t) ==
    Unmade(l, n, row, t) /\ Made(l, n, row, t) /\ Archived(l, n, row, t)

Describes(l, n) ==
    /\ \A j \in ProjectId : DescribesProject(l, n, TablesAt(l, n).projects[j], j)
    /\ \A t \in ThreadId : DescribesThread(l, n, TablesAt(l, n).threads[t], t)

(* A project comes into being only with its creation.                          *)
LEMMA ProjectAfter ==
    ASSUME NEW projects \in [ProjectId -> ProjectRow], NEW e \in Payload, NEW j \in ProjectId,
           ProjectsAfter(projects, e)[j] # "absent"
    PROVE  projects[j] # "absent" \/ (e.type = "project.created" /\ e.project = j)
<1>1. CASE e.type = "project.created"
  BY <1>1 DEF ProjectsAfter
<1>2. CASE e.type = "project.deleted"
  BY <1>2 DEF ProjectsAfter
<1>3. CASE e.type \notin {"project.created", "project.deleted"}
  BY <1>3 DEF ProjectsAfter
<1> QED
  BY <1>1, <1>2, <1>3

(* A legal event keeps the description of a thread.                           *)
LEMMA ThreadDescribed ==
    ASSUME NEW l, NEW n \in Nat, NEW t \in ThreadId, NEW row \in TableRow, NEW e \in Payload,
           e = l[n + 1].body, DescribesThread(l, n, row, t),
           e.thread = t =>
             /\ e.type = "thread.created" => row.state = "absent"
             /\ e.type \in {"thread.archived", "thread.unarchived"} => row.state # "absent"
    PROVE  DescribesThread(l, n + 1, IF e.thread = t THEN RowAfter(row, e) ELSE row, t)
<1> DEFINE new == IF e.thread = t THEN RowAfter(row, e) ELSE row
           type == e.type
<1>n. \A i : i \in 1 .. n + 1 <=> i \in 1 .. n \/ i = n + 1
  OBVIOUS
<1>k. \A i \in 1 .. n : \A k : k \in i .. n + 1 <=> k \in i .. n \/ k = n + 1
  OBVIOUS
<1>o. \A k : k \in n + 1 .. n + 1 <=> k = n + 1
  OBVIOUS
<1>e. \A x : At(l, n + 1, t, x) <=> e.thread = t /\ e.type = x
  BY DEF At
<1>d. Unmade(l, n, row, t) /\ Made(l, n, row, t) /\ Archived(l, n, row, t)
  BY DEF DescribesThread
<1>1. CASE e.thread # t
  <2>1. Unmade(l, n + 1, row, t)
    BY <1>1, <1>d, <1>n, <1>e DEF Unmade
  <2>2. Made(l, n + 1, row, t)
    <3>1. ASSUME row.state # "absent"
          PROVE  \E i \in 1 .. n + 1 :
                   /\ At(l, i, t, "thread.created") /\ row.project = l[i].body.project
                   /\ \A k \in 1 .. n + 1 : At(l, k, t, "thread.created") => k = i
      BY <1>1, <1>d, <1>n, <1>e, <3>1 DEF Made
    <3> QED
      BY <3>1 DEF Made
  <2>3. Archived(l, n + 1, row, t)
    BY <1>1, <1>d, <1>n, <1>k, <1>e DEF Archived
  <2> QED
    BY <1>1, <2>1, <2>2, <2>3 DEF DescribesThread
<1>2. CASE e.thread = t
  <2> DEFINE after == RowAfter(row, e)
  <2>i. /\ e.type = "thread.created" =>
             after.state # "absent" /\ after.project = e.project /\ ~after.archived
        /\ e.type # "thread.created" =>
             /\ after.state = "absent" <=> row.state = "absent"
             /\ after.project = row.project
             /\ row.state = "absent" => after = row
        /\ e.type \notin {"thread.created", "thread.archived", "thread.unarchived"} =>
             (after.archived <=> row.archived)
        /\ e.type = "thread.archived" /\ row.state # "absent" => after.archived
        /\ e.type = "thread.unarchived" /\ row.state # "absent" => ~after.archived
    BY RowIs
  <2> HIDE DEF after
  <2>1. Unmade(l, n + 1, after, t)
    <3>1. ASSUME after.state = "absent"
          PROVE  /\ row.state = "absent" /\ after = row
                 /\ e.type \notin {"thread.created", "thread.archived", "thread.unarchived"}
      BY <1>2, <2>i, <3>1
    <3> QED
      BY <1>d, <1>n, <1>e, <3>1 DEF Unmade
  <2>2. Made(l, n + 1, after, t)
    <3>1. CASE e.type = "thread.created"
      <4>1. \A k \in 1 .. n + 1 : At(l, k, t, "thread.created") => k = n + 1
        BY <1>2, <1>d, <1>n, <3>1 DEF Unmade
      <4>2. At(l, n + 1, t, "thread.created") /\ after.project = l[n + 1].body.project
        BY <1>2, <1>e, <2>i, <3>1
      <4> QED
        BY <1>n, <4>1, <4>2 DEF Made
    <3>2. CASE e.type # "thread.created"
      <4>1. ASSUME after.state # "absent"
            PROVE  \E i \in 1 .. n + 1 :
                     /\ At(l, i, t, "thread.created") /\ after.project = l[i].body.project
                     /\ \A k \in 1 .. n + 1 : At(l, k, t, "thread.created") => k = i
        <5>1. row.state # "absent" /\ after.project = row.project
          BY <2>i, <3>2, <4>1
        <5> QED
          BY <1>d, <1>n, <1>e, <3>2, <5>1 DEF Made
      <4> QED
        BY <4>1 DEF Made
    <3> QED
      BY <3>1, <3>2
  <2>3. Archived(l, n + 1, after, t)
    <3>1. CASE e.type = "thread.created"
      BY <1>2, <1>d, <1>n, <1>e, <2>i, <3>1 DEF Archived, Unmade
    <3>2. CASE e.type = "thread.archived"
      <4>1. after.archived /\ At(l, n + 1, t, "thread.archived")
        BY <1>2, <1>e, <2>i, <3>2
      <4>2. ~At(l, n + 1, t, "thread.unarchived")
        BY <1>e, <3>2
      <4> QED
        BY <1>n, <1>o, <4>1, <4>2 DEF Archived
    <3>3. CASE e.type = "thread.unarchived"
      <4>1. ~after.archived /\ At(l, n + 1, t, "thread.unarchived")
        BY <1>2, <1>e, <2>i, <3>3
      <4>2. \A i \in 1 .. n + 1 : n + 1 \in i .. n + 1
        OBVIOUS
      <4> QED
        BY <4>1, <4>2 DEF Archived
    <3>4. CASE e.type \notin {"thread.created", "thread.archived", "thread.unarchived"}
      BY <1>d, <1>n, <1>k, <1>e, <2>i, <3>4 DEF Archived
    <3> QED
      BY <3>1, <3>2, <3>3, <3>4
  <2> QED
    BY <1>2, <2>1, <2>2, <2>3 DEF DescribesThread, after
<1> QED
  BY <1>1, <1>2

(* What memory would be told of a thread or project, the tables are.            *)
LEMMA LegalForTables ==
    ASSUME NEW m \in ReadModel, NEW d, Agree(m, d), NEW e \in Payload, LegalEvent(m, e)
    PROVE  /\ e.type = "thread.created" =>
                /\ e.thread \in ThreadId => d.threads[e.thread].state = "absent"
                /\ e.project \in ProjectId => d.projects[e.project] # "absent"
           /\ e.type \in {"thread.archived", "thread.unarchived"} /\ e.thread \in ThreadId =>
                /\ d.threads[e.thread].state # "absent"
                /\ d.threads[e.thread].archived <=> e.type = "thread.unarchived"
<1>1. ASSUME NEW t \in ThreadId
      PROVE  /\ d.threads[t].state = m.threads[t].state
             /\ d.threads[t].archived <=> m.threads[t].archived
  <2>1. m.threads[t] \in ThreadRow /\ d.threads[t] = RowOf(m.threads[t])
    BY DEF Agree, ReadModel
  <2> QED
    BY <2>1 DEF RowOf, ThreadRow
<1>2. d.projects = m.projects
  BY DEF Agree
<1> QED
  BY <1>1, <1>2 DEF LegalEvent, HasProject, HasThread, ThreadArchived, ThreadNotArchived

(* A legal log describes its tables, after every number of events.             *)
LEMMA LogDescribes ==
    ASSUME NEW l \in Seq(Event), LegalLog(l)
    PROVE  \A n \in 0 .. Len(l) : Describes(l, n)
<1> DEFINE S == {n \in 0 .. Len(l) : Describes(l, n)}
<1>l. Len(l) \in Nat /\ \A i \in 1 .. Len(l) : PayloadAt(l, i)
  BY Payloads
<1>1. 0 \in S
  <2> DEFINE d == EmptyTables
  <2>1. \A j \in ProjectId : d.projects[j] = "absent"
    BY DEF EmptyTables
  <2>2. \A t \in ThreadId : d.threads[t] = AbsentRow
    BY DEF EmptyTables
  <2>3. \A t \in ThreadId : DescribesThread(l, 0, AbsentRow, t)
    BY DEF DescribesThread, Unmade, Made, Archived, AbsentRow
  <2>4. TablesAt(l, 0) = d
    BY TablesStep
  <2> HIDE DEF d
  <2>5. Describes(l, 0)
    BY <2>1, <2>2, <2>3, <2>4 DEF Describes, DescribesProject
  <2> QED
    BY <1>l, <2>5
<1>2. ASSUME NEW n \in 0 .. Len(l), n \in S /\ n < Len(l) PROVE n + 1 \in S
  <2>n. n \in Nat /\ n + 1 \in 1 .. Len(l) /\ n + 1 - 1 = n /\ n + 1 \in 0 .. Len(l)
    BY <1>l, <1>2
  <2> DEFINE d == TablesAt(l, n)
             e == l[n + 1].body
             next == TablesAt(l, n + 1)
  <2>1. /\ d \in Tables /\ next = ProjectEvent(d, e) /\ e \in Payload
        /\ \A j \in ProjectId : DescribesProject(l, n, d.projects[j], j)
        /\ \A t \in ThreadId : DescribesThread(l, n, d.threads[t], t)
    <3>1. e \in Payload
      BY <1>l, <2>n DEF PayloadAt
    <3>2. d \in Tables /\ next = ProjectEvent(d, e)
      BY <1>2, TablesStep
    <3>3. Describes(l, n)
      BY <1>2
    <3> QED
      BY <3>1, <3>2, <3>3 DEF Describes
  <2>2. PICK b \in 0 .. n : LegalEvent(ReplayTo(b, l)[n].model, e)
    BY <2>n DEF LegalLog
  <2>3. ReplayTo(b, l)[n].model \in ReadModel /\ Agree(ReplayTo(b, l)[n].model, d)
    <3>1. b \in Nat
      BY <2>n
    <3> QED
      BY <1>2, <3>1, TablesStep
  <2>4. /\ e.type = "thread.created" =>
             (e.thread \in ThreadId => d.threads[e.thread].state = "absent")
        /\ e.type \in {"thread.archived", "thread.unarchived"} /\ e.thread \in ThreadId =>
             d.threads[e.thread].state # "absent"
    BY <2>1, <2>2, <2>3, LegalForTables
  <2> HIDE DEF d, next
  <2>5. ASSUME NEW j \in ProjectId PROVE DescribesProject(l, n + 1, next.projects[j], j)
    <3>1. ASSUME next.projects[j] # "absent"
          PROVE  \E i \in 1 .. n + 1 :
                   l[i].body.type = "project.created" /\ l[i].body.project = j
      <4>1. d.projects \in [ProjectId -> ProjectRow] /\ EmptyReadModel \in ReadModel
        BY <2>1 DEF Tables, ReadModel, EmptyReadModel, ProjectRow, ThreadRow, AbsentThread
      <4>2. next.projects = ProjectsAfter(d.projects, e)
        BY <2>1, <4>1, ProjectsStep
      <4>3. d.projects[j] # "absent" \/ (e.type = "project.created" /\ e.project = j)
        BY <2>1, <3>1, <4>1, <4>2, ProjectAfter
      <4>4. n + 1 \in 1 .. n + 1 /\ \A i \in 1 .. n : i \in 1 .. n + 1
        BY <2>n
      <4> QED
        BY <2>1, <4>3, <4>4 DEF DescribesProject
    <3> QED
      BY <3>1 DEF DescribesProject
  <2>6. ASSUME NEW t \in ThreadId PROVE DescribesThread(l, n + 1, next.threads[t], t)
    <3>1. next.threads[t] = IF e.thread = t THEN RowAfter(d.threads[t], e) ELSE d.threads[t]
      BY <2>1, TableRowStep
    <3>2. d.threads[t] \in TableRow /\ DescribesThread(l, n, d.threads[t], t)
      BY <2>1 DEF Tables
    <3>3. e.thread = t =>
             /\ e.type = "thread.created" => d.threads[t].state = "absent"
             /\ e.type \in {"thread.archived", "thread.unarchived"} => d.threads[t].state # "absent"
      BY <2>4
    <3>4. e \in Payload
      BY <2>1
    <3> HIDE DEF e
    <3>5. e = l[n + 1].body
      BY DEF e
    <3>6. DescribesThread(l, n + 1, IF e.thread = t THEN RowAfter(d.threads[t], e)
                                      ELSE d.threads[t], t)
      BY <2>n, <3>2, <3>3, <3>4, <3>5, ThreadDescribed
    <3> QED
      BY <3>1, <3>6
  <2>7. Describes(l, n + 1)
    BY <2>5, <2>6 DEF Describes, next
  <2> QED
    BY <2>n, <2>7
<1> HIDE DEF S
<1>3. \A n \in 0 .. Len(l) : n \in S
  BY <1>l, <1>1, <1>2, UpTo
<1> QED
  BY <1>3 DEF S

-----------------------------------------------------------------------------
(* The plans of a thread in a process of boot b: each was upserted, and no      *)
(* revert since took it.                                                       *)
Taken(b, k, e) == IF k <= b THEN e.rows ELSE e.plans

Planned(l, b, n, plans, t) ==
    \A p \in plans :
        \E i \in 1 .. n : /\ At(l, i, t, "thread.proposed-plan-upserted") /\ p \in l[i].body.plans
                          /\ \A k \in i .. n : At(l, k, t, "thread.reverted") =>
                                                 p \notin Taken(b, k, l[k].body)

(* One more event.                                                            *)
LEMMA PlannedStep ==
    ASSUME NEW l, NEW b, NEW n \in Nat, NEW t, NEW old, NEW new, Planned(l, b, n, old, t),
           NEW e, e = l[n + 1].body,
           \A p \in new :
             \/ p \in old /\ (e.thread = t /\ e.type = "thread.reverted" => p \notin Taken(b, n + 1, e))
             \/ e.thread = t /\ e.type = "thread.proposed-plan-upserted" /\ p \in e.plans
    PROVE  Planned(l, b, n + 1, new, t)
<1>n. \A i \in 1 .. n : i \in 1 .. n + 1 /\ \A k \in i .. n + 1 : k \in i .. n \/ k = n + 1
  OBVIOUS
<1>o. n + 1 \in 1 .. n + 1 /\ \A k \in n + 1 .. n + 1 : k = n + 1
  OBVIOUS
<1>e. \A x : At(l, n + 1, t, x) <=> e.thread = t /\ e.type = x
  BY DEF At
<1>1. ASSUME NEW p \in new
      PROVE  \E i \in 1 .. n + 1 :
               /\ At(l, i, t, "thread.proposed-plan-upserted") /\ p \in l[i].body.plans
               /\ \A k \in i .. n + 1 : At(l, k, t, "thread.reverted") =>
                                          p \notin Taken(b, k, l[k].body)
  <2>1. CASE e.thread = t /\ e.type = "thread.proposed-plan-upserted" /\ p \in e.plans
    BY <1>o, <1>e, <2>1
  <2>2. CASE p \in old /\ (e.thread = t /\ e.type = "thread.reverted" => p \notin Taken(b, n + 1, e))
    <3>1. PICK i \in 1 .. n :
             /\ At(l, i, t, "thread.proposed-plan-upserted") /\ p \in l[i].body.plans
             /\ \A k \in i .. n : At(l, k, t, "thread.reverted") => p \notin Taken(b, k, l[k].body)
      BY <2>2 DEF Planned
    <3> QED
      BY <1>n, <1>e, <2>2, <3>1
  <2> QED
    BY <1>1, <2>1, <2>2
<1> QED
  BY <1>1 DEF Planned

(* What a log says of a thread's plans, in the tables until the boot and in the *)
(* memory of the process at all times.                                         *)
PlansDescribed(l, b, n) ==
    \A t \in ThreadId :
        /\ n <= b => Planned(l, b, n, PlansOf(TablesAt(l, n), t), t)
        /\ Planned(l, b, n, ReplayTo(b, l)[n].model.threads[t].plans, t)

LEMMA LogDescribesPlans ==
    ASSUME NEW l \in Seq(Event), NEW b \in Nat
    PROVE  \A n \in 0 .. Len(l) : PlansDescribed(l, b, n)
<1> DEFINE S == {n \in 0 .. Len(l) : PlansDescribed(l, b, n)}
<1>l. Len(l) \in Nat /\ \A i \in 1 .. Len(l) : PayloadAt(l, i)
  BY Payloads
<1>a. ASSUME NEW n \in 0 .. Len(l), n <= b, NEW t \in ThreadId,
             Planned(l, b, n, PlansOf(TablesAt(l, n), t), t)
      PROVE  Planned(l, b, n, ReplayTo(b, l)[n].model.threads[t].plans, t)
  <2>1. ReplayTo(b, l)[n].model = Load(ReplayTo(b, l)[n].db)
    BY <1>a, ReplayLoads
  <2>2. ReplayTo(b, l)[n].db = TablesAt(l, n)
    BY TablesStep
  <2>3. /\ TablesAt(l, n) \in Table /\ TablesAt(l, n) \in Tables /\ TidyTables(TablesAt(l, n))
    BY <2>2, ReplaysInStep DEF InStep
  <2>4. ReplayTo(b, l)[n].model = LoadModel(TablesAt(l, n))
    BY <2>1, <2>2, <2>3, DeciderAssumption
  <2>5. ReplayTo(b, l)[n].model.threads[t].plans \subseteq PlansOf(TablesAt(l, n), t)
    BY <2>3, <2>4, LoadIs
  <2> QED
    BY <1>a, <2>5 DEF Planned
<1>1. 0 \in S
  <2>1. TablesAt(l, 0) = EmptyTables /\ 0 \in 0 .. Len(l)
    BY <1>l, TablesStep
  <2>2. ASSUME NEW t \in ThreadId PROVE Planned(l, b, 0, PlansOf(TablesAt(l, 0), t), t)
    <3>1. PlansOf(EmptyTables, t) = {}
      BY DeciderAssumption DEF PlansOf, EmptyTables
    <3> QED
      BY <2>1, <3>1 DEF Planned
  <2>3. PlansDescribed(l, b, 0)
    BY <1>a, <2>1, <2>2 DEF PlansDescribed
  <2> QED
    BY <2>1, <2>3
<1>2. ASSUME NEW n \in 0 .. Len(l), n \in S /\ n < Len(l) PROVE n + 1 \in S
  <2>n. n \in Nat /\ n + 1 \in 1 .. Len(l) /\ n + 1 \in 0 .. Len(l) /\ PlansDescribed(l, b, n)
    BY <1>l, <1>2
  <2> DEFINE e == l[n + 1].body
             m == ReplayTo(b, l)[n].model
             m2 == ReplayTo(b, l)[n + 1].model
  <2>1. e \in Payload /\ e \in Body
    BY <1>l, <2>n DEF PayloadAt
  <2>2. e = l[n + 1].body
    OBVIOUS
  <2>3. ASSUME NEW t \in ThreadId, n + 1 <= b
        PROVE  Planned(l, b, n + 1, PlansOf(TablesAt(l, n + 1), t), t)
    <3> DEFINE d == TablesAt(l, n)
    <3>1. d \in Tables /\ TablesAt(l, n + 1) = ProjectEvent(d, e)
      BY <1>2, TablesStep
    <3>2. Planned(l, b, n, PlansOf(d, t), t)
      BY <2>n, <2>3 DEF PlansDescribed
    <3>3. Taken(b, n + 1, e) = e.rows
      BY <2>3 DEF Taken
    <3> HIDE DEF d, e
    <3>4. \A p \in PlansOf(ProjectEvent(d, e), t) :
             \/ p \in PlansOf(d, t) /\ (e.thread = t /\ e.type = "thread.reverted"
                                          => p \notin Taken(b, n + 1, e))
             \/ e.thread = t /\ e.type = "thread.proposed-plan-upserted" /\ p \in e.plans
      BY <2>1, <3>1, <3>3, TablePlansStep
    <3> QED
      BY <2>n, <2>2, <3>1, <3>2, <3>4, PlannedStep
  <2>4. ASSUME NEW t \in ThreadId, b <= n PROVE Planned(l, b, n + 1, m2.threads[t].plans, t)
    <3>1. m \in ReadModel /\ m \in Model /\ TidyMemory(m) /\ m2 = ApplyEvent(m, e)
      <4>1. m \in ReadModel /\ m \in Model /\ TidyMemory(m)
        BY <1>2, TablesStep
      <4>2. m2 = Apply(m, e)
        BY <1>2, <2>n, <2>4, ReplayEvent
      <4> QED
        BY <2>1, <4>1, <4>2, DeciderAssumption
    <3>2. Planned(l, b, n, m.threads[t].plans, t)
      BY <2>n DEF PlansDescribed
    <3>3. Taken(b, n + 1, e) = e.plans
      BY <2>n, <2>4 DEF Taken
    <3> HIDE DEF m, m2, e
    <3>4. \A p \in ApplyEvent(m, e).threads[t].plans :
             \/ p \in m.threads[t].plans /\ (e.thread = t /\ e.type = "thread.reverted"
                                               => p \notin Taken(b, n + 1, e))
             \/ e.thread = t /\ e.type = "thread.proposed-plan-upserted" /\ p \in e.plans
      BY <2>1, <3>1, <3>3, MemoryPlansStep
    <3> QED
      BY <2>n, <2>2, <3>1, <3>2, <3>4, PlannedStep
  <2>5. ASSUME NEW t \in ThreadId PROVE Planned(l, b, n + 1, m2.threads[t].plans, t)
    <3>1. CASE n + 1 <= b
      BY <1>a, <2>n, <2>3, <3>1
    <3>2. CASE b <= n
      BY <2>4, <3>2
    <3> QED
      BY <2>n, <3>1, <3>2
  <2>6. PlansDescribed(l, b, n + 1)
    BY <2>3, <2>5 DEF PlansDescribed
  <2> QED
    BY <2>n, <2>6
<1> HIDE DEF S
<1>3. \A n \in 0 .. Len(l) : n \in S
  BY <1>l, <1>1, <1>2, UpTo
<1> QED
  BY <1>3 DEF S

-----------------------------------------------------------------------------
(* Commands other than the five the decider treats on their own make one event *)
(* of a type that needs no more than its thread or project.                    *)
LEMMA OtherEvents ==
    ASSUME NEW type, type \in {r[1] : r \in ThreadCommands \cup ProjectCommands}
    PROVE  \E x :
             /\ EventTypesOf(type) = <<x>>
             /\ x \notin {"thread.created", "thread.archived", "thread.unarchived",
                          "thread.turn-start-requested"}
<1> DEFINE C == ThreadCommands \cup ProjectCommands
           special == {"thread.created", "thread.archived", "thread.unarchived",
                       "thread.turn-start-requested"}
<1>1. \A r \in C : r[2] \notin special
  BY DEF ThreadCommands, ProjectCommands
<1>2. \A r \in C : r[1] \notin {"project.create", "thread.create", "thread.archive",
                               "thread.unarchive", "thread.turn.start"}
  BY DEF ThreadCommands, ProjectCommands
<1> HIDE DEF C, special
<1>3. PICK r \in C : r[1] = type
  BY DEF C
<1> DEFINE chosen == CHOOSE q \in C : q[1] = type
<1>4. chosen \in C /\ chosen[1] = type
  BY <1>3
<1>5. EventTypesOf(type) = <<chosen[2]>>
  BY <1>2, <1>3 DEF EventTypesOf, C
<1> HIDE DEF chosen
<1> QED
  BY <1>1, <1>4, <1>5 DEF special

(* What a command was decided to do is legal, event after event: only a turn   *)
(* start has two, and its first changes no row.                               *)
LEMMA DecidedIsLegal ==
    ASSUME NEW m \in Model, NEW c \in Command, AcceptsCommand(m, c),
           NEW s \in Seq(Body), s = EventsOfCommand(m, c)
    PROVE  /\ Len(s) \in {1, 2}
           /\ \A k \in 1 .. Len(s) : LegalEvent(m, s[k])
           /\ Len(s) = 2 => ApplyEvent(m, s[1]) = m
<1> DEFINE b == CommandBody[c]
           types == EventTypesOf(b.type)
<1>b. /\ b \in [type : STRING, project : ProjectId, thread : {NoId} \cup ThreadId,
                plans : SUBSET PlanId, rows : SUBSET PlanId, source : {<<>>} \cup (ThreadId \X PlanId)]
  BY DeciderAssumption DEF Payload, ProjectBodies, ThreadBodies
<1>s. /\ s = [k \in 1 .. Len(types) |-> [b EXCEPT !.type = types[k]]]
      /\ Len(s) \in Nat /\ DOMAIN s = 1 .. Len(s)
  BY LenProperties DEF EventsOfCommand
<1>e. ASSUME NEW x PROVE LET e == [b EXCEPT !.type = x] IN
        /\ e.type = x /\ e.project = b.project /\ e.thread = b.thread /\ e.source = b.source
  BY <1>b
<1> HIDE DEF b
<1>i. ASSUME NEW n \in Nat, 1 .. Len(s) = 1 .. n PROVE Len(s) = n
  <2>1. PICK a \in Nat : a = Len(s)
    BY <1>s
  <2>2. \A i \in Int : i \in 1 .. a <=> i \in 1 .. n
    BY <1>i, <2>1
  <2>3. a = n
    BY <2>2
  <2> QED
    BY <2>1, <2>3
<1>o. ASSUME NEW x, types = <<x>> PROVE Len(s) = 1 /\ s[1] = [b EXCEPT !.type = x]
  <2>1. Len(types) = 1 /\ types[1] = x
    BY <1>o
  <2>2. 1 .. Len(s) = 1 .. 1
    BY <1>s, <2>1
  <2> HIDE DEF types
  <2>3. Len(s) = 1
    BY <1>i, <2>2
  <2> QED
    BY <1>s, <2>1, <2>3
<1>1. CASE b.type = "thread.turn.start"
  <2>1. types = <<"thread.message-sent", "thread.turn-start-requested">>
    BY <1>1 DEF EventTypesOf
  <2>2. Len(types) = 2 /\ types[1] = "thread.message-sent" /\ types[2] = "thread.turn-start-requested"
    BY <2>1
  <2> HIDE DEF types
  <2>3. 1 .. Len(s) = 1 .. 2
    BY <1>s, <2>2
  <2>4. Len(s) = 2
    BY <1>i, <2>3
  <2>5. /\ s[1] = [b EXCEPT !.type = "thread.message-sent"]
        /\ s[2] = [b EXCEPT !.type = "thread.turn-start-requested"]
    BY <1>s, <2>2, <2>4
  <2>6. HasThread(m, b.thread) /\ SourcePlanOK(m, b)
    <3>1. b.type \notin {r[1] : r \in ThreadCommands \cup ProjectCommands}
      BY <1>1 DEF ThreadCommands, ProjectCommands
    <3> QED
      BY <1>1, <3>1 DEF AcceptsCommand, b
  <2>7. SourcePlanOK(m, s[2]) /\ HasThread(m, s[2].thread)
    BY <1>e, <2>5, <2>6 DEF SourcePlanOK
  <2>8. LegalEvent(m, s[1]) /\ LegalEvent(m, s[2])
    BY <1>e, <2>5, <2>7 DEF LegalEvent
  <2>9. ApplyEvent(m, s[1]) = m
    BY <1>e, <2>5 DEF ApplyEvent
  <2>10. \A k \in 1 .. 2 : k = 1 \/ k = 2
    OBVIOUS
  <2> QED
    BY <2>4, <2>8, <2>9, <2>10
<1>2. CASE b.type \in {r[1] : r \in ThreadCommands \cup ProjectCommands}
  <2>1. PICK x :
             /\ types = <<x>>
             /\ x \notin {"thread.created", "thread.archived", "thread.unarchived",
                          "thread.turn-start-requested"}
    BY <1>2, OtherEvents
  <2>2. Len(s) = 1 /\ s[1] = [b EXCEPT !.type = x]
    BY <1>o, <2>1
  <2>3. LegalEvent(m, s[1])
    BY <1>e, <2>1, <2>2 DEF LegalEvent
  <2> QED
    BY <2>2, <2>3
<1>3. CASE b.type = "project.create" \/ b.type = "thread.create" \/ b.type = "thread.archive"
             \/ b.type = "thread.unarchive"
  <2>1. b.type \notin {r[1] : r \in ThreadCommands} /\ b.type \notin {r[1] : r \in ProjectCommands}
    BY <1>3 DEF ThreadCommands, ProjectCommands
  <2>2. /\ b.type = "thread.create" => HasProject(m, b.project) /\ ~HasThread(m, b.thread)
        /\ b.type = "thread.archive" => ThreadNotArchived(m, b.thread)
        /\ b.type = "thread.unarchive" => ThreadArchived(m, b.thread)
    BY <2>1 DEF AcceptsCommand, b
  <2>3. /\ b.type = "project.create" => types = <<"project.created">>
        /\ b.type = "thread.create" => types = <<"thread.created">>
        /\ b.type = "thread.archive" => types = <<"thread.archived">>
        /\ b.type = "thread.unarchive" => types = <<"thread.unarchived">>
    BY DEF EventTypesOf
  <2>4. PICK x : /\ types = <<x>>
                 /\ x = "thread.created" => b.type = "thread.create"
                 /\ x = "thread.archived" => b.type = "thread.archive"
                 /\ x = "thread.unarchived" => b.type = "thread.unarchive"
                 /\ x # "thread.turn-start-requested"
    <3> HIDE DEF types
    <3> QED
      BY <1>3, <2>3
  <2>5. Len(s) = 1 /\ s[1] = [b EXCEPT !.type = x]
    BY <1>o, <2>4
  <2>6. LegalEvent(m, s[1])
    BY <1>e, <2>2, <2>4, <2>5 DEF LegalEvent
  <2> QED
    BY <2>5, <2>6
<1> QED
  BY <1>1, <1>2, <1>3 DEF AcceptsCommand, b

-----------------------------------------------------------------------------
(* The log is legal, and each event may have been decided by a process of a     *)
(* boot that its writer may have had.                                          *)
Legal ==
    \A i \in 1 .. Len(log) : \E b \in Boots(i) :
        LegalEvent(ReplayTo(b, log)[i - 1].model, log[i].body)

(* Such a boot comes before the event.                                         *)
LEMMA BootsBefore ==
    ASSUME bootSeq \in Nat, NEW i \in Nat, NEW b \in Boots(i)
    PROVE  b \in 0 .. i - 1
  BY DEF Boots

LEMMA LegalIs ==
    ASSUME log \in Seq(Event), bootSeq \in Nat, Legal
    PROVE  LegalLog(log)
<1>1. ASSUME NEW i \in 1 .. Len(log)
      PROVE  \E boot \in 0 .. i - 1 : LegalEvent(ReplayTo(boot, log)[i - 1].model, log[i].body)
  <2>1. PICK b \in Boots(i) : LegalEvent(ReplayTo(b, log)[i - 1].model, log[i].body)
    BY DEF Legal
  <2>2. b \in 0 .. i - 1
    BY BootsBefore
  <2> QED
    BY <2>1, <2>2
<1> QED
  BY <1>1 DEF LegalLog

(* The history is.                                                            *)
LEMMA LegalInit == Init => Legal
<1> SUFFICES ASSUME Init, NEW i \in 1 .. Len(log)
             PROVE  \E b \in Boots(i) : LegalEvent(ReplayTo(b, log)[i - 1].model, log[i].body)
  BY DEF Legal
<1>1. log = History /\ Boots(i) = 0 .. i - 1
  BY DEF Init, Boots, Running
<1> QED
  BY <1>1, LegalHistoryAssumption DEF LegalLog

(* Every step keeps the log legal.                                            *)
LEMMA LegalStep ==
    ASSUME TypeInv, PublishInv, ReplayInv, DecidedInv, Legal, [Next]_vars
    PROVE  Legal'
<1>t. log \in Seq(Event) /\ Len(log) \in Nat /\ log' \in Seq(Event) /\ bootSeq \in Nat
  BY TypeStep DEF TypeInv, TypeOK
<1>s. ASSUME NEW w \in Seq(Event), log' = log \o w, NEW i \in 1 .. Len(log)
      PROVE  \E b \in Boots(i)' : LegalEvent(ReplayTo(b, log')[i - 1].model, log'[i].body)
  <2>1. PICK b \in Boots(i) : LegalEvent(ReplayTo(b, log)[i - 1].model, log[i].body)
    BY DEF Legal
  <2>2. b \in Boots(i)'
    BY BootsStep
  <2>3. i - 1 \in 0 .. Len(log) /\ log'[i] = log[i]
    BY <1>t, <1>s, ConcatProperties
  <2>4. ReplayTo(b, log')[i - 1] = ReplayTo(b, log)[i - 1]
    BY <1>t, <1>s, <2>3, ReplayPrefix
  <2> QED
    BY <2>1, <2>2, <2>3, <2>4
<1>1. CASE UNCHANGED log
  <2>1. <<>> \in Seq(Event) /\ log' = log \o <<>>
    BY <1>1, <1>t, ConcatEmptySeq
  <2>2. \A i \in 1 .. Len(log) :
          \E b \in Boots(i)' : LegalEvent(ReplayTo(b, log')[i - 1].model, log'[i].body)
    BY <1>s, <2>1
  <2> QED
    BY <1>1, <2>2 DEF Legal
<1>2. ASSUME NEW c \in Command, NEW w \in Seq(Event), log' = log \o w,
             Decided(Replay(bootSeq, log).model, c, w),
             Running', bootSeq' = bootSeq, bootSeq <= Len(log)
      PROVE  Legal'
  <2>1. PICK n \in Nat, b \in Nat : n = Len(log) /\ b = bootSeq
    BY <1>t
  <2> DEFINE m == ReplayTo(b, log)[n].model
             s == EventsOf(m, c)
  <2>2. m \in Model /\ m = Replay(bootSeq, log).model
    <3>1. n \in 0 .. Len(log)
      BY <2>1
    <3> QED
      BY <1>t, <2>1, <3>1, TablesStep DEF Replay
  <2>3. /\ AcceptsCommand(m, c) /\ s \in Seq(Body) /\ s = EventsOfCommand(m, c)
        /\ Len(w) <= Len(s) /\ \A i \in 1 .. Len(w) : w[i].body = s[i]
    <3>1. Accepts(m, c) /\ Len(w) <= Len(s) /\ \A i \in 1 .. Len(w) : w[i].body = s[i]
      BY <1>2, <2>2 DEF Decided
    <3> QED
      BY <2>2, <3>1, DeciderAssumption, EventsAssumption
  <2>m. m = ReplayTo(b, log)[n].model
    OBVIOUS
  <2> HIDE DEF m, s
  <2>4. /\ Len(s) \in {1, 2} /\ \A k \in 1 .. Len(s) : LegalEvent(m, s[k])
        /\ Len(s) = 2 => ApplyEvent(m, s[1]) = m
    BY <2>2, <2>3, DecidedIsLegal
  <2>5. /\ Len(w) \in Nat /\ Len(log') = n + Len(w)
        /\ \A k \in 1 .. Len(w) : log'[n + k] = w[k]
    <3>1. Len(w) \in Nat
      BY LenProperties
    <3>2. \A k \in 1 .. Len(w) : n + k \in 1 .. n + Len(w) /\ ~(n + k <= n) /\ n + k - n = k
      BY <3>1
    <3> QED
      BY <1>2, <1>t, <2>1, <3>1, <3>2, ConcatProperties
  <2>6. ReplayTo(b, log')[n].model = m
    <3>1. n \in 0 .. Len(log)
      BY <2>1
    <3> QED
      BY <1>2, <1>t, <2>m, <3>1, ReplayPrefix
  <2>7. ASSUME NEW k \in 1 .. Len(w)
        PROVE  LegalEvent(ReplayTo(b, log')[n + k - 1].model, log'[n + k].body)
    <3>1. log'[n + k].body = s[k] /\ k \in 1 .. Len(s) /\ LegalEvent(m, s[k])
      <4>1. k \in 1 .. Len(s)
        BY <2>3, <2>4, <2>5
      <4> QED
        BY <2>3, <2>4, <2>5, <4>1
    <3>2. ReplayTo(b, log')[n + k - 1].model = m
      <4>1. CASE k = 2
        <5>1. Len(s) = 2 /\ 1 \in 1 .. Len(w) /\ n < Len(log') /\ n + 2 - 1 = n + 1
          BY <2>3, <2>4, <2>5, <4>1
        <5>2. ReplayTo(b, log')[n + 1].model
                = Apply(ReplayTo(b, log')[n].model, log'[n + 1].body)
          BY <1>2, <1>t, <2>1, <5>1, ReplayEvent
        <5>3. log'[n + 1].body = s[1] /\ s[1] \in Body
          BY <2>3, <2>5, <5>1, ElementOfSeq
        <5>4. Apply(m, s[1]) = m
          BY <2>2, <2>4, <5>1, <5>3, DeciderAssumption
        <5> QED
          BY <2>6, <4>1, <5>1, <5>2, <5>3, <5>4
      <4>2. n + 1 - 1 = n
        OBVIOUS
      <4> QED
        BY <2>4, <2>6, <3>1, <4>1, <4>2
    <3> QED
      BY <3>1, <3>2
  <2>8. ASSUME NEW i \in 1 .. n + Len(w)
        PROVE  \E a \in Boots(i)' : LegalEvent(ReplayTo(a, log')[i - 1].model, log'[i].body)
    <3>1. CASE i <= n
      <4>1. i \in 1 .. Len(log)
        BY <2>1, <3>1
      <4> QED
        BY <1>2, <1>s, <4>1
    <3>2. CASE i > n
      <4>1. PICK k \in 1 .. Len(w) : i = n + k
        <5>1. i - n \in 1 .. Len(w) /\ i = n + (i - n)
          BY <2>5, <3>2
        <5> QED
          BY <5>1
      <4>2. b \in Boots(i)'
        <5>1. (bootSeq < i)'
          BY <1>2, <2>1, <3>2
        <5> QED
          BY <1>2, <2>1, <5>1 DEF Boots
      <4>3. LegalEvent(ReplayTo(b, log')[i - 1].model, log'[i].body)
        BY <2>7, <4>1
      <4> QED
        BY <4>2, <4>3
    <3> QED
      BY <2>5, <3>1, <3>2
  <2> QED
    BY <2>5, <2>8 DEF Legal
<1> QED
  BY <1>1, <1>2, LogGrows

(* The log is legal throughout, as long as reconciliations succeed on a store   *)
(* that keeps half a transaction, and the process does not die on one.         *)
LEMMA LogStaysLegal == Recovers => (Spec => [](log \in Seq(Event) /\ bootSeq \in Nat /\ Legal))
<1> SUFFICES ASSUME Recovers
             PROVE  Spec => [](log \in Seq(Event) /\ bootSeq \in Nat /\ Legal)
  OBVIOUS
<1> DEFINE Inv == TypeInv /\ SyncInv /\ PublishInv /\ ReplayInv /\ DecidedInv /\ Legal
<1>0. Heals
  BY DEF Heals, Recovers
<1>1. Init => Inv
  BY TypeInit, SyncInit, PublishInit, ReplayInit, DecidedInit, LegalInit
<1>2. Inv /\ [Next]_vars => Inv'
  <2> SUFFICES ASSUME Inv, [Next]_vars PROVE Inv'
    OBVIOUS
  <2>1. TypeInv' /\ SyncInv' /\ PublishInv' /\ ReplayInv' /\ DecidedInv'
    BY <1>0, TypeStep, SyncStep, PublishStep, ReplayStep, DecidedStep
  <2>2. Legal'
    BY LegalStep
  <2> QED
    BY <2>1, <2>2
<1>3. Inv => log \in Seq(Event) /\ bootSeq \in Nat /\ Legal
  BY DEF TypeInv, TypeOK
<1> QED
  BY <1>1, <1>2, <1>3, PTL DEF Spec

-----------------------------------------------------------------------------
(* What a legal log means for threads and plans.                              *)

(* A nonempty set of positions has a latest.                                  *)
LEMMA LatestOf ==
    ASSUME NEW n \in Nat, NEW S \in SUBSET (1 .. n), S # {}
    PROVE  Latest(S) \in S /\ \A k \in S : k <= Latest(S)
<1> DEFINE D == {n - i : i \in S}
<1>1. D \in SUBSET Nat /\ D # {}
  <2>1. \A i \in S : n - i \in Nat
    OBVIOUS
  <2> QED
    BY <2>1
<1>2. PICK d \in D : \A y \in D : d <= y
  BY <1>1, LeastNumber
<1>3. PICK j \in S : d = n - j
  BY <1>2
<1>4. ASSUME NEW k \in S PROVE k <= j
  <2>1. n - j <= n - k
    BY <1>2, <1>3
  <2> QED
    BY <2>1
<1> QED
  BY <1>4 DEF Latest

(* The positions of a thread's events are those of the log's description.       *)
LEMMA EventsAre ==
    ASSUME log \in Seq(Event), NEW t, NEW types
    PROVE  \A i : i \in ThreadEvents(t, types) <=>
                    i \in 1 .. Len(log) /\ \E x \in types : At(log, i, t, x)
<1>1. DOMAIN log = 1 .. Len(log)
  BY LenProperties
<1> QED
  BY <1>1 DEF ThreadEvents, At

(* The description of the tables before and at each position.                  *)
LEMMA Described ==
    ASSUME log \in Seq(Event), LegalLog(log), NEW t \in ThreadId
    PROVE  /\ Len(log) \in Nat
           /\ \A n \in 0 .. Len(log) :
                /\ DescribesThread(log, n, TablesAt(log, n).threads[t], t)
                /\ TablesAt(log, n).threads[t] \in TableRow
           /\ \A i \in 1 .. Len(log) : i - 1 \in 0 .. Len(log) /\ log[i].body \in Payload
<1>1. Len(log) \in Nat /\ \A i \in 1 .. Len(log) : PayloadAt(log, i)
  BY Payloads
<1>2. \A n \in 0 .. Len(log) : Describes(log, n)
  BY LogDescribes
<1>3. \A n \in 0 .. Len(log) : TablesAt(log, n).threads[t] \in TableRow
  <2>1. \A n \in 0 .. Len(log) : TablesAt(log, n) \in Tables
    BY TablesStep
  <2> QED
    BY <2>1 DEF Tables
<1> QED
  BY <1>1, <1>2, <1>3 DEF Describes, PayloadAt

(* What a legal event finds in the tables before it.                          *)
LEMMA LegalFinds ==
    ASSUME log \in Seq(Event), LegalLog(log), NEW i \in 1 .. Len(log)
    PROVE  LET e == log[i].body
               d == TablesAt(log, i - 1)
           IN /\ e.type = "thread.created" => d.projects[e.project] # "absent"
              /\ e.type \in {"thread.archived", "thread.unarchived"} /\ e.thread \in ThreadId =>
                   /\ d.threads[e.thread].state # "absent"
                   /\ d.threads[e.thread].archived <=> e.type = "thread.unarchived"
<1> DEFINE e == log[i].body
           d == TablesAt(log, i - 1)
<1>1. Len(log) \in Nat /\ e \in Payload /\ i - 1 \in 0 .. Len(log)
  BY Payloads DEF PayloadAt
<1>2. PICK b \in 0 .. i - 1 : LegalEvent(ReplayTo(b, log)[i - 1].model, e)
  BY DEF LegalLog
<1>3. ReplayTo(b, log)[i - 1].model \in ReadModel /\ Agree(ReplayTo(b, log)[i - 1].model, d)
  <2>1. b \in Nat
    BY <1>1
  <2> QED
    BY <1>1, <2>1, TablesStep
<1>4. e.project \in ProjectId
  BY <1>1 DEF Payload, ProjectBodies, ThreadBodies
<1> HIDE DEF e, d
<1>5. /\ e.type = "thread.created" => d.projects[e.project] # "absent"
      /\ e.type \in {"thread.archived", "thread.unarchived"} /\ e.thread \in ThreadId =>
           /\ d.threads[e.thread].state # "absent"
           /\ d.threads[e.thread].archived <=> e.type = "thread.unarchived"
  BY <1>1, <1>2, <1>3, <1>4, LegalForTables
<1> QED
  BY <1>5 DEF e, d

(* A thread is created once at most.                                          *)
LEMMA MadeOnce ==
    ASSUME log \in Seq(Event), LegalLog(log), NEW t \in ThreadId,
           NEW i \in ThreadEvents(t, {"thread.created"})
    PROVE  ThreadEvents(t, {"thread.created"}) = {i}
<1> DEFINE row == TablesAt(log, Len(log)).threads[t]
<1>1. /\ i \in 1 .. Len(log) /\ At(log, i, t, "thread.created")
      /\ \A k : k \in ThreadEvents(t, {"thread.created"}) <=>
                  k \in 1 .. Len(log) /\ At(log, k, t, "thread.created")
  BY EventsAre
<1>2. DescribesThread(log, Len(log), row, t)
  BY Described
<1> HIDE DEF row
<1>3. row.state # "absent"
  BY <1>1, <1>2 DEF DescribesThread, Unmade
<1>4. \A k \in 1 .. Len(log) : At(log, k, t, "thread.created") => k = i
  BY <1>1, <1>2, <1>3 DEF DescribesThread, Made
<1> QED
  BY <1>1, <1>4

(* Lives of threads are legal.                                                *)
LEMMA LegalLives ==
    ASSUME log \in Seq(Event), LegalLog(log)
    PROVE  LifecycleIsLegal
<1> DEFINE made(t) == ThreadEvents(t, {"thread.created"})
           turns(t) == ThreadEvents(t, {"thread.archived", "thread.unarchived"})
<1>1. ASSUME NEW t \in ThreadId PROVE Cardinality(made(t)) <= 1
  <2>1. CASE made(t) = {}
    <3>1. Cardinality(made(t)) = 0
      BY <2>1, FS_EmptySet
    <3> QED
      BY <3>1
  <2>2. CASE made(t) # {}
    <3>1. PICK i \in made(t) : TRUE
      BY <2>2
    <3>2. made(t) = {i}
      BY <3>1, MadeOnce
    <3>3. Cardinality(made(t)) = 1
      BY <3>2, FS_Singleton
    <3> QED
      BY <3>3
  <2> QED
    BY <2>1, <2>2
<1>2. ASSUME NEW t \in ThreadId, NEW i \in made(t)
      PROVE  \E j \in DOMAIN log : /\ j < i /\ log[j].body.type = "project.created"
                                   /\ log[j].body.project = log[i].body.project
  <2> DEFINE e == log[i].body
             d == TablesAt(log, i - 1)
  <2>1. i \in 1 .. Len(log) /\ e.type = "thread.created"
    BY <1>2, EventsAre DEF At
  <2>2. /\ i - 1 \in 0 .. Len(log) /\ e \in Payload /\ Len(log) \in Nat
    BY <2>1, Described
  <2>3. e.project \in ProjectId /\ d.projects[e.project] # "absent"
    BY <2>1, <2>2, LegalFinds DEF Payload, ProjectBodies, ThreadBodies
  <2>4. DescribesProject(log, i - 1, d.projects[e.project], e.project)
    BY <2>2, <2>3, LogDescribes DEF Describes
  <2>5. PICK j \in 1 .. i - 1 : /\ log[j].body.type = "project.created"
                                /\ log[j].body.project = e.project
    BY <2>3, <2>4 DEF DescribesProject
  <2>6. j \in DOMAIN log /\ j < i
    BY <2>1, <2>2, LenProperties
  <2> QED
    BY <2>5, <2>6
<1>3. ASSUME NEW t \in ThreadId, NEW i \in turns(t)
      PROVE  /\ Before(i, made(t)) # {}
             /\ (log[i].body.type = "thread.unarchived") <=>
                  LET prior == Before(i, turns(t))
                  IN prior # {} /\ log[Latest(prior)].body.type = "thread.archived"
  <2> DEFINE row == TablesAt(log, i - 1).threads[t]
             prior == Before(i, turns(t))
  <2>1. /\ i \in 1 .. Len(log) /\ log[i].body.thread = t
        /\ log[i].body.type \in {"thread.archived", "thread.unarchived"}
        /\ \A k : k \in turns(t) <=> /\ k \in 1 .. Len(log)
                                     /\ \/ At(log, k, t, "thread.archived")
                                        \/ At(log, k, t, "thread.unarchived")
        /\ \A k : k \in made(t) <=> k \in 1 .. Len(log) /\ At(log, k, t, "thread.created")
    <3>1. \A k : k \in turns(t) <=> /\ k \in 1 .. Len(log)
                                    /\ \/ At(log, k, t, "thread.archived")
                                       \/ At(log, k, t, "thread.unarchived")
      BY EventsAre
    <3>2. \A k : k \in made(t) <=> k \in 1 .. Len(log) /\ At(log, k, t, "thread.created")
      BY EventsAre
    <3>3. i \in 1 .. Len(log) /\ (At(log, i, t, "thread.archived") \/ At(log, i, t, "thread.unarchived"))
      BY <1>3, <3>1
    <3> HIDE DEF made, turns
    <3> QED
      BY <3>1, <3>2, <3>3 DEF At
  <2>2. /\ Len(log) \in Nat /\ DescribesThread(log, i - 1, row, t)
        /\ row.state # "absent"
        /\ row.archived <=> log[i].body.type = "thread.unarchived"
    <3>1. i - 1 \in 0 .. Len(log)
      BY <2>1, Described
    <3>2. DescribesThread(log, i - 1, row, t) /\ Len(log) \in Nat
      BY <3>1, Described
    <3> QED
      BY <2>1, <3>2, LegalFinds
  <2> HIDE DEF row
  <2>3. \A k : k \in 1 .. i - 1 <=> k \in 1 .. Len(log) /\ k < i
    BY <2>1, <2>2
  <2>4. Before(i, made(t)) # {}
    BY <2>1, <2>2, <2>3 DEF DescribesThread, Made, Before
  <2>5. \A k : k \in prior <=> /\ k \in 1 .. i - 1
                               /\ \/ At(log, k, t, "thread.archived")
                                  \/ At(log, k, t, "thread.unarchived")
    BY <2>1, <2>3 DEF Before
  <2> HIDE DEF prior
  <2>6. ASSUME prior # {}
        PROVE  /\ Latest(prior) \in prior /\ \A k \in prior : k <= Latest(prior)
               /\ Latest(prior) \in 1 .. i - 1
    <3>1. prior \in SUBSET (1 .. i - 1) /\ i - 1 \in Nat
      BY <2>1, <2>2, <2>5
    <3> QED
      BY <2>6, <3>1, LatestOf
  <2>7. ASSUME row.archived PROVE prior # {} /\ log[Latest(prior)].body.type = "thread.archived"
    <3>1. PICK a \in 1 .. i - 1 : /\ At(log, a, t, "thread.archived")
                                  /\ \A k \in a .. i - 1 : ~At(log, k, t, "thread.unarchived")
      BY <2>2, <2>7 DEF DescribesThread, Archived
    <3>2. a \in prior
      BY <2>5, <3>1
    <3>3. Latest(prior) \in a .. i - 1
      BY <2>6, <3>1, <3>2
    <3> QED
      BY <2>5, <2>6, <3>1, <3>2, <3>3 DEF At
  <2>8. ASSUME prior # {}, log[Latest(prior)].body.type = "thread.archived" PROVE row.archived
    <3> DEFINE a == Latest(prior)
    <3>1. /\ a \in 1 .. i - 1 /\ At(log, a, t, "thread.archived")
          /\ \A k \in prior : k <= a
      BY <2>5, <2>6, <2>8 DEF At
    <3> HIDE DEF a
    <3>2. ASSUME NEW k \in a .. i - 1, At(log, k, t, "thread.unarchived") PROVE FALSE
      <4>1. k \in 1 .. i - 1 /\ k >= a
        BY <2>1, <3>1
      <4>2. k = a
        BY <2>5, <3>1, <3>2, <4>1
      <4> QED
        BY <3>1, <3>2, <4>2 DEF At
    <3> QED
      BY <2>2, <3>1, <3>2 DEF DescribesThread, Archived
  <2> QED
    BY <2>2, <2>4, <2>7, <2>8 DEF prior
<1> HIDE DEF made, turns
<1>4. \A t \in ThreadId : /\ Cardinality(made(t)) <= 1
                          /\ \A i \in made(t) : \E j \in DOMAIN log :
                               /\ j < i /\ log[j].body.type = "project.created"
                               /\ log[j].body.project = log[i].body.project
                          /\ \A i \in turns(t) :
                               /\ Before(i, made(t)) # {}
                               /\ (log[i].body.type = "thread.unarchived") <=>
                                    LET prior == Before(i, turns(t))
                                    IN prior # {} /\
                                       log[Latest(prior)].body.type = "thread.archived"
  BY <1>1, <1>2, <1>3
<1> QED
  BY <1>4 DEF LifecycleIsLegal, made, turns

(* Plans stand where they are implemented.                                    *)
LEMMA LegalPlans ==
    ASSUME log \in Seq(Event), bootSeq \in Nat, Legal
    PROVE  PlanOfTurnStands
<1> DEFINE project(t) == {log[j].body.project : j \in ThreadEvents(t, {"thread.created"})}
<1>l. LegalLog(log)
  BY LegalIs
<1>1. ASSUME NEW t \in ThreadId, NEW n \in 0 .. Len(log),
             TablesAt(log, n).threads[t].state # "absent"
      PROVE  project(t) = {TablesAt(log, n).threads[t].project}
  <2> DEFINE row == TablesAt(log, n).threads[t]
  <2>1. DescribesThread(log, n, row, t) /\ Len(log) \in Nat /\ row.state # "absent"
    BY <1>1, <1>l, Described
  <2> HIDE DEF row
  <2>2. PICK i \in 1 .. n : At(log, i, t, "thread.created") /\ row.project = log[i].body.project
    BY <2>1 DEF DescribesThread, Made
  <2>3. i \in 1 .. Len(log)
    BY <2>1
  <2>4. i \in ThreadEvents(t, {"thread.created"})
    BY <2>2, <2>3, EventsAre
  <2>5. ThreadEvents(t, {"thread.created"}) = {i}
    BY <1>l, <2>4, MadeOnce
  <2> QED
    BY <2>2, <2>5 DEF row
<1>2. ASSUME NEW i \in DOMAIN log, log[i].body.type = "thread.turn-start-requested",
             log[i].body.source # <<>>
      PROVE  LET e == log[i].body IN
             /\ project(e.thread) = project(e.source[1])
             /\ \E boot \in Boots(i),
                   j \in Before(i, ThreadEvents(e.source[1], {"thread.proposed-plan-upserted"})) :
                 /\ e.source[2] \in log[j].body.plans
                 /\ \A k \in Before(i, ThreadEvents(e.source[1], {"thread.reverted"})) :
                      k > j => e.source[2] \notin Removed(boot, k)
  <2>0. i \in 1 .. Len(log) /\ Len(log) \in Nat /\ i - 1 \in 0 .. Len(log)
    BY <1>2, LenProperties
  <2>1. PICK b \in Boots(i) : LegalEvent(ReplayTo(b, log)[i - 1].model, log[i].body)
    BY <2>0 DEF Legal
  <2> DEFINE e == log[i].body
             m == ReplayTo(b, log)[i - 1].model
             d == TablesAt(log, i - 1)
             source == e.source[1]
             plan == e.source[2]
  <2>2. b \in Nat /\ e \in Payload
    <3>1. b \in 0 .. i - 1
      BY <2>0, BootsBefore
    <3> QED
      BY <2>0, <3>1, Payloads DEF PayloadAt
  <2>3. e.thread \in ThreadId /\ source \in ThreadId
    BY <1>2, <2>2 DEF Payload, ProjectBodies, ThreadBodies
  <2>4. /\ m.threads[e.thread].state # "absent" /\ m.threads[source].state # "absent"
        /\ plan \in m.threads[source].plans
        /\ m.threads[source].project = m.threads[e.thread].project
    BY <1>2, <2>1 DEF LegalEvent, SourcePlanOK, HasThread
  <2>5. \A t \in ThreadId : /\ d.threads[t].state = m.threads[t].state
                             /\ d.threads[t].project = m.threads[t].project
    <3>1. Agree(m, d)
      BY <2>0, <2>2, TablesStep
    <3> HIDE DEF m, d
    <3> SUFFICES ASSUME NEW t \in ThreadId
                 PROVE  d.threads[t].state = m.threads[t].state
                        /\ d.threads[t].project = m.threads[t].project
      OBVIOUS
    <3>2. d.threads[t] = RowOf(m.threads[t])
      BY <3>1 DEF Agree
    <3> QED
      BY <3>2 DEF RowOf
  <2>6. Planned(log, b, i - 1, m.threads[source].plans, source)
    BY <2>0, <2>2, <2>3, LogDescribesPlans DEF PlansDescribed
  <2>7. project(e.thread) = {d.threads[e.thread].project}
        /\ project(source) = {d.threads[source].project}
    BY <1>1, <2>0, <2>3, <2>4, <2>5
  <2> HIDE DEF m, d, plan, source, project
  <2>8. PICK j \in 1 .. i - 1 :
             /\ At(log, j, source, "thread.proposed-plan-upserted") /\ plan \in log[j].body.plans
             /\ \A k \in j .. i - 1 : At(log, k, source, "thread.reverted") =>
                                        plan \notin Taken(b, k, log[k].body)
    BY <2>4, <2>6 DEF Planned
  <2>9. j \in Before(i, ThreadEvents(source, {"thread.proposed-plan-upserted"}))
    <3>1. j \in 1 .. Len(log) /\ j < i
      BY <2>0
    <3> QED
      BY <2>8, <3>1, EventsAre DEF Before
  <2>10. ASSUME NEW k \in Before(i, ThreadEvents(source, {"thread.reverted"})), k > j
         PROVE  plan \notin Removed(b, k)
    <3>1. k \in 1 .. Len(log) /\ k < i /\ At(log, k, source, "thread.reverted")
      BY EventsAre DEF Before
    <3>2. k \in j .. i - 1
      BY <2>0, <2>10, <3>1
    <3>3. plan \notin Taken(b, k, log[k].body)
      BY <2>8, <3>1, <3>2
    <3> QED
      BY <3>3 DEF Taken, Removed
  <2> QED
    BY <2>1, <2>3, <2>4, <2>5, <2>7, <2>8, <2>9, <2>10 DEF plan, source
<1> QED
  BY <1>2 DEF PlanOfTurnStands

(* With the SQL store memory and tables have taken in the same events and agree *)
(* on every project and thread, though each has its own code for what an event  *)
(* does: only a thread's plans may differ.                                     *)
THEOREM MemoryFollowsStore == Spec => []MemoryMatchesStore
<1>1. CASE ~Atomic
  <2>1. MemoryMatchesStore
    BY <1>1 DEF MemoryMatchesStore
  <2> QED
    BY <2>1, PTL
<1>2. CASE Atomic
  <2> DEFINE Inv == TypeInv /\ SyncInv /\ PublishInv /\ ReplayInv
  <2>0. Recovers /\ Heals
    BY <1>2 DEF Recovers, Heals
  <2>1. Init => Inv
    BY TypeInit, SyncInit, PublishInit, ReplayInit
  <2>2. Inv /\ [Next]_vars => Inv'
    BY <2>0, TypeStep, SyncStep, PublishStep, ReplayStep
  <2>3. Inv => MemoryMatchesStore
    <3> SUFFICES ASSUME Inv, Settled
                 PROVE  /\ snapSeq = Len(log) /\ dbSeq = Len(log)
                        /\ readModel.projects = db.projects
                        /\ \A t \in ThreadId :
                             LET row == readModel.threads[t]
                             IN db.threads[t] = [state |-> row.state, project |-> row.project,
                                                 archived |-> row.archived]
      BY DEF MemoryMatchesStore
    <3>1. snapSeq = Len(log) /\ dbSeq = Len(log) /\ Running
      BY <1>2 DEF SyncInv, Running, Settled
    <3>2. log \in Seq(Event) /\ bootSeq \in Nat /\ Len(log) \in 0 .. Len(log)
      BY LenProperties DEF TypeInv, TypeOK
    <3>3. /\ readModel = ReplayTo(bootSeq, log)[Len(log)].model
          /\ db = ReplayTo(bootSeq, log)[Len(log)].db
      BY <1>2, <3>1, <3>2 DEF ReplayInv
    <3>4. InStep(log, bootSeq, Len(log))
      BY <3>2, ReplaysInStep
    <3>5. Agree(readModel, db)
      BY <3>3, <3>4 DEF InStep
    <3>6. readModel.projects = db.projects
      BY <3>5 DEF Agree
    <3>7. ASSUME NEW t \in ThreadId
          PROVE  LET row == readModel.threads[t]
                 IN db.threads[t] = [state |-> row.state, project |-> row.project,
                                     archived |-> row.archived]
      BY <3>5, Zenon DEF Agree, RowOf
    <3> QED
      BY <3>1, <3>6, <3>7
  <2> QED
    BY <2>1, <2>2, <2>3, PTL DEF Spec
<1> QED
  BY <1>1, <1>2

(* With the SQL store, whatever fails, is retried or crashes, every thread goes *)
(* through a legal life: created once, in a project created before, archived    *)
(* only when it is not and unarchived only when it is.                         *)
THEOREM LifecycleStaysLegal == Recovers => (Spec => []LifecycleIsLegal)
<1>1. log \in Seq(Event) /\ bootSeq \in Nat /\ Legal => LifecycleIsLegal
  BY LegalIs, LegalLives
<1> QED
  BY <1>1, LogStaysLegal, PTL

(* And every turn that implements a plan started while that plan stood on its   *)
(* source thread, in the project of its own thread.                            *)
THEOREM ImplementedPlansStand == Recovers => (Spec => []PlanOfTurnStands)
<1>1. log \in Seq(Event) /\ bootSeq \in Nat /\ Legal => PlanOfTurnStands
  BY LegalPlans
<1> QED
  BY <1>1, LogStaysLegal, PTL
=============================================================================
