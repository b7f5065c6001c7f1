---------------------------- MODULE Orchestration ----------------------------
(***************************************************************************)
(* The engine running the real decider and projections, and what that      *)
(* means for the projects and threads of the log.  The configurations give *)
(* the engine's parameters Accepts, EventsOf, Apply, Project, Load, ... the *)
(* values AcceptsCommand, EventsOfCommand, ApplyEvent, ProjectEvent,        *)
(* LoadModel, ... of OrchestrationDecider.                                  *)
(***************************************************************************)
EXTENDS OrchestrationEngine, OrchestrationDecider

Payload == ProjectBodies(STRING) \cup ThreadBodies(STRING)

ASSUME DeciderAssumption ==
    /\ Command = CommandIds /\ CommandBody \in [CommandIds -> Payload]
    /\ Body \subseteq Payload /\ Model \subseteq ReadModel /\ EmptyModel = EmptyReadModel
    /\ NoId \notin ThreadId /\ Table \subseteq Tables /\ EmptyTable = EmptyTables
    /\ \A m \in Model, c \in Command :
         /\ Accepts(m, c) <=> AcceptsCommand(m, c)
         /\ Accepts(m, c) => EventsOf(m, c) = EventsOfCommand(m, c)
    /\ \A m \in Model, b \in Body : Apply(m, b) = ApplyEvent(m, b)
    /\ \A d \in Table : /\ Load(d) = LoadModel(d)
                         /\ \A b \in Body : Project(d, b) = ProjectEvent(d, b)

\* What the decider requires of the model for the events that need more than
\* their thread, and a log in which every event had it in the model of a process
\* that booted at some event before.
LegalEvent(m, e) ==
    /\ e.type = "thread.created" => HasProject(m, e.project) /\ ~HasThread(m, e.thread)
    /\ e.type = "thread.archived" => ThreadNotArchived(m, e.thread)
    /\ e.type = "thread.unarchived" => ThreadArchived(m, e.thread)
    /\ e.type = "thread.turn-start-requested" => HasThread(m, e.thread) /\ SourcePlanOK(m, e)

LegalLog(events) ==
    \A i \in 1 .. Len(events) : \E boot \in 0 .. i - 1 :
        LegalEvent(ReplayTo(boot, events)[i - 1].model, events[i].body)

\* The events of earlier boots were decided, too.
ASSUME LegalHistoryAssumption == LegalLog(History)

(* With the SQL store, memory, projected event by event since the boot, and   *)
(* the tables, projected by other code in transactions that may roll back,   *)
(* have taken in the same events and agree on every project and thread: only *)
(* the plans of a thread may differ, so only a turn that implements a plan    *)
(* may be decided otherwise after a restart (projector.ts:169-,              *)
(* ProjectionPipeline.ts:386-).                                              *)
MemoryMatchesStore ==
    Atomic /\ Settled =>
        /\ snapSeq = Len(log) /\ dbSeq = Len(log)
        /\ readModel.projects = db.projects
        /\ \A t \in ThreadId :
             LET row == readModel.threads[t]
             IN db.threads[t] = [state |-> row.state, project |-> row.project,
                                 archived |-> row.archived]

ThreadEvents(t, types) ==
    {i \in DOMAIN log : log[i].body.thread = t /\ log[i].body.type \in types}

Before(i, S) == {j \in S : j < i}
Latest(S) == CHOOSE j \in S : \A k \in S : k <= j

(* Every thread goes through a legal life in the event log, whatever was     *)
(* retried, lost or half-written: created once, in a project created before  *)
(* it; archived only when it is not, unarchived only when it is              *)
(* (decider.ts:138-237).                                                     *)
LifecycleIsLegal ==
    \A t \in ThreadId :
        LET made == ThreadEvents(t, {"thread.created"})
            turns == ThreadEvents(t, {"thread.archived", "thread.unarchived"})
        IN /\ Cardinality(made) <= 1
           /\ \A i \in made : \E j \in DOMAIN log :
                /\ j < i /\ log[j].body.type = "project.created"
                /\ log[j].body.project = log[i].body.project
           /\ \A i \in turns :
                /\ Before(i, made) # {}
                /\ (log[i].body.type = "thread.unarchived") <=>
                     LET prior == Before(i, turns)
                     IN prior # {} /\
                        log[Latest(prior)].body.type = "thread.archived"

\* The plans revert k takes from a process that boots, or does not, after it.
Removed(boot, k) == IF k <= boot THEN log[k].body.rows ELSE log[k].body.plans

(* A turn that implements a plan starts only while that plan stands on its   *)
(* source thread, in the same project as the target thread: the plan was     *)
(* upserted before, and no revert since removed it from the tables the       *)
(* process booted from or, after its boot, from its memory                   *)
(* (decider.ts:313-341).                                                     *)
PlanOfTurnStands ==
    \A i \in DOMAIN log :
        LET e == log[i].body
            project(t) == {log[j].body.project : j \in ThreadEvents(t, {"thread.created"})}
        IN e.type = "thread.turn-start-requested" /\ e.source # <<>> =>
            /\ project(e.thread) = project(e.source[1])
            /\ \E boot \in Boots(i),
                  j \in Before(i, ThreadEvents(e.source[1], {"thread.proposed-plan-upserted"})) :
                /\ e.source[2] \in log[j].body.plans
                /\ \A k \in Before(i, ThreadEvents(e.source[1], {"thread.reverted"})) :
                     k > j => e.source[2] \notin Removed(boot, k)
=============================================================================
