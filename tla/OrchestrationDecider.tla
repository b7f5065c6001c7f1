------------------------ MODULE OrchestrationDecider ------------------------
(***************************************************************************)
(* The pure core of the orchestration domain: which commands the decider   *)
(* accepts against a read model, the events each produces, and what an     *)
(* event does to what the decider looks at: in memory (projector.ts), and  *)
(* in the projection tables (ProjectionPipeline.ts), from which the next   *)
(* process loads its memory.  Rows are reduced to their existence,         *)
(* archival, deletion, project and plans; the texts, modes and timestamps  *)
(* the decider only copies are left out.                                   *)
(***************************************************************************)
EXTENDS Naturals, Sequences, FiniteSets

CONSTANTS
    ProjectId, ThreadId,
    PlanId,         \* plan ids, numbered in the order of createdAt and id
    PlanCap,        \* plans a thread keeps in memory: 200
    NoId,           \* no project or no thread
    CommandIds,     \* command ids
    CommandBody     \* what each command id asks for

ASSUME PlanAssumption == PlanId \subseteq Nat /\ PlanCap \in Nat

ProjectRow == {"absent", "live", "deleted"}
ThreadRow == [state : {"absent", "live", "deleted"},
              project : ProjectId \cup {NoId},
              archived : BOOLEAN,
              plans : SUBSET PlanId]
AbsentThread == [state |-> "absent", project |-> NoId,
                 archived |-> FALSE, plans |-> {}]

ReadModel == [projects : [ProjectId -> ProjectRow],
              threads : [ThreadId -> ThreadRow]]
EmptyReadModel == [projects |-> [j \in ProjectId |-> "absent"],
                   threads |-> [t \in ThreadId |-> AbsentThread]]

\* The tables: a plan's row names its thread, the plan's id is the key.
TableRow == [state : {"absent", "live", "deleted"},
             project : ProjectId \cup {NoId},
             archived : BOOLEAN]
AbsentRow == [state |-> "absent", project |-> NoId, archived |-> FALSE]
Tables == [projects : [ProjectId -> ProjectRow],
           threads : [ThreadId -> TableRow],
           plans : [PlanId -> ThreadId \cup {NoId}]]
EmptyTables == [projects |-> [j \in ProjectId |-> "absent"],
                threads |-> [t \in ThreadId |-> AbsentRow],
                plans |-> [p \in PlanId |-> NoId]]

\* The commands that need the thread to exist, and the one event each produces.
ThreadCommands ==
    {<<"thread.delete", "thread.deleted">>,
     <<"thread.meta.update", "thread.meta-updated">>,
     <<"thread.runtime-mode.set", "thread.runtime-mode-set">>,
     <<"thread.interaction-mode.set", "thread.interaction-mode-set">>,
     <<"thread.turn.interrupt", "thread.turn-interrupt-requested">>,
     <<"thread.approval.respond", "thread.approval-response-requested">>,
     <<"thread.user-input.respond", "thread.user-input-response-requested">>,
     <<"thread.checkpoint.revert", "thread.checkpoint-revert-requested">>,
     <<"thread.session.stop", "thread.session-stop-requested">>,
     <<"thread.session.set", "thread.session-set">>,
     <<"thread.message.assistant.delta", "thread.message-sent">>,
     <<"thread.message.assistant.complete", "thread.message-sent">>,
     <<"thread.proposed-plan.upsert", "thread.proposed-plan-upserted">>,
     <<"thread.turn.diff.complete", "thread.turn-diff-completed">>,
     <<"thread.revert.complete", "thread.reverted">>,
     <<"thread.activity.append", "thread.activity-appended">>}

ProjectCommands ==
    {<<"project.meta.update", "project.meta-updated">>,
     <<"project.delete", "project.deleted">>}

\* `plans` is the plan an upsert writes, or those whose turns a revert removes
\* by the checkpoints memory has; `rows` those whose turns it removes by the
\* turn rows the tables have; `source` is the <<thread, plan>> a turn
\* implements, or <<>>.
ProjectBodies(types) == [type : types, project : ProjectId, thread : {NoId},
                         plans : {{}}, rows : {{}}, source : {<<>>}]
ThreadBodies(types) == [type : types, project : ProjectId, thread : ThreadId,
                        plans : SUBSET PlanId, rows : SUBSET PlanId,
                        source : {<<>>} \cup (ThreadId \X PlanId)]

-----------------------------------------------------------------------------
\* requireProject and requireThread look for the row; they do not ask whether
\* it is deleted.
HasProject(m, j) == m.projects[j] # "absent"
HasThread(m, t) == m.threads[t].state # "absent"

ThreadArchived(m, t) == HasThread(m, t) /\ m.threads[t].archived
ThreadNotArchived(m, t) == HasThread(m, t) /\ ~m.threads[t].archived

\* Mutant: any thread may name the plan.
SourcePlanThere(m, b) ==
    b.source # <<>> => HasThread(m, b.source[1]) /\
                       b.source[2] \in m.threads[b.source[1]].plans

\* A turn that implements a plan names an existing plan of a thread of the
\* same project.
SourcePlanOK(m, b) ==
    b.source # <<>> =>
        /\ HasThread(m, b.source[1])
        /\ b.source[2] \in m.threads[b.source[1]].plans
        /\ m.threads[b.source[1]].project = m.threads[b.thread].project

AcceptsCommand(m, c) ==
    LET b == CommandBody[c] IN
    \/ b.type = "project.create" /\ ~HasProject(m, b.project)
    \/ b.type \in {r[1] : r \in ProjectCommands} /\ HasProject(m, b.project)
    \/ b.type = "thread.create" /\ HasProject(m, b.project)
                                /\ ~HasThread(m, b.thread)
    \/ b.type = "thread.archive" /\ ThreadNotArchived(m, b.thread)
    \/ b.type = "thread.unarchive" /\ ThreadArchived(m, b.thread)
    \/ b.type = "thread.turn.start" /\ HasThread(m, b.thread)
                                    /\ SourcePlanOK(m, b)
    \/ b.type \in {r[1] : r \in ThreadCommands} /\ HasThread(m, b.thread)

EventTypesOf(type) ==
    CASE type = "project.create" -> <<"project.created">>
      [] type = "thread.create" -> <<"thread.created">>
      [] type = "thread.archive" -> <<"thread.archived">>
      [] type = "thread.unarchive" -> <<"thread.unarchived">>
      [] type = "thread.turn.start" ->
            <<"thread.message-sent", "thread.turn-start-requested">>
      [] OTHER -> <<(CHOOSE r \in ThreadCommands \cup ProjectCommands :
                        r[1] = type)[2]>>

EventsOfCommand(m, c) ==
    LET types == EventTypesOf(CommandBody[c].type)
    IN [k \in 1 .. Len(types) |-> [CommandBody[c] EXCEPT !.type = types[k]]]

-----------------------------------------------------------------------------
(* In memory: projector.ts.                                                 *)

\* The plans memory keeps of a thread.
Newest(plans) == {p \in plans : Cardinality({q \in plans : q > p}) < PlanCap}

\* An event for a thread the model does not hold changes no row.
UpdateThread(m, t, row) ==
    IF HasThread(m, t) THEN [m EXCEPT !.threads[t] = row] ELSE m

ApplyEvent(m, e) ==
    LET old == m.threads[e.thread] IN
    CASE e.type = "project.created" -> [m EXCEPT !.projects[e.project] = "live"]
      [] e.type = "project.deleted" ->
            [m EXCEPT !.projects[e.project] =
                IF @ = "absent" THEN @ ELSE "deleted"]
      [] e.type = "thread.created" ->
            [m EXCEPT !.threads[e.thread] =
                [AbsentThread EXCEPT !.state = "live", !.project = e.project]]
      [] e.type = "thread.deleted" ->
            UpdateThread(m, e.thread, [old EXCEPT !.state = "deleted"])
      [] e.type = "thread.archived" ->
            UpdateThread(m, e.thread, [old EXCEPT !.archived = TRUE])
      [] e.type = "thread.unarchived" ->
            UpdateThread(m, e.thread, [old EXCEPT !.archived = FALSE])
      [] e.type = "thread.proposed-plan-upserted" ->
            UpdateThread(m, e.thread, [old EXCEPT !.plans = Newest(@ \cup e.plans)])
      [] e.type = "thread.reverted" ->
            UpdateThread(m, e.thread, [old EXCEPT !.plans = Newest(@ \ e.plans)])
      [] OTHER -> m

-----------------------------------------------------------------------------
(* In the tables: ProjectionPipeline.ts, and getSnapshot, which loads them.  *)

\* Mutant: no projector handles the event.
LeaveRow(d, t, row) == d

\* A projector that does not find the thread's row returns.
UpdateRow(d, t, row) ==
    IF d.threads[t].state = "absent" THEN d ELSE [d EXCEPT !.threads[t] = row]

ProjectEvent(d, e) ==
    LET old == d.threads[e.thread] IN
    CASE e.type = "project.created" -> [d EXCEPT !.projects[e.project] = "live"]
      [] e.type = "project.deleted" ->
            [d EXCEPT !.projects[e.project] =
                IF @ = "absent" THEN @ ELSE "deleted"]
      [] e.type = "thread.created" ->
            [d EXCEPT !.threads[e.thread] =
                [AbsentRow EXCEPT !.state = "live", !.project = e.project]]
      [] e.type = "thread.deleted" ->
            UpdateRow(d, e.thread, [old EXCEPT !.state = "deleted"])
      [] e.type = "thread.archived" ->
            UpdateRow(d, e.thread, [old EXCEPT !.archived = TRUE])
      [] e.type = "thread.unarchived" ->
            UpdateRow(d, e.thread, [old EXCEPT !.archived = FALSE])
      [] e.type = "thread.proposed-plan-upserted" ->
            [d EXCEPT !.plans = [p \in PlanId |->
                IF p \in e.plans THEN e.thread ELSE @[p]]]
      [] e.type = "thread.reverted" ->
            [d EXCEPT !.plans = [p \in PlanId |->
                IF @[p] = e.thread /\ p \in e.rows THEN NoId ELSE @[p]]]
      [] OTHER -> d

\* Every plan row of a thread, however many.
PlansOf(d, t) == {p \in PlanId : d.plans[p] = t}

LoadModel(d) ==
    [projects |-> d.projects,
     threads |-> [t \in ThreadId |->
        IF d.threads[t].state = "absent" THEN AbsentThread
        ELSE [state |-> d.threads[t].state, project |-> d.threads[t].project,
              archived |-> d.threads[t].archived, plans |-> PlansOf(d, t)]]]
=============================================================================
