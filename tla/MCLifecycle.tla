----------------------------- MODULE MCLifecycle -----------------------------
EXTENDS Orchestration, TLC

CONSTANTS p1, p2, t1, t2, t3, archive, unarchive, revert, implement, stray

\* A revert removes a plan from memory and from the tables.
MCBody(type, project, thread, plans, source) ==
    [type |-> type, project |-> project, thread |-> thread, plans |-> plans,
     rows |-> IF type = "thread.revert.complete" THEN plans ELSE {},
     source |-> source]

\* `implement` takes up plan 1 of t1 on t2; `stray` tries it from p2.
MCCommandBody ==
    (archive :> MCBody("thread.archive", p1, t1, {}, <<>>)) @@
    (unarchive :> MCBody("thread.unarchive", p1, t1, {}, <<>>)) @@
    (revert :> MCBody("thread.revert.complete", p1, t1, {1}, <<>>)) @@
    (implement :> MCBody("thread.turn.start", p1, t2, {}, <<t1, 1>>)) @@
    (stray :> MCBody("thread.turn.start", p2, t3, {}, <<t1, 1>>))

MCCommandOf == (1 :> archive) @@ (2 :> unarchive) @@ (3 :> revert) @@
               (4 :> implement) @@ (5 :> stray)

MCEvent(body) == [cmd |-> NoCall, part |-> 1, body |-> body]

MCHistory ==
    <<MCEvent(MCBody("project.created", p1, NoId, {}, <<>>)),
      MCEvent(MCBody("project.created", p2, NoId, {}, <<>>)),
      MCEvent(MCBody("thread.created", p1, t1, {}, <<>>)),
      MCEvent(MCBody("thread.created", p1, t2, {}, <<>>)),
      MCEvent(MCBody("thread.created", p2, t3, {}, <<>>)),
      MCEvent(MCBody("thread.proposed-plan-upserted", p1, t1, {1}, <<>>))>>

\* Threads stay in the project they were created in.
Home == (t1 :> p1) @@ (t2 :> p1) @@ (t3 :> p2)

MCBodies ==
    ProjectBodies({"project.created"}) \cup
    {b \in ThreadBodies({"thread.created", "thread.message-sent",
                         "thread.turn-start-requested", "thread.archived",
                         "thread.unarchived", "thread.reverted",
                         "thread.proposed-plan-upserted"}) :
        /\ b.project = Home[b.thread]
        /\ b.rows # {} => b.type = "thread.reverted"
        /\ b.source # <<>> => b.type \in {"thread.message-sent",
                                         "thread.turn-start-requested"}}

MCRows(t) == {AbsentThread} \cup
             [state : {"live"}, project : {Home[t]},
              archived : BOOLEAN, plans : SUBSET PlanId]

MCTableRows(t) == {AbsentRow} \cup
                  [state : {"live"}, project : {Home[t]}, archived : BOOLEAN]

MCTable == {[projects |-> j, plans |-> q,
             threads |-> (t1 :> r1) @@ (t2 :> r2) @@ (t3 :> r3)] :
              j \in [ProjectId -> {"absent", "live"}],
              q \in [PlanId -> ThreadId \cup {NoId}],
              r1 \in MCTableRows(t1), r2 \in MCTableRows(t2), r3 \in MCTableRows(t3)}

MCModel == {[projects |-> j, threads |-> (t1 :> r1) @@ (t2 :> r2) @@ (t3 :> r3)] :
              j \in [ProjectId -> {"absent", "live"}],
              r1 \in MCRows(t1), r2 \in MCRows(t2), r3 \in MCRows(t3)}
=============================================================================
