--------------------------- MODULE MCOrchestration ---------------------------
EXTENDS Orchestration, TLC

CONSTANTS p1, t1, k1, k2, k3, call1, call2, call3, call4

MCBody(type, thread, plans, source) ==
    [type |-> type, project |-> p1, thread |-> thread,
     plans |-> plans, rows |-> {}, source |-> source]

\* Plan 2 takes the place of plan 1 in memory, where one is kept, but not in the
\* tables: whether plan 1 can be implemented after k1 depends on the boot.
MCCommandBody ==
    (k1 :> MCBody("thread.proposed-plan.upsert", t1, {2}, <<>>)) @@
    (k2 :> MCBody("thread.turn.start", t1, {}, <<t1, 1>>)) @@
    (k3 :> MCBody("thread.archive", t1, {}, <<>>))

\* k2 is sent twice: the second call is a retry, or a duplicate.
MCCommandOf == (call1 :> k1) @@ (call2 :> k2) @@ (call3 :> k2) @@ (call4 :> k3)

\* The store of an earlier version: its events are there, the tables are not.
MCEvent(body) == [cmd |-> NoCall, part |-> 1, body |-> body]

MCHistory == <<MCEvent(MCBody("project.created", NoId, {}, <<>>)),
               MCEvent(MCBody("thread.created", t1, {}, <<>>)),
               MCEvent(MCBody("thread.proposed-plan-upserted", t1, {1}, <<>>))>>

MCBodies ==
    ProjectBodies({"project.created"}) \cup
    ThreadBodies({"thread.created", "thread.message-sent",
                  "thread.turn-start-requested", "thread.archived",
                  "thread.proposed-plan-upserted"})
=============================================================================
