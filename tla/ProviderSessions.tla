-------------------------- MODULE ProviderSessions --------------------------
(***************************************************************************)
(* One thread's provider sessions, from the user's requests to the read    *)
(* model: ProviderCommandReactor's worker takes the requests one at a time *)
(* and calls ProviderService, which routes to an adapter by the persisted  *)
(* binding and revives a session that is gone; CheckpointReactor's         *)
(* rollback calls ProviderService at the same time; runtime events come    *)
(* back through ProviderRuntimeIngestion, which updates thread.session.    *)
(* Every await that lets another fiber in ends a step.                     *)
(***************************************************************************)
EXTENDS ProviderAdapter

CONSTANTS
    DefaultMode,    \* DEFAULT_RUNTIME_MODE
    MaxRequests,    \* bound: requests of the user, turns and reverts included,
                    \* and errors Codex reports that end nothing
    MaxRestarts     \* bound: restarts of the server

ASSUME ModeAssumption == DefaultMode \in Mode
ASSUME BoundAssumption ==
    MaxRequests \in Nat /\ MaxRestarts \in Nat

Proc == {"reactor", "revert"}
NoMode == "none"
Absent == [status |-> "none", mode |-> NoMode, turn |-> NoTurn]

VARIABLES
    runtimeMode,   \* thread.runtimeMode
    session,       \* thread.session
    binding,       \* the row of provider_session_runtime, by its runtime mode
    requests,      \* the reactor's queue
    job,           \* what each caller of ProviderService is doing
    ingest,        \* the event being ingested and the session read for it
    asked,         \* turns, other requests and errors, restarts so far
    sent,          \* turns handed to a provider
    failed,        \* turns with a "provider.turn.start.failed" activity
    lost,          \* turns from before the last restart
    terminal       \* an explicit stop has ended and no turn was asked since

readModel == <<runtimeMode, session>>
history == <<asked, sent, failed, lost, terminal>>
vars == <<adapter, readModel, binding, requests, job, ingest, history>>

Request(kind, turn) == [kind |-> kind, turn |-> turn]

\* `bound`, `changed` and `mode` are what the job read from the thread;
\* `fresh` tells startSession from a recovery; `made` is the context it made.
Idle == [kind |-> "idle", turn |-> NoTurn, step |-> "idle", mode |-> NoMode,
         bound |-> FALSE, changed |-> FALSE, fresh |-> FALSE, made |-> NoSession]
Reading == [event |-> Event("none", NoTurn), session |-> Absent]

Init ==
    /\ AdapterInit
    /\ runtimeMode = DefaultMode /\ session = Absent /\ binding = NoMode
    /\ requests = <<>> /\ job = [p \in Proc |-> Idle] /\ ingest = Reading
    /\ asked = [turns |-> 0, others |-> 0, restarts |-> 0]
    /\ sent = <<>> /\ failed = {} /\ lost = {} /\ terminal = FALSE

At(p, step) == job[p].step = step
Go(p, step) == job' = [job EXCEPT ![p].step = step]
Done(p) == job' = [job EXCEPT ![p] = Idle]
Bound(s) == s.status \notin {"none", "stopped"}

\* A job that fails: a turn's failure becomes an activity, a rollback's and a
\* call's too, the others are logged.
Fail(p) ==
    /\ Done(p)
    /\ failed' = IF job[p].kind = "turn" THEN failed \cup {job[p].turn} ELSE failed
    /\ UNCHANGED <<asked, sent, lost, terminal>>

-----------------------------------------------------------------------------
\* The user's commands, as the engine accepted them: the read model changes
\* and the event goes to the reactor's worker.
MayAsk == asked.turns + asked.others < MaxRequests

Ask(kind, turn) ==
    /\ MayAsk
    /\ requests' = Append(requests, Request(kind, turn))
    /\ asked' = IF kind = "turn" THEN [asked EXCEPT !.turns = @ + 1]
                ELSE [asked EXCEPT !.others = @ + 1]
    /\ UNCHANGED <<adapter, session, binding, job, ingest, sent, failed, lost, terminal>>

StartTurn == asked.turns + 1 \in Turn /\ Ask("turn", asked.turns + 1) /\ UNCHANGED runtimeMode
SetMode == Ask("mode", NoTurn) /\ runtimeMode' \in Mode \ {runtimeMode}
CallSession == Ask("call", NoTurn) /\ UNCHANGED runtimeMode
StopSession == Ask("stop", NoTurn) /\ UNCHANGED runtimeMode

\* CheckpointReactor reverts: it saw a session of the thread in listSessions.
Revert ==
    /\ MayAsk /\ job["revert"] = Idle /\ HasSession
    /\ asked' = [asked EXCEPT !.others = @ + 1]
    /\ job' = [job EXCEPT !["revert"] = [Idle EXCEPT !.kind = "rollback", !.step = "route"]]
    /\ UNCHANGED <<adapter, readModel, binding, requests, ingest, sent, failed, lost, terminal>>

-----------------------------------------------------------------------------
\* Mutant: the worker takes the latest event.
Latest == Len(requests)

NextIndex == 1

\* processDomainEvent reads the thread: an interrupt or a response to a thread
\* without a session fails, a mode change to one is ignored.
Begin ==
    /\ requests # <<>> /\ job["reactor"] = Idle
    /\ LET r == requests[NextIndex]
           step == CASE r.kind = "turn" -> "ensure"
                     [] r.kind = "mode" -> IF Bound(session) THEN "ensure" ELSE "idle"
                     [] r.kind = "call" -> IF Bound(session) THEN "route" ELSE "idle"
                     [] r.kind = "stop" -> IF Bound(session) THEN "stop" ELSE "stopped"
       IN /\ requests' = RemoveAt(requests, NextIndex)
          /\ terminal' = (terminal /\ r.kind # "turn")
          /\ job' = [job EXCEPT !["reactor"] = IF step = "idle" THEN Idle ELSE
               [Idle EXCEPT !.kind = r.kind, !.turn = r.turn, !.step = step,
                            !.mode = runtimeMode, !.bound = Bound(session),
                            !.changed = (runtimeMode # session.mode)]]
    /\ UNCHANGED <<adapter, readModel, binding, ingest, asked, sent, failed, lost>>

\* ensureSessionForThread: the session is reused, replaced (the runtime mode or
\* Claude's model selection changed) or started.
Ensure ==
    /\ At("reactor", "ensure")
    /\ \E selectionChanged \in BOOLEAN :
         /\ selectionChanged => provider = "claudeAgent" /\ job["reactor"].kind = "turn"
         /\ IF job["reactor"].bound /\ HasSession
                  /\ ~job["reactor"].changed /\ ~selectionChanged
              THEN IF job["reactor"].kind = "turn" THEN Go("reactor", "route") ELSE Done("reactor")
              ELSE job' = [job EXCEPT !["reactor"].step = "start", !["reactor"].fresh = TRUE]
    /\ UNCHANGED <<adapter, readModel, binding, requests, ingest, history>>

\* adapter.startSession, for a start and for a recovery.
Start(p) ==
    /\ At(p, "start")
    /\ Register(job[p].mode)
    /\ job' = [job EXCEPT ![p].made = Min(Unmade),
                          ![p].step = IF provider = "codex" THEN "handshake" ELSE "upsert"]
    /\ UNCHANGED <<readModel, binding, requests, ingest, history>>

StartFails(p) ==
    /\ At(p, "start")
    /\ StartRefused \/ UNCHANGED adapter
    /\ Fail(p)
    /\ UNCHANGED <<readModel, binding, requests, ingest>>

Handshake(p) ==
    /\ At(p, "handshake")
    /\ HandshakeDone(job[p].made)
    /\ Go(p, "upsert")
    /\ UNCHANGED <<readModel, binding, requests, ingest, history>>

HandshakeFails(p) ==
    /\ At(p, "handshake")
    /\ HandshakeFailed
    /\ Fail(p)
    /\ UNCHANGED <<readModel, binding, requests, ingest>>

\* upsertSessionBinding.
Upsert(p) ==
    /\ At(p, "upsert")
    /\ binding' = job[p].mode
    /\ Go(p, IF job[p].fresh THEN "bind" ELSE "deliver")
    /\ UNCHANGED <<adapter, readModel, requests, ingest, history>>

\* bindSessionToThread.
Bind ==
    /\ At("reactor", "bind")
    /\ session' = [status |-> "ready", mode |-> job["reactor"].mode, turn |-> NoTurn]
    /\ IF job["reactor"].kind = "turn" THEN Go("reactor", "route") ELSE Done("reactor")
    /\ UNCHANGED <<adapter, runtimeMode, binding, requests, ingest, history>>

\* resolveRoutableSession with recovery: without a binding the call fails,
\* without a session one is started in the binding's mode.
Route(p) ==
    /\ At(p, "route")
    /\ binding # NoMode
    /\ job' = IF HasSession THEN [job EXCEPT ![p].step = "deliver"]
              ELSE [job EXCEPT ![p].step = "start", ![p].mode = binding, ![p].fresh = FALSE]
    /\ UNCHANGED <<adapter, readModel, binding, requests, ingest, history>>

RouteFails(p) ==
    /\ At(p, "route")
    /\ binding = NoMode
    /\ Fail(p)
    /\ UNCHANGED <<adapter, readModel, binding, requests, ingest>>

\* The call reaches the adapter: an interrupt, a response or a rollback leaves
\* the registry alone.
Deliver(p) ==
    /\ At(p, "deliver") /\ HasSession /\ job[p].kind # "turn"
    /\ Done(p)
    /\ UNCHANGED <<adapter, readModel, binding, requests, ingest, history>>

DeliverTurn ==
    /\ At("reactor", "deliver") /\ HasSession /\ job["reactor"].kind = "turn"
    /\ \E step \in {"switch", "answer"} :
         job' = [job EXCEPT !["reactor"].step = step, !["reactor"].made = registered]
    /\ IF At("reactor", "switch")'
         THEN ClosePrevious /\ UNCHANGED sent
         ELSE CodexRequest(job["reactor"].turn) /\ sent' = Append(sent, job["reactor"].turn)
    /\ UNCHANGED <<readModel, binding, requests, ingest, asked, failed, lost, terminal>>

\* The adapter refuses: no session, or the provider answers with an error.
DeliverFails(p) ==
    /\ At(p, "deliver")
    /\ Fail(p)
    /\ UNCHANGED <<adapter, readModel, binding, requests, ingest>>

\* Claude's sendTurn goes on, or fails when it sets the model or the mode and
\* when it reads the attachments: the turn is started then and has no prompt.
TurnBegins ==
    /\ At("reactor", "switch")
    /\ ClaudeTurn(job["reactor"].made, job["reactor"].turn)
    /\ Go("reactor", "prompt")
    /\ UNCHANGED <<readModel, binding, requests, ingest, history>>

SendPrompt ==
    /\ At("reactor", "prompt")
    /\ Prompt(job["reactor"].made)
    /\ sent' = IF Live(job["reactor"].made) THEN Append(sent, job["reactor"].turn) ELSE sent
    /\ Done("reactor")
    /\ UNCHANGED <<readModel, binding, requests, ingest, asked, failed, lost, terminal>>

SendFails ==
    /\ job["reactor"].step \in {"switch", "prompt"}
    /\ Fail("reactor")
    /\ UNCHANGED <<adapter, readModel, binding, requests, ingest>>

\* Codex starts the turn and answers; an answer after the timeout is dropped.
TurnStarts(s) ==
    /\ CodexTurn(s)
    /\ IF At("reactor", "answer") /\ job["reactor"].turn = context[s].sent
         THEN Done("reactor") ELSE UNCHANGED job
    /\ UNCHANGED <<readModel, binding, requests, ingest, history>>

TurnRequestFails ==
    /\ At("reactor", "answer")
    /\ Fail("reactor")
    /\ UNCHANGED <<adapter, readModel, binding, requests, ingest>>

-----------------------------------------------------------------------------
\* processSessionStopRequested: ProviderService.stopSession, which fails without
\* a binding and leaves thread.session as it is, then the session is set.
Stop ==
    /\ At("reactor", "stop")
    /\ \/ binding = NoMode /\ Done("reactor")
       \/ binding # NoMode /\ Go("reactor", IF HasSession THEN "stopAdapter" ELSE "unbind")
    /\ UNCHANGED <<adapter, readModel, binding, requests, ingest, history>>

StopAdapter ==
    /\ At("reactor", "stopAdapter")
    /\ \/ StopRegistered /\ Go("reactor", "unbind")
       \/ /\ ~HasSession /\ UNCHANGED adapter
          /\ IF provider = "codex" THEN Go("reactor", "unbind") ELSE Done("reactor")
    /\ UNCHANGED <<readModel, binding, requests, ingest, history>>

Unbind ==
    /\ At("reactor", "unbind")
    /\ binding' = NoMode
    /\ terminal' = TRUE
    /\ Go("reactor", "stopped")
    /\ UNCHANGED <<adapter, readModel, requests, ingest, asked, sent, failed, lost>>

SetStopped ==
    /\ At("reactor", "stopped")
    /\ session' = [status |-> "stopped", turn |-> NoTurn,
                   mode |-> IF session = Absent THEN DefaultMode ELSE session.mode]
    /\ Done("reactor")
    /\ UNCHANGED <<adapter, runtimeMode, binding, requests, ingest, history>>

-----------------------------------------------------------------------------
\* ProviderRuntimeIngestion reads the thread, decides and dispatches; other
\* commands may be applied before its own.
IngestRead ==
    /\ runtimeEvents # <<>> /\ ingest = Reading
    /\ ingest' = [event |-> Head(runtimeEvents), session |-> session]
    /\ runtimeEvents' = Tail(runtimeEvents)
    /\ UNCHANGED <<provider, context, registered, begun, stranded>>
    /\ UNCHANGED <<readModel, binding, requests, job, history>>

\* Mutant: any turn's end closes the thread's turn.
AnyEnd(e, active) == TRUE

\* shouldApplyThreadLifecycle and shouldApplyRuntimeError
Applies(e, active) ==
    CASE e.type = "turn.started" -> active \in {NoTurn, e.turn}
      [] e.type \in {"completed", "failed"} -> active \in {NoTurn, e.turn}
      [] e.type = "error" -> NoTurn \in {active, e.turn} \/ active = e.turn
      [] OTHER -> TRUE

\* Mutant: an exit keeps the active turn.
KeepTurn(e, active) == IF e.type \in {"turn.started", "error"} THEN e.turn ELSE active

TurnAfter(e, active) ==
    CASE e.type \in {"turn.started", "error"} -> e.turn
      [] e.type \in {"completed", "failed", "exited"} -> NoTurn
      [] OTHER -> active

StatusAfter(e, active) ==
    CASE e.type = "connecting" -> "starting"
      [] e.type = "turn.started" -> "running"
      [] e.type \in {"ready", "completed"} -> "ready"
      [] e.type \in {"failed", "error"} -> "error"
      [] e.type = "exited" -> "stopped"

IngestDispatch ==
    /\ ingest # Reading
    /\ LET e == ingest.event
           active == ingest.session.turn
       IN session' = IF ~Applies(e, active) THEN session
                     ELSE [status |-> StatusAfter(e, active), turn |-> TurnAfter(e, active),
                           mode |-> IF ingest.session = Absent THEN DefaultMode
                                    ELSE ingest.session.mode]
    /\ ingest' = Reading
    /\ UNCHANGED <<adapter, runtimeMode, binding, requests, job, history>>

-----------------------------------------------------------------------------
ProviderEnds ==
    /\ \E s \in Session :
         \/ SessionExits(s) \/ BackgroundTurn(s) \/ Result(s)
         \/ \E t \in Turn : TurnEnds(s, t)
    /\ UNCHANGED <<readModel, binding, requests, job, ingest, history>>

ProviderErrs ==
    /\ MayAsk
    /\ asked' = [asked EXCEPT !.others = @ + 1]
    /\ \E s \in Session : CodexError(s)
    /\ UNCHANGED <<readModel, binding, requests, job, ingest, sent, failed, lost, terminal>>

\* The server stops, orderly or not: every session ends with it, and what only
\* memory held is gone.  The read model and the bindings survive.
Restart ==
    /\ asked.restarts < MaxRestarts
    /\ asked' = [asked EXCEPT !.restarts = @ + 1]
    /\ context' = [s \in Session |-> IF context[s].phase = "unborn" THEN Unborn
                                     ELSE [Unborn EXCEPT !.phase = "closed"]]
    /\ registered' = NoSession /\ runtimeEvents' = <<>>
    /\ requests' = <<>> /\ job' = [p \in Proc |-> Idle] /\ ingest' = Reading
    /\ lost' = 1 .. asked.turns \cup begun
    /\ UNCHANGED <<provider, begun, stranded, readModel, binding, sent, failed, terminal>>

ReactorStep ==
    \/ Begin \/ Ensure \/ Bind \/ DeliverTurn \/ TurnRequestFails
    \/ TurnBegins \/ SendPrompt \/ SendFails
    \/ Stop \/ StopAdapter \/ Unbind \/ SetStopped
CallerStep(p) ==
    \/ Start(p) \/ StartFails(p) \/ Handshake(p) \/ HandshakeFails(p) \/ Upsert(p)
    \/ Route(p) \/ RouteFails(p) \/ Deliver(p) \/ DeliverFails(p)
Ingest == IngestRead \/ IngestDispatch

Next ==
    \/ StartTurn \/ SetMode \/ CallSession \/ StopSession \/ Revert
    \/ ReactorStep \/ \E p \in Proc : CallerStep(p)
    \/ \E s \in Session : TurnStarts(s)
    \/ Ingest \/ ProviderEnds \/ ProviderErrs \/ Restart

Spec == Init /\ [][Next]_vars

-----------------------------------------------------------------------------
TypeOK ==
    /\ AdapterTypeOK
    /\ runtimeMode \in Mode /\ binding \in Mode \cup {NoMode}
    /\ session.turn \in Turn \cup Background \cup {NoTurn} /\ session.mode \in Mode \cup {NoMode}
    /\ (session.status = "running") => (session.turn # NoTurn)
    /\ (session = Absent) = (session.status = "none")
    /\ \A p \in Proc : job[p].made \in Session \cup {NoSession}
    /\ failed \subseteq Turn /\ lost \subseteq Turn \cup Background

EndOf(t) == {Event("completed", t), Event("failed", t), Event("exited", NoTurn)}
Ending(t) ==
    \/ \E i \in DOMAIN runtimeEvents : runtimeEvents[i] \in EndOf(t)
    \/ ingest.event \in EndOf(t)

\* The agent of a session works on what it was sent, or is about to be sent it.
AtWork(s) ==
    \/ provider = "codex" \/ context[s].prompts > 0
    \/ At("reactor", "prompt") /\ job["reactor"].made = s

\* A thread shows no turn that nobody will close: the turn it shows as active is
\* that of a living session whose agent is at work, or the event that closes it
\* is on its way.  A living session holds a turn nobody works on only if that was
\* reported as failed (ClaudeAdapter.ts:2989-2998) or the agent started it by
\* itself (1849-1888): the next sendTurn or the session's end closes it.  What
\* nothing will close is a turn that started in a session stopped meanwhile, one
\* that the next was written over (2969), and one from before a restart.
NoGhostTurn ==
    LET t == session.turn IN t \notin {NoTurn} \cup lost \cup stranded =>
        \/ Ending(t)
        \/ \E s \in Session : Live(s) /\ t \in context[s].turns
                               /\ (AtWork(s) \/ t \in failed \cup Background)

\* Turns reach a provider in the order the user asked for them, each at most
\* once, through restarts of sessions and recoveries.
SentInOrder == \A i, j \in DOMAIN sent : i < j => sent[i] < sent[j]

\* An active turn is closed by an end that names it, by the exit of a session of
\* the thread, by an error that names no turn, or because the reactor binds
\* another session or stops.  A late end of another turn does not; the exit of a
\* replaced session does (ProviderRuntimeIngestion.ts:895, 932), and the end that
\* names the turn may be Claude's answer to the prompt before.
OnlyItsEndCloses ==
    [][session.turn # NoTurn /\ session'.turn # session.turn =>
         \/ job["reactor"].step \in {"bind", "stopped"}
         \/ ingest.event \in EndOf(session.turn) \cup {Event("error", NoTurn)}]_vars

\* "An explicit user stop must be terminal": after it nothing of the thread runs
\* until the user asks for a turn.
StopIsTerminal == terminal => \A s \in Session : ~Live(s)
=============================================================================
