--------------------------- MODULE ProviderAdapter ---------------------------
(***************************************************************************)
(* The session registries of the two provider adapters, for one thread.    *)
(* CodexAppServerManager and ClaudeAdapter both keep a Map from the thread *)
(* to a context; a context lives (its process or its stream runs, and it   *)
(* emits runtime events) until it exits or is stopped, whether or not the  *)
(* map still points at it.  The provider's program is external: it runs    *)
(* the turns it was sent, ends them and may exit at any time.              *)
(***************************************************************************)
EXTENDS Naturals, Sequences, FiniteSets, FiniteSetsExt, SequencesExt

CONSTANTS
    Session,    \* 1 .. n: the contexts, in the order they are created
    Turn,       \* 1 .. n: the turns, in the order the user asks for them
    Background, \* the turns Claude's agent starts by itself
    Mode,       \* runtime modes
    MaxBacklog  \* bound: events the ingestion may be behind

ASSUME IdAssumption ==
    /\ Session = 1 .. Cardinality(Session) /\ IsFiniteSet(Session)
    /\ Turn = 1 .. Cardinality(Turn) /\ IsFiniteSet(Turn)
    /\ Background \subseteq Nat /\ Background \cap (Turn \cup {0}) = {}
    /\ MaxBacklog \in Nat

NoSession == 0
NoTurn == 0

VARIABLES
    provider,       \* the provider the thread is bound to, for good
    context,        \* every context ever made
    registered,     \* sessions.get(threadId)
    runtimeEvents,  \* the adapter's events, not yet taken by the ingestion
    begun,          \* background turns so far
    stranded        \* turns no context will name again

adapter == <<provider, context, registered, runtimeEvents, begun, stranded>>

\* session.started and thread.started come right before the ready event, which
\* replaces what they would set, and are left out.
\* `sent` is the turn a Codex server was sent and has not acknowledged, `prompts`
\* counts what Claude's agent was sent and has not answered; Claude's `turns` is
\* the turnState, one turn at most.
Unborn == [phase |-> "unborn", mode |-> CHOOSE m \in Mode : TRUE,
           turns |-> {}, sent |-> NoTurn, prompts |-> 0]

Event(type, turn) == [type |-> type, turn |-> turn]
Events(type, turns) == [i \in 1 .. Cardinality(turns) |-> Event(type, SetToSeq(turns)[i])]
EventType == {"connecting", "ready", "turn.started", "completed",
              "failed", "error", "exited"}

AdapterInit ==
    /\ provider \in {"codex", "claudeAgent"}
    /\ context = [s \in Session |-> Unborn]
    /\ registered = NoSession
    /\ runtimeEvents = <<>>
    /\ begun = {} /\ stranded = {}

Live(s) == context[s].phase \in {"starting", "open"}
Unmade == {s \in Session : context[s].phase = "unborn"}
Emit(events) ==
    /\ runtimeEvents' = runtimeEvents \o events
    /\ Len(runtimeEvents') <= MaxBacklog

AdapterTypeOK ==
    /\ context \in [Session -> [phase : {"unborn", "starting", "open", "closed"},
                                mode : Mode, turns : SUBSET (Turn \cup Background),
                                sent : Turn \cup {NoTurn}, prompts : Nat]]
    /\ registered \in Session \cup {NoSession}
    /\ \A i \in DOMAIN runtimeEvents :
         /\ runtimeEvents[i].type \in EventType
         /\ runtimeEvents[i].turn \in Turn \cup Background \cup {NoTurn}
    /\ \A s \in Session :
         /\ ~Live(s) => context[s].turns = {} /\ context[s].sent = NoTurn
         /\ provider = "claudeAgent" =>
              /\ context[s].phase # "starting" /\ context[s].sent = NoTurn
              /\ Cardinality(context[s].turns) <= 1
    /\ begun \subseteq Background /\ stranded \subseteq Turn \cup Background

-----------------------------------------------------------------------------
\* How a context ends.  Claude completes the running turn before it reports
\* the exit; Codex reports the exit alone.

EndEvents(s, how) ==
    IF provider = "codex" THEN <<Event("exited", NoTurn)>>
    ELSE Events(how, context[s].turns) \o <<Event("exited", NoTurn)>>

\* Mutant: the context that ends keeps its turns.
KeepTurns(s) == [context EXCEPT ![s].phase = "closed"]

Closed(s) ==
    [context EXCEPT ![s].phase = "closed", ![s].turns = {}, ![s].sent = NoTurn, ![s].prompts = 0]

\* hasSession
HasSession == registered # NoSession

(***************************************************************************)
(* startSession registers the new context over whatever the map held.      *)
(* Codex registers first and then shakes hands; Claude registers last.     *)
(***************************************************************************)
Register(mode) ==
    /\ Unmade # {}
    /\ LET s == Min(Unmade) IN
         /\ registered' = s
         /\ context' = [context EXCEPT ![s] =
              [Unborn EXCEPT !.phase = IF provider = "codex" THEN "starting" ELSE "open",
                             !.mode = mode]]
         /\ Emit(IF provider = "codex" THEN <<Event("connecting", NoTurn)>>
                 ELSE <<Event("ready", NoTurn)>>)
    /\ UNCHANGED <<provider, begun, stranded>>

\* thread/start or thread/resume answered.
HandshakeDone(s) ==
    /\ context[s].phase = "starting"
    /\ context' = [context EXCEPT ![s].phase = "open"]
    /\ Emit(<<Event("ready", NoTurn)>>)
    /\ UNCHANGED <<provider, registered, begun, stranded>>

\* A failed handshake reports the error and stops the thread's session: the one
\* the map holds now.
HandshakeFailed ==
    /\ IF HasSession
         THEN /\ context' = Closed(registered)
              /\ Emit(<<Event("error", NoTurn)>> \o EndEvents(registered, "failed"))
         ELSE /\ Emit(<<Event("error", NoTurn)>>)
              /\ UNCHANGED context
    /\ registered' = NoSession
    /\ UNCHANGED <<provider, begun, stranded>>

\* startSession fails before it made a context.
StartRefused ==
    /\ Emit(IF provider = "codex" THEN <<Event("error", NoTurn)>> ELSE <<>>)
    /\ UNCHANGED <<provider, context, registered, begun, stranded>>

StopRegistered ==
    /\ HasSession
    /\ context' = Closed(registered)
    /\ Emit(EndEvents(registered, "completed"))
    /\ registered' = NoSession
    /\ UNCHANGED <<provider, begun, stranded>>

-----------------------------------------------------------------------------
\* sendTurn.  Claude closes the turn still open in the context and, once it has
\* set the model and the permission mode, starts the next one itself; Codex
\* writes a request its server will acknowledge.
ClosePrevious ==
    /\ provider = "claudeAgent"
    /\ Emit(Events("completed", context[registered].turns))
    /\ context' = [context EXCEPT ![registered].turns = {}]
    /\ UNCHANGED <<provider, registered, begun, stranded>>

\* Nobody looks again whether the context was stopped meanwhile, or a background
\* turn came up in it: that one is written over.
ClaudeTurn(s, t) ==
    /\ Emit(<<Event("turn.started", t)>>)
    /\ \/ /\ Live(s)
          /\ context' = [context EXCEPT ![s].turns = {t}]
          /\ stranded' = stranded \cup context[s].turns
       \/ /\ ~Live(s)
          /\ stranded' = stranded \cup {t}
          /\ UNCHANGED context
    /\ UNCHANGED <<provider, registered, begun>>

\* The message with its attachments is offered to the agent; a stopped context's
\* queue takes nothing and says so to nobody.
Prompt(s) ==
    /\ context' = IF Live(s) THEN [context EXCEPT ![s].prompts = @ + 1] ELSE context
    /\ UNCHANGED <<provider, registered, runtimeEvents, begun, stranded>>

CodexRequest(t) ==
    /\ provider = "codex" /\ context[registered].phase = "open"
    /\ context' = [context EXCEPT ![registered].sent = t]
    /\ UNCHANGED <<provider, registered, runtimeEvents, begun, stranded>>

\* The server starts the turn it was sent.
CodexTurn(s) ==
    /\ context[s].sent # NoTurn
    /\ context' = [context EXCEPT ![s].turns = @ \cup {context[s].sent}, ![s].sent = NoTurn]
    /\ Emit(<<Event("turn.started", context[s].sent)>>)
    /\ UNCHANGED <<provider, registered, begun, stranded>>

\* A Codex server ends a turn: done, interrupted or failed.
TurnEnds(s, t) ==
    /\ provider = "codex" /\ t \in context[s].turns
    /\ context' = [context EXCEPT ![s].turns = @ \ {t}]
    /\ \E how \in {"completed", "failed"} : Emit(<<Event(how, t)>>)
    /\ UNCHANGED <<provider, registered, begun, stranded>>

\* It reports an error of a turn that runs, or of no turn.
CodexError(s) ==
    /\ provider = "codex" /\ Live(s)
    /\ \E t \in {NoTurn} \cup context[s].turns : Emit(<<Event("error", t)>>)
    /\ UNCHANGED <<provider, context, registered, begun, stranded>>

\* A message of Claude's agent that finds no turn starts one.
BackgroundTurn(s) ==
    /\ provider = "claudeAgent" /\ Live(s) /\ context[s].turns = {}
    /\ \E b \in Background \ begun :
         /\ context' = [context EXCEPT ![s].turns = {b}]
         /\ begun' = begun \cup {b}
         /\ Emit(<<Event("turn.started", b)>>)
    /\ UNCHANGED <<provider, registered, stranded>>

\* A result of Claude's agent answers a prompt, or all it was sent, or its own
\* background work.  It ends the turn the context is at by now, if any.
Result(s) ==
    /\ provider = "claudeAgent"
    /\ context[s].prompts > 0 \/ context[s].turns \cap Background # {}
    /\ \E rest \in {0, context[s].prompts - 1} \cap Nat :
         context' = [context EXCEPT ![s].turns = {}, ![s].prompts = rest]
    /\ LET t == Max({NoTurn} \cup context[s].turns)
       IN Emit(<<Event("completed", t)>>) \/ Emit(<<Event("error", t), Event("failed", t)>>)
    /\ UNCHANGED <<provider, registered, begun, stranded>>

\* sessions.delete(context.session.threadId): the entry goes whichever context
\* it names.
EntryAfterExit(s) == NoSession

\* The provider's process or stream ends by itself.  A Claude stream that fails
\* reports an error and a failed turn first, with or without a turn to name.
SessionExits(s) ==
    /\ Live(s)
    /\ context' = Closed(s)
    /\ registered' = EntryAfterExit(s)
    /\ \/ Emit(EndEvents(s, "completed"))
       \/ /\ provider = "claudeAgent"
          /\ LET t == Max({NoTurn} \cup context[s].turns) IN
               Emit(<<Event("error", t), Event("failed", t), Event("exited", NoTurn)>>)
    /\ UNCHANGED <<provider, begun, stranded>>
=============================================================================
