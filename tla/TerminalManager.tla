--------------------------- MODULE TerminalManager ---------------------------
(***************************************************************************)
(* The terminals of terminal/Layers/Manager.ts: sessions with their PTY    *)
(* processes, the fibers that drain a process's callbacks, the calls of    *)
(* the clients under one lock per thread, and the histories the keyed      *)
(* coalescing worker writes to files.  A key of the worker is a terminal.  *)
(* A step ends where the code waits: for a lock, a file, a spawn, a drain  *)
(* or the listeners of an event.  A history is the set of outputs in it.   *)
(***************************************************************************)
EXTENDS KeyedCoalescingWorker

CONSTANTS
    ThreadOf,    \* the thread of each terminal
    Session,     \* 1 .. n: the session objects, in the order they are made
    Process,     \* 1 .. n: the shells, in the order they are spawned
    Fiber,       \* 1 .. n: the fibers that run drainProcessEvents
    Opened,      \* the terminals that may run already, in the order they were opened
    MaxOutputs,  \* bound: outputs of all shells
    MaxCalls,    \* bound: calls of the clients
    MaxRetained  \* maxRetainedInactiveSessions

ASSUME TerminalAssumption ==
    /\ \A S \in {Session, Process, Fiber} : IsFiniteSet(S) /\ S = 1 .. Cardinality(S)
    /\ IsFiniteSet(Key) /\ DOMAIN ThreadOf = Key
    /\ {MaxOutputs, MaxCalls} \subseteq Nat /\ MaxRetained \in Nat \ {0}
ASSUME OpenedAssumption ==
    \A opened \in Opened :
        /\ opened \in Seq(Key) /\ IsInjective(opened)
        /\ DOMAIN opened \subseteq Session \cap Process

Thread == {ThreadOf[t] : t \in Key}
None == 0
NoFile == {None}
Exit == 0          \* among the pending events, next to the outputs

VARIABLES
    sessions,    \* the manager's map from a terminal to its session
    session,     \* every session object ever made
    order,       \* the session objects by updatedAt
    process,     \* every shell ever spawned
    fiber,       \* the drain fibers
    call,        \* what runs under each thread's lock
    file,        \* the history files
    texts,       \* the history each enqueued item carries
    broken,      \* terminals whose last write failed
    outputs,     \* outputs so far
    calls        \* calls so far

manager == <<sessions, session, order>>
storage == <<file, broken>>
terminals == <<worker, manager, process, fiber, call, storage, texts, outputs, calls>>

Unmade == [key |-> NoKey, status |-> "none", shell |-> None, history |-> {},
           pending |-> <<>>, draining |-> FALSE, lossy |-> FALSE, stray |-> FALSE]
NoFiber == [session |-> None, shell |-> None, step |-> "none"]
NoCall == [kind |-> "none", key |-> NoKey, session |-> None, step |-> "none"]

\* Nothing is open, or some terminals run and have put out nothing yet.
Init ==
    /\ WorkerInit
    /\ \E opened \in Opened :
         /\ sessions = [t \in Key |-> Max({None} \cup {s \in DOMAIN opened : opened[s] = t})]
         /\ session = [s \in Session |-> IF s \notin DOMAIN opened THEN Unmade ELSE
              [Unmade EXCEPT !.key = opened[s], !.status = "running", !.shell = s]]
         /\ order = [i \in DOMAIN opened |-> i]
         /\ process = [p \in Process |->
              IF p \notin DOMAIN opened THEN [state |-> "unborn", owner |-> None, killed |-> FALSE]
              ELSE [state |-> "alive", owner |-> p, killed |-> FALSE]]
    /\ fiber = [f \in Fiber |-> NoFiber]
    /\ call = [h \in Thread |-> NoCall]
    /\ file = [t \in Key |-> NoFile] /\ texts = <<>> /\ broken = {}
    /\ outputs = 0 /\ calls = 0

-----------------------------------------------------------------------------
\* Sessions.

Exists(t) == sessions[t] # None

\* updatedAt
Touched(s) == Append(SelectSeq(order, LAMBDA x : x # s), s)

\* evictInactiveSessionsIfNeeded: the oldest sessions of the map m that do not
\* run, starting ones included, leave it.
Evict(m, ss, ord) ==
    LET inactive == {i \in DOMAIN ord : m[ss[ord[i]].key] = ord[i]
                                         /\ ss[ord[i]].status # "running"}
        gone == {ord[i] : i \in {j \in inactive :
                    Cardinality({n \in inactive : n > j}) >= MaxRetained}}
    IN [t \in Key |-> IF m[t] \in gone THEN None ELSE m[t]]

\* Mutant: the events of the shell that is gone are kept.
HaltedWithEvents(s, status) ==
    [session EXCEPT ![s] = [@ EXCEPT !.status = status, !.shell = None, !.draining = FALSE]]

Halted(s, status) ==
    [session EXCEPT ![s] = [@ EXCEPT !.status = status, !.shell = None,
                                     !.pending = <<>>, !.draining = FALSE]]

\* persistHistory and queuePersist.
Persist(t, history) == Enqueue(t) /\ texts' = Append(texts, history)

\* The system refused a signal, which is only logged: a shell that lives is out
\* of the manager's reach.
Escaped(st) == IF st = "alive" THEN "escaped" ELSE st

\* Mutant: the shell is forgotten and not killed.
Forget(q) == {[q EXCEPT !.owner = None]}

\* startKillEscalation sends SIGTERM; after one that fails no SIGKILL follows.
Kill(q) ==
    {[q EXCEPT !.owner = None, !.killed = TRUE],
     [q EXCEPT !.owner = None, !.state = Escaped(@)]}

\* stopProcess, and the history to go on with is persisted.
StopAndPersist(s, history) ==
    LET p == session[s].shell
        stopped == IF p = None THEN session ELSE Halted(s, "exited")
    IN /\ session' = [stopped EXCEPT ![s].history = history]
       /\ IF p = None THEN UNCHANGED <<process, order, sessions>>
          ELSE /\ \E q \in Kill(process[p]) : process' = [process EXCEPT ![p] = q]
               /\ order' = Touched(s)
               /\ sessions' = Evict(sessions, stopped, order')
       /\ Persist(session[s].key, history)

-----------------------------------------------------------------------------
\* The clients' calls, under the lock of the thread.

Begin(kind, t, s, step) ==
    /\ calls < MaxCalls /\ calls' = calls + 1
    /\ call[ThreadOf[t]] = NoCall
    /\ call' = [call EXCEPT ![ThreadOf[t]] =
                  [kind |-> kind, key |-> t, session |-> s, step |-> step]]
Step(h, step) == call' = [call EXCEPT ![h].step = step]
Return(h) == call' = [call EXCEPT ![h] = NoCall]

Unused == {s \in Session : session[s].status = "none"}
NextSession == Min(Unused)
SessionIsLeft == Cardinality(Unused) > Cardinality({h \in Thread : call[h].step = "read"})

\* A new session with this history enters the map.
Make(t, history) ==
    /\ session' = [session EXCEPT ![NextSession] =
          [Unmade EXCEPT !.key = t, !.status = "starting", !.history = history]]
    /\ order' = Touched(NextSession)
    /\ sessions' = Evict([sessions EXCEPT ![t] = NextSession], session', order')

OpenNew(t) ==
    /\ ~Exists(t) /\ SessionIsLeft
    /\ Begin("open", t, None, "read")
    /\ UNCHANGED <<worker, manager, process, fiber, storage, texts, outputs>>

\* flushPersist, then readHistory.
ReadHistory(h) ==
    /\ call[h].step = "read" /\ Drained(call[h].key)
    /\ LET t == call[h].key
       IN Make(t, IF file[t] = NoFile THEN {} ELSE file[t])
    /\ call' = [call EXCEPT ![h].session = NextSession, ![h].step = "spawn"]
    /\ UNCHANGED <<worker, process, fiber, storage, texts, outputs, calls>>

\* A running session is attached to as it is.  One that does not run, or whose
\* directory or environment differ, starts again with an empty history.
OpenExisting(t) ==
    /\ Exists(t)
    /\ StopAndPersist(sessions[t], {})
    /\ Begin("open", t, sessions[t], "persist")
    /\ UNCHANGED <<fiber, storage, outputs>>

Restart(t) ==
    /\ IF Exists(t)
         THEN StopAndPersist(sessions[t], {}) /\ Begin("restart", t, sessions[t], "persist")
         ELSE /\ SessionIsLeft /\ Make(t, {}) /\ Persist(t, {})
              /\ Begin("restart", t, NextSession, "persist")
              /\ UNCHANGED process
    /\ UNCHANGED <<fiber, storage, outputs>>

\* clear forgets the events that wait, an exit among them.
Clear(t) ==
    /\ Exists(t)
    /\ LET s == sessions[t] IN
         /\ session' = [session EXCEPT ![s] =
              [@ EXCEPT !.history = {}, !.pending = <<>>, !.draining = FALSE,
                        !.lossy = session[s].lossy \/ session[s].draining]]
         /\ order' = Touched(s)
         /\ Begin("clear", t, s, "persist")
    /\ Persist(t, {})
    /\ UNCHANGED <<sessions, process, fiber, storage, outputs>>

\* closeSession, with and without deleteHistory.
Close(t) ==
    /\ \E kind \in {"close", "delete"} :
         IF Exists(t)
           THEN /\ StopAndPersist(sessions[t], session[sessions[t]].history)
                /\ Begin(kind, t, sessions[t], "persist")
           ELSE /\ Begin(kind, t, None, "persist")
                /\ UNCHANGED <<worker, manager, process, texts>>
    /\ UNCHANGED <<fiber, storage, outputs>>

\* The persisted history is on the disk.  startSession marks the session, a
\* close takes whatever session the map has for the terminal.
Persisted(h) ==
    /\ call[h].step = "persist" /\ Drained(call[h].key)
    /\ LET s == call[h].session
           kind == call[h].kind
       IN CASE kind \in {"open", "restart"} ->
                 /\ session' = [session EXCEPT ![s].status = "starting"]
                 /\ order' = Touched(s)
                 /\ Step(h, "spawn")
                 /\ UNCHANGED sessions
            [] kind \in {"close", "delete"} ->
                 /\ sessions' = [sessions EXCEPT ![call[h].key] = None]
                 /\ IF kind = "delete" THEN Step(h, "delete") ELSE Return(h)
                 /\ UNCHANGED <<session, order>>
            [] kind = "clear" -> Return(h) /\ UNCHANGED manager
    /\ UNCHANGED <<worker, process, fiber, storage, texts, outputs, calls>>

DeleteHistory(h) ==
    /\ call[h].step = "delete"
    /\ file' = [file EXCEPT ![call[h].key] = NoFile]
    /\ Return(h)
    /\ UNCHANGED <<worker, manager, process, fiber, broken, texts, outputs, calls>>

\* The shell is there: its callbacks are registered and the session runs.
Spawned(h) ==
    /\ call[h].step = "spawn"
    /\ \E p \in Process :
         /\ process[p].state = "unborn" /\ \A q \in Process : q < p => process[q].state # "unborn"
         /\ LET s == call[h].session IN
              /\ process' = [process EXCEPT ![p].state = "alive", ![p].owner = s]
              /\ session' = [session EXCEPT ![s] =
                   [@ EXCEPT !.status = "running", !.shell = p, !.pending = <<>>,
                             !.draining = FALSE, !.lossy = FALSE,
                             !.stray = session[s].stray \/ sessions[session[s].key] # s]]
              /\ order' = Touched(s)
    /\ Return(h)
    /\ UNCHANGED <<worker, sessions, fiber, storage, texts, outputs, calls>>

SpawnFails(h) ==
    /\ call[h].step = "spawn"
    /\ LET s == call[h].session IN
         /\ session' = Halted(s, "error")
         /\ order' = Touched(s)
         /\ sessions' = Evict(sessions, session', order')
    /\ Return(h)
    /\ UNCHANGED <<worker, process, fiber, storage, texts, outputs, calls>>

-----------------------------------------------------------------------------
\* Shells and the fibers that drain their callbacks.

NoFiberLeft == \A f \in Fiber : fiber[f] # NoFiber
FreeFiber == Min({f \in Fiber : fiber[f] = NoFiber})

MustFork(s) == ~session[s].draining

\* enqueueProcessEvent: the event waits, and a fiber is there to take it.
Callback(p, event) ==
    LET s == process[p].owner
    IN /\ ~NoFiberLeft
       /\ session' = [session EXCEPT ![s].pending = Append(@, event), ![s].draining = TRUE]
       /\ fiber' = IF ~MustFork(s) THEN fiber
                   ELSE [fiber EXCEPT ![FreeFiber] =
                           [session |-> s, shell |-> p, step |-> "loop"]]

Output(p) ==
    /\ process[p].state = "alive" /\ process[p].owner # None
    /\ outputs < MaxOutputs /\ outputs' = outputs + 1
    /\ Callback(p, outputs')
    /\ UNCHANGED <<worker, sessions, order, process, call, storage, texts, calls>>

ShellExits(p) ==
    /\ process[p].state = "alive" /\ process[p].owner # None
    /\ process' = [process EXCEPT ![p].state = "dead"]
    /\ Callback(p, Exit)
    /\ UNCHANGED <<worker, sessions, order, call, storage, texts, outputs, calls>>

\* A shell that got its SIGTERM ends, with SIGKILL once the grace is over, or
\* that fails as well; nobody listens to its callbacks any more.
KillTimer(p) ==
    /\ process[p].killed
    /\ \E st \in {"dead", Escaped(process[p].state)} :
         process' = [process EXCEPT ![p].killed = FALSE, ![p].state = st]
    /\ UNCHANGED <<worker, manager, fiber, call, storage, texts, outputs, calls>>

\* The fiber finds its shell gone, or nothing to do.  What waits is dropped,
\* even if it is another shell's by now.
DrainIdle(f) ==
    LET s == fiber[f].session
        stale == session[s].shell # fiber[f].shell
    IN /\ fiber[f].step = "loop"
       /\ stale \/ session[s].pending = <<>>
       /\ session' = [session EXCEPT ![s] =
            [@ EXCEPT !.pending = <<>>, !.draining = FALSE,
                      !.lossy = session[s].lossy \/ (stale /\ session[s].draining)]]
       /\ fiber' = [fiber EXCEPT ![f] = NoFiber]
       /\ UNCHANGED <<worker, sessions, order, process, call, storage, texts, outputs, calls>>

\* The fiber's next event, if its shell is still there.
Draining(f) ==
    LET s == fiber[f].session
    IN /\ fiber[f].step = "loop" /\ session[s].shell = fiber[f].shell
       /\ session[s].pending # <<>>
Event(f) == Head(session[fiber[f].session].pending)

\* Mutant: what the fiber did not get to is dropped.
DropRest(pending) == <<>>
KeepRest(pending) == Tail(pending)

DrainOutput(f) ==
    /\ Draining(f) /\ Event(f) # Exit
    /\ LET s == fiber[f].session
           history == session[s].history \cup {Event(f)}
       IN /\ session' = [session EXCEPT ![s].history = history,
                                        ![s].pending = KeepRest(@)]
          /\ order' = Touched(s)
          /\ Persist(session[s].key, history)
    /\ fiber' = [fiber EXCEPT ![f].step = "publish"]
    /\ UNCHANGED <<sessions, process, call, storage, outputs, calls>>

DrainExit(f) ==
    /\ Draining(f) /\ Event(f) = Exit
    /\ session' = Halted(fiber[f].session, "exited")
    /\ process' = [process EXCEPT ![fiber[f].shell].owner = None]
    /\ order' = Touched(fiber[f].session)
    /\ fiber' = [fiber EXCEPT ![f].step = "exited"]
    /\ UNCHANGED <<worker, sessions, call, storage, texts, outputs, calls>>

\* The listeners took the event.
Published(f) ==
    /\ \/ /\ fiber[f].step = "publish"
          /\ fiber' = [fiber EXCEPT ![f].step = "loop"]
          /\ UNCHANGED sessions
       \/ /\ fiber[f].step = "exited"
          /\ fiber' = [fiber EXCEPT ![f] = NoFiber]
          /\ sessions' = Evict(sessions, session, order)
    /\ UNCHANGED <<worker, session, order, process, call, storage, texts, outputs, calls>>

-----------------------------------------------------------------------------
\* The worker: a key's value is the last history enqueued for it.  A write that
\* fails is logged, a process() that dies is the worker's to clean up.

\* Mutant: the first of the merged histories is written.
Oldest(items) == texts[Min(items)]
Merged(items) == texts[Max(items)]

Written ==
    /\ Succeed
    /\ LET t == running.key
       IN \/ /\ file' = [file EXCEPT ![t] = Merged(running.value)]
             /\ broken' = broken \ {t}
          \/ MayFail /\ UNCHANGED file /\ broken' = broken \cup {t}
    /\ UNCHANGED <<manager, process, fiber, call, texts, outputs, calls>>

WriteDies ==
    /\ Fail
    /\ broken' = broken \cup {running.key}
    /\ UNCHANGED <<file, manager, process, fiber, call, texts, outputs, calls>>

WorkerTurns ==
    /\ Take \/ Start \/ Requeue
    /\ UNCHANGED <<manager, process, fiber, call, storage, texts, outputs, calls>>

PersistWorker == Written \/ WriteDies \/ WorkerTurns

Calls == \E t \in Key : OpenNew(t) \/ OpenExisting(t) \/ Restart(t) \/ Clear(t) \/ Close(t)
CallSteps ==
    \E h \in Thread : ReadHistory(h) \/ Persisted(h) \/ DeleteHistory(h) \/ Spawned(h) \/ SpawnFails(h)
Shells == \E p \in Process : Output(p) \/ ShellExits(p) \/ KillTimer(p)
Drains == \E f \in Fiber : DrainIdle(f) \/ DrainOutput(f) \/ DrainExit(f) \/ Published(f)

Next == Calls \/ CallSteps \/ Shells \/ Drains \/ PersistWorker

Spec == Init /\ [][Next]_terminals

\* The worker's fiber is always rescheduled; files and spawns answer.
FairSpec ==
    /\ Spec
    /\ WF_terminals(PersistWorker)
    /\ \A h \in Thread : WF_terminals(ReadHistory(h) \/ Persisted(h) \/ DeleteHistory(h)
                                        \/ Spawned(h) \/ SpawnFails(h))
-----------------------------------------------------------------------------
TypeOK ==
    /\ WorkerTypeOK
    /\ sessions \in [Key -> Session \cup {None}]
    /\ \A s \in Session :
         /\ session[s].status \in {"none", "starting", "running", "exited", "error"}
         /\ (session[s].status = "running") = (session[s].shell # None)
         /\ session[s].pending # <<>> => session[s].draining
         /\ \A i \in DOMAIN session[s].pending : session[s].pending[i] \in 0 .. outputs
    /\ \A p \in Process :
         process[p].owner # None => session[process[p].owner].shell = p
    /\ \A t \in Key : file[t] = NoFile \/ file[t] \subseteq 1 .. outputs
    /\ broken \subseteq Key /\ Len(texts) = NextItem - 1

(* What a terminal shows and what its file holds agree once the writer has   *)
(* nothing of it: no debounce, merge, close, clear or restart loses or       *)
(* revives output (Manager.ts:854-914), unless a write failed.               *)
FileFollowsHistory ==
    \A t \in Key : Exists(t) /\ Drained(t) /\ t \notin broken
                   /\ (\A s \in Session : session[s].key = t => ~session[s].stray) =>
        file[t] = session[sessions[t]].history
        \/ (file[t] = NoFile /\ session[sessions[t]].history = {})

(* No shell is left behind: one that lives belongs to the session of its     *)
(* terminal or is being killed (Manager.ts:1217-1240), unless the system     *)
(* refused it a signal (787-808, 812-829) or its session was evicted while   *)
(* it was being started.                                                     *)
NoShellIsLost ==
    \A p \in Process : process[p].state \in {"alive", "escaped"} =>
        \/ process[p].killed
        \/ process[p].state = "escaped"
        \/ LET s == process[p].owner
           IN s # None /\ (sessions[session[s].key] = s \/ session[s].stray)

(* The manager learns of every exit: a session that says running while its   *)
(* shell is dead has the exit among its pending events and a fiber that will *)
(* get there, unless a clear or an old fiber dropped what waited             *)
(* (Manager.ts:1106-1215).                                                   *)
ExitIsNoticed ==
    \A s \in Session :
        /\ session[s].status = "running" /\ ~session[s].lossy
        /\ process[session[s].shell].state = "dead"
        => /\ Exit \in ToSet(session[s].pending)
           /\ \E f \in Fiber : fiber[f].session = s /\ fiber[f].shell = session[s].shell

(* Every call gives the thread's lock back once the shells fall silent,      *)
(* though the histories it waits for are merged, queue behind those of other *)
(* terminals and fail to be written: MaxOutputs is the silence, for a shell  *)
(* that prints within every debounce holds the worker at its key             *)
(* (KeyedCoalescingWorker.ts:36-55), and then no drain of any key ends.      *)
EveryCallReturns == \A h \in Thread : call[h] # NoCall ~> call[h] = NoCall
=============================================================================
