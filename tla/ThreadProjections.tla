--------------------------- MODULE ThreadProjections ---------------------------
(***************************************************************************)
(* The projection pipeline running the projectors of one thread's messages *)
(* and turns, next to the in-memory projector that folds the same events.  *)
(* Both forget messages when a thread is reverted, each by an algorithm of *)
(* its own: the tables go by the rows of the turns, memory by checkpoints. *)
(* A user message belongs to no turn when it is sent: message k asks for   *)
(* turn k, and only the turns projector notes which turn came of it.  The  *)
(* numbers of the user messages follow the time they were created.  The    *)
(* two events of a turn start are one here, and the status of a checkpoint *)
(* is left to TurnCheckpoints: each turn reports one.                      *)
(***************************************************************************)
EXTENDS ProjectionPipeline

CONSTANTS
    Turn,        \* 1 .. n: user messages, and the turns they ask for
    History      \* events the thread may have before the first boot

None == 0
Count == 0 .. Cardinality(Turn)
Event == [type : {"turn-start", "running", "assistant", "diff"}, turn : Turn, count : Count]
             \cup [type : {"reverted"}, turn : {None}, count : Count]

\* No user message is sent twice.
AskedOnce(evs) ==
    \A i, j \in 1 .. Len(evs) :
        evs[i].type = "turn-start" /\ evs[j].type = "turn-start" /\ evs[i].turn = evs[j].turn
            => i = j

Unreverted(evs) == \A i \in 1 .. Len(evs) : evs[i].type # "reverted"

ASSUME TurnAssumption == IsFiniteSet(Turn) /\ Turn = 1 .. Cardinality(Turn)
ASSUME ProjectorsAssumption ==
    /\ {"messages", "turns"} \subseteq Projector
    /\ \A new \in Missing : "messages" \in new <=> "turns" \in new
ASSUME HistoryAssumption ==
    /\ History \in Seq(Event) /\ MaxBacklog <= Len(History)
    /\ AskedOnce(History) /\ Unreverted(History)

Message == [role : {"user", "assistant"}, turn : Turn]
TurnRow == [turn : BOOLEAN, pendingMessage : Turn \cup {None}, count : Count]
NoRow == [turn |-> FALSE, pendingMessage |-> None, count |-> None]

VARIABLES
    events,   \* the thread's events in the store
    tables,   \* projection_thread_messages, projection_turns, the pending row
    memory    \* messages and checkpoints of the in-memory read model

threadVars == <<head, rows, cursor, pc, at, page, quota, snapSeq, events, tables,
                memory>>

NoTables == [messages |-> {}, turns |-> [t \in Turn |-> NoRow], pending |-> None]
NoMemory == [messages |-> {}, checkpoints |-> [t \in Turn |-> None]]
User(k) == [role |-> "user", turn |-> k]
Assistant(t) == [role |-> "assistant", turn |-> t]

Users(messages) == {m \in messages : m.role = "user"}
Rank(users, m) == Cardinality({o \in users : o.turn <= m.turn})

Kept(counts, n) == {t \in Turn : counts[t] \in 1 .. n}
CountsOf(turns) == [t \in Turn |-> turns[t].count]

-----------------------------------------------------------------------------
(* What a revert to turn count n leaves of the messages.                    *)

\* When fewer than n user messages are known to belong to kept turns, the
\* earliest others stand in for the rest.
StandIns(messages, known, n) ==
    LET others == Users(messages) \ known
    IN {m \in others : Cardinality(Users(known)) + Rank(others, m) <= n}

Retain(messages, known, n) == known \cup StandIns(messages, known, n)

\* Mutant: user messages are kept by their number only.
KnownByReplies(messages, turns, n) ==
    {m \in messages : m.role = "assistant" /\ m.turn \in Kept(CountsOf(turns), n)}

KnownToTables(messages, turns, n) ==
    LET kept == Kept(CountsOf(turns), n)
    IN {m \in messages :
          IF m.role = "assistant" THEN m.turn \in kept
          ELSE \E t \in kept : turns[t].pendingMessage = m.turn}

\* Mutant: the turn reverted to is not kept itself.
KnownBelow(messages, checkpoints, n) ==
    {m \in messages :
       m.role = "assistant" /\ m.turn \in Kept(checkpoints, n) \ {t \in Turn : checkpoints[t] = n}}

KnownToMemory(messages, checkpoints, n) ==
    {m \in messages : m.role = "assistant" /\ m.turn \in Kept(checkpoints, n)}

Upsert(messages, m) == messages \cup {m}

-----------------------------------------------------------------------------
(* The projectors: each a step of the tables tb for the event e.            *)

ApplyMessages(tb, e) ==
    CASE e.type = "turn-start" -> Upsert(tb.messages, User(e.turn))
      [] e.type = "assistant" -> Upsert(tb.messages, Assistant(e.turn))
      [] e.type = "reverted" ->
           Retain(tb.messages, KnownToTables(tb.messages, tb.turns, e.count), e.count)
      [] OTHER -> tb.messages

\* The pending message goes to the turn that runs next, unless it has one.
RunningRow(row, pending) ==
    [row EXCEPT !.turn = TRUE,
                !.pendingMessage = IF @ = None THEN pending ELSE @]

\* clearCheckpointTurnConflict, then the turn's own row.
Checkpointed(turns, e) ==
    [t \in Turn |->
       IF t = e.turn THEN [turns[t] EXCEPT !.turn = TRUE, !.count = e.count]
       ELSE IF turns[t].count = e.count THEN [turns[t] EXCEPT !.count = None]
       ELSE turns[t]]

ApplyTurns(tb, e) ==
    CASE e.type = "running" -> [tb.turns EXCEPT ![e.turn] = RunningRow(@, tb.pending)]
      [] e.type = "assistant" -> [tb.turns EXCEPT ![e.turn].turn = TRUE]
      [] e.type = "diff" -> Checkpointed(tb.turns, e)
      [] e.type = "reverted" ->
           [t \in Turn |-> IF t \in Kept(CountsOf(tb.turns), e.count)
                             THEN tb.turns[t] ELSE NoRow]
      [] OTHER -> tb.turns

ApplyPending(tb, e) ==
    CASE e.type = "turn-start" -> e.turn
      [] e.type \in {"running", "reverted"} -> None
      [] OTHER -> tb.pending

Project(p, tb, e) ==
    CASE p = "messages" -> [tb EXCEPT !.messages = ApplyMessages(tb, e)]
      [] p = "turns" -> [tb EXCEPT !.turns = ApplyTurns(tb, e),
                                   !.pending = ApplyPending(tb, e)]
      [] OTHER -> tb

\* All projectors, in their order: messages are retained by the turns as they
\* were before the event.
ProjectAll(tb, e) == Project("turns", Project("messages", tb, e), e)

ApplyMessageSent(m) == [memory EXCEPT !.messages = Upsert(@, m)]

ApplyEvent(e) ==
    CASE e.type = "turn-start" -> ApplyMessageSent(User(e.turn))
      [] e.type = "assistant" -> ApplyMessageSent(Assistant(e.turn))
      [] e.type = "diff" ->
           [memory EXCEPT !.checkpoints[e.turn] = e.count]
      [] e.type = "reverted" ->
           [messages |-> Retain(memory.messages,
                KnownToMemory(memory.messages, memory.checkpoints, e.count), e.count),
            checkpoints |-> [t \in Turn |->
                IF t \in Kept(memory.checkpoints, e.count)
                  THEN memory.checkpoints[t] ELSE None]]
      [] OTHER -> memory

\* getSnapshot at the end of boot.
LoadModel == [messages |-> tables.messages, checkpoints |-> CountsOf(tables.turns)]

-----------------------------------------------------------------------------
(* What the engine may append next.                                         *)

Logged(type) == {events[i].turn : i \in {j \in DOMAIN events : events[j].type = type}}
MaxCount == Max({0} \cup {memory.checkpoints[t] : t \in Turn})
Entry(type, t, n) == [type |-> type, turn |-> t, count |-> n]

\* Turns run in the order they were asked for; one may fail to start.  The
\* session is set again while its turn runs.  Replies and checkpoints may be
\* late, even after a revert, and a checkpoint numbered from an old snapshot
\* may repeat the last number.
Offered ==
    LET asked == Logged("turn-start")
        ran == Logged("running")
    IN {Entry("turn-start", t, None) : t \in {u \in Turn : asked = 1 .. u - 1}}
       \cup {Entry("running", t, None) : t \in {u \in asked : \A v \in ran : v <= u}}
       \cup {Entry("assistant", t, None) : t \in ran \ Logged("assistant")}
       \cup {Entry("diff", t, n) : t \in ran \ Logged("diff"),
                                    n \in {MaxCount, MaxCount + 1} \cap Turn}
       \cup {Entry("reverted", None, n) : n \in {k \in Count : k <= MaxCount}}

\* The tables after each event of the history.
Rebuilt[n \in 0 .. Len(History)] ==
    IF n = 0 THEN NoTables ELSE ProjectAll(Rebuilt[n - 1], History[n])

ThreadInit ==
    /\ Init
    /\ events = SubSeq(History, 1, head)
    /\ tables = IF cursor["messages"] = head THEN Rebuilt[head] ELSE NoTables
    /\ memory = NoMemory

ThreadBoot == (Boot \/ BootNext) /\ UNCHANGED <<events, tables, memory>>

ThreadBootApply ==
    /\ BootApply
    /\ tables' = Project(Projectors[at], tables, events[Head(page)])
    /\ UNCHANGED <<events, memory>>

ThreadBootDone == BootDone /\ memory' = LoadModel /\ UNCHANGED <<events, tables>>

\* projectEvent in the engine's transaction, projectEvent of the read model
\* after it.
ThreadLive(e) ==
    /\ Live
    /\ events' = Append(events, e)
    /\ tables' = ProjectAll(tables, e)
    /\ memory' = ApplyEvent(e)

ThreadCrash == Crash /\ memory' = NoMemory /\ UNCHANGED <<events, tables>>

ThreadNext ==
    \/ ThreadBoot \/ ThreadBootApply \/ ThreadBootDone
    \/ \E e \in Offered : ThreadLive(e)
    \/ ThreadCrash

ThreadSpec == ThreadInit /\ [][ThreadNext]_threadVars
-----------------------------------------------------------------------------
(* With the server up no turn of the tables has lost the user message that   *)
(* started it, and no reply has lost its turn, whatever was reverted in      *)
(* between (ProjectionPipeline.ts:104-190, 816-1085;                         *)
(* ProjectionPipeline.test.ts:1830).                                         *)
TurnsKeepTheirMessages ==
    pc = "up" =>
        /\ \A t \in Turn : LET k == tables.turns[t].pendingMessage
                            IN k # None => User(k) \in tables.messages
        /\ \A m \in tables.messages :
              m.role = "assistant" => tables.turns[m.turn].turn

\* The checkpoints number the user messages: number n is the turn that the
\* n-th of them started.
Numbered ==
    \A t \in Turn : memory.checkpoints[t] # None =>
        LET m == User(tables.turns[t].pendingMessage)
        IN /\ m \in memory.messages
           /\ Rank(Users(memory.messages), m) = memory.checkpoints[t]

(* As long as that is so, the two algorithms forget the same messages and    *)
(* checkpoints: what the running server shows and what it would show after   *)
(* a restart stay the same (projector.ts:80-135, ProjectionPipeline.ts:      *)
(* 104-190, ProjectionSnapshotQuery.ts:300-320).                             *)
ViewsStayEqual ==
    [][pc = "up" /\ pc' = "up" /\ memory = LoadModel /\ Numbered /\ Numbered'
         => memory' = LoadModel']_threadVars
=============================================================================
