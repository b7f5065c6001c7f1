------------------------- MODULE OrchestrationEngine -------------------------
(***************************************************************************)
(* The orchestration engine of apps/server: one worker takes command       *)
(* envelopes from an unbounded queue, decides each against the in-memory   *)
(* read model, writes its events, the projection tables and the command's  *)
(* receipt in one SQLite transaction, installs the new read model,         *)
(* publishes the events to the process's subscribers, and answers the      *)
(* caller.  The decider and the two projections of the log, one in memory  *)
(* and one in the tables, are parameters: what is shown here holds for any *)
(* of them (OrchestrationDecider has the real ones).                       *)
(*                                                                         *)
(* The store is durable; the queue, the read model, the worker's position  *)
(* and what was published die with the process.                            *)
(***************************************************************************)
EXTENDS Naturals, Sequences, FiniteSets

CONSTANTS
    Call,            \* dispatch() calls of the server's clients
    NoCall,
    Command,         \* command ids
    CommandOf,       \* the command id each call carries: a retry is a second call
    Body,            \* event payloads
    Model,           \* read models, without their snapshotSequence
    EmptyModel,
    Table,           \* contents of the projection tables
    EmptyTable,
    History,         \* events in the store before the first boot
    Accepts(_, _),   \* the decider's preconditions
    EventsOf(_, _),  \* the payloads an accepted command produces
    Apply(_, _),     \* the in-memory projector: read model and event to read model
    Project(_, _),   \* the projection pipeline: tables and event to tables
    Load(_),         \* getSnapshot: the read model the tables hold
    Atomic,          \* TRUE: the SQL store; FALSE: a store that keeps what a
                     \* failed transaction appended
    Faults           \* the store operations that may fail, and "crash"

Event == [cmd : Command \cup {NoCall}, part : Nat, body : Body]

ASSUME CallAssumption ==
    /\ NoCall \notin Call \cup Command
    /\ CommandOf \in [Call -> Command]
ASSUME ModelAssumption == EmptyModel \in Model /\ EmptyTable \in Table
ASSUME ApplyAssumption ==
    \A m \in Model, b \in Body : Apply(m, b) \in Model
ASSUME ProjectAssumption ==
    \A d \in Table : Load(d) \in Model /\ \A b \in Body : Project(d, b) \in Table
ASSUME EventsAssumption ==
    \A m \in Model, c \in Command :
        Accepts(m, c) => EventsOf(m, c) \in Seq(Body) \ {<<>>}
ASSUME HistoryAssumption ==
    /\ History \in Seq(Event)
    /\ \A i \in 1 .. Len(History) : History[i].cmd = NoCall
ASSUME FaultsAssumption ==
    /\ Atomic \in BOOLEAN
    /\ Faults \subseteq {"lookup", "append", "project", "commit",
                         "reconcile", "reject", "crash"}

VARIABLES
    log,        \* orchestration_events: position i holds sequence i
    receipts,   \* orchestration_command_receipts
    db,         \* the projection tables
    dbSeq,      \* projection_state.lastAppliedSequence, in step for all projectors
    readModel,  \* the in-memory read model and ...
    snapSeq,    \* ... its snapshotSequence
    queue,      \* commandQueue
    pc,         \* where the worker is; "down" and "boot" when there is none
    cur,        \* the envelope the worker holds
    startSeq,   \* dispatchStartSequence
    tx,         \* the open transaction: events written and to write, model, tables
    outgoing,   \* events the worker still has to publish
    verdict,    \* the exit value the worker will give the envelope's Deferred
    published,  \* what eventPubSub carried since this boot
    bootSeq,    \* the sequence this boot's read model started from
    answer      \* what each call knows

durable == <<log, receipts, db, dbSeq>>
volatile == <<readModel, snapSeq, queue, cur, startSeq, tx, outgoing, verdict,
              published, bootSeq>>
vars == <<log, receipts, db, dbSeq, readModel, snapSeq, queue, pc, cur,
          startSeq, tx, outgoing, verdict, published, bootSeq, answer>>

Receipt == [status : {"none", "accepted", "rejected"}, seq : Nat]
NoReceipt == [status |-> "none", seq |-> 0]

\* "rejected": the invariant error; "previously": PreviouslyRejected;
\* "failed": a persistence error; "gone": the caller left before an answer.
Answer == [kind : {"new", "waiting", "accepted", "rejected", "previously",
                   "failed", "gone"}, seq : Nat]
Plain(k) == [kind |-> k, seq |-> 0]

Tx == [done : Seq(Event), todo : Seq(Body), model : Model, db : Table]
NoTx == [done |-> <<>>, todo |-> <<>>, model |-> EmptyModel, db |-> EmptyTable]

Running == pc \notin {"down", "boot"}
MayFail(op) == op \in Faults

Init ==
    /\ log = History
    /\ receipts = [c \in Command |-> NoReceipt]
    /\ db = EmptyTable /\ dbSeq = 0
    /\ readModel = EmptyModel /\ snapSeq = 0
    /\ queue = <<>> /\ pc = "boot" /\ cur = NoCall /\ startSeq = 0
    /\ tx = NoTx /\ outgoing = <<>> /\ verdict = Plain("new")
    /\ published = <<>> /\ bootSeq = 0
    /\ answer = [p \in Call |-> Plain("new")]

-----------------------------------------------------------------------------
(* Startup: the pipeline catches the projection tables up with the event    *)
(* store, then the engine loads its read model from them.                   *)

BootCatchUp ==
    /\ pc = "boot" /\ dbSeq < Len(log)
    /\ db' = Project(db, log[dbSeq + 1].body)
    /\ dbSeq' = dbSeq + 1
    /\ UNCHANGED <<log, receipts, volatile, pc, answer>>

\* Mutant: the read model is loaded without waiting for the catch-up.
BootDoneEarly ==
    /\ pc = "boot"
    /\ readModel' = Load(db) /\ snapSeq' = dbSeq /\ bootSeq' = dbSeq
    /\ pc' = "idle"
    /\ UNCHANGED <<durable, queue, cur, startSeq, tx, outgoing, verdict,
                   published, answer>>

BootDone ==
    /\ pc = "boot" /\ dbSeq = Len(log)
    /\ readModel' = Load(db) /\ snapSeq' = dbSeq /\ bootSeq' = dbSeq
    /\ pc' = "idle"
    /\ UNCHANGED <<durable, queue, cur, startSeq, tx, outgoing, verdict,
                   published, answer>>

Restart ==
    /\ pc = "down"
    /\ pc' = "boot"
    /\ UNCHANGED <<durable, volatile, answer>>

(* The process dies anywhere: the open transaction is gone, and so are the  *)
(* queue and the connections of the callers.                                *)
Crash ==
    /\ MayFail("crash") /\ pc # "down"
    /\ pc' = "down"
    /\ readModel' = EmptyModel /\ snapSeq' = 0 /\ bootSeq' = 0
    /\ queue' = <<>> /\ cur' = NoCall /\ startSeq' = 0
    /\ tx' = NoTx /\ outgoing' = <<>> /\ verdict' = Plain("new")
    /\ published' = <<>>
    /\ answer' = [p \in Call |->
                    IF answer[p].kind = "waiting" THEN Plain("gone") ELSE answer[p]]
    /\ UNCHANGED durable

-----------------------------------------------------------------------------
(* The callers.                                                             *)

Dispatch(p) ==
    /\ Running /\ answer[p].kind = "new"
    /\ queue' = Append(queue, p)
    /\ answer' = [answer EXCEPT ![p] = Plain("waiting")]
    /\ UNCHANGED <<durable, readModel, snapSeq, pc, cur, startSeq, tx, outgoing,
                   verdict, published, bootSeq>>

\* The awaiting fiber is interrupted; its envelope stays in the queue.
Abandon(p) ==
    /\ answer[p].kind = "waiting"
    /\ answer' = [answer EXCEPT ![p] = Plain("gone")]
    /\ UNCHANGED <<durable, volatile, pc>>

-----------------------------------------------------------------------------
(* The worker: processEnvelope.                                             *)

Take ==
    /\ pc = "idle" /\ queue # <<>>
    /\ cur' = Head(queue) /\ queue' = Tail(queue)
    /\ startSeq' = snapSeq
    /\ pc' = "lookup"
    /\ UNCHANGED <<durable, readModel, snapSeq, tx, outgoing, verdict, published,
                   bootSeq, answer>>

Cmd == CommandOf[cur]

\* Mutant: no receipt lookup.
NeverDuplicate == FALSE

Duplicate == receipts[Cmd].status # "none"

\* The receipt of an earlier dispatch of the same command decides the answer.
ReplayReceipt ==
    /\ pc = "lookup" /\ Duplicate
    /\ verdict' = IF receipts[Cmd].status = "accepted"
                    THEN [kind |-> "accepted", seq |-> receipts[Cmd].seq]
                    ELSE Plain("previously")
    /\ pc' = "reply"
    /\ UNCHANGED <<durable, readModel, snapSeq, queue, cur, startSeq, tx, outgoing,
                   published, bootSeq, answer>>

LookupFails ==
    /\ pc = "lookup" /\ MayFail("lookup")
    /\ verdict' = Plain("failed")
    /\ tx' = [NoTx EXCEPT !.model = readModel]
    /\ pc' = "reconcile"
    /\ UNCHANGED <<durable, readModel, snapSeq, queue, cur, startSeq, outgoing,
                   published, bootSeq, answer>>

DecideRejects ==
    /\ pc = "lookup" /\ ~Duplicate
    /\ ~Accepts(readModel, Cmd)
    /\ verdict' = Plain("rejected")
    /\ tx' = [NoTx EXCEPT !.model = readModel]
    /\ pc' = "reconcile"
    /\ UNCHANGED <<durable, readModel, snapSeq, queue, cur, startSeq, outgoing,
                   published, bootSeq, answer>>

DecideAccepts ==
    /\ pc = "lookup" /\ ~Duplicate
    /\ Accepts(readModel, Cmd)
    /\ tx' = [done |-> <<>>, todo |-> EventsOf(readModel, Cmd),
              model |-> readModel, db |-> db]
    /\ pc' = "tx"
    /\ UNCHANGED <<durable, readModel, snapSeq, queue, cur, startSeq, outgoing,
                   verdict, published, bootSeq, answer>>

\* Mutant: the event is tagged with its call instead of its command.
NextEventOfCall == [cmd |-> cur, part |-> Len(tx.done) + 1, body |-> Head(tx.todo)]

NextEvent == [cmd |-> Cmd, part |-> Len(tx.done) + 1, body |-> Head(tx.todo)]

\* Append one event, apply it to the next read model, project it to the tables:
\* two projections of the event, each with its own idea of what follows from it.
WriteEvent ==
    /\ pc = "tx" /\ tx.todo # <<>>
    /\ tx' = [done |-> Append(tx.done, NextEvent), todo |-> Tail(tx.todo),
              model |-> Apply(tx.model, Head(tx.todo)),
              db |-> Project(tx.db, Head(tx.todo))]
    /\ UNCHANGED <<durable, readModel, snapSeq, queue, pc, cur, startSeq, outgoing,
                   verdict, published, bootSeq, answer>>

\* Mutant: the events are appended outside the transaction.
RollBackTables(written) ==
    /\ log' = log \o written
    /\ UNCHANGED <<db, dbSeq, receipts>>

\* What a transaction that failed after writing `written` leaves in the store.
RollBack(written) ==
    /\ IF Atomic
         THEN UNCHANGED <<log, db, dbSeq>>
         ELSE /\ log' = log \o written
              /\ db' = tx.db
              /\ dbSeq' = IF tx.done = <<>> THEN dbSeq ELSE Len(log) + Len(tx.done)
    /\ UNCHANGED receipts

TxFails ==
    /\ pc = "tx"
    /\ \/ /\ MayFail("append") /\ tx.todo # <<>>
          /\ RollBack(tx.done)
       \/ /\ MayFail("project") /\ tx.todo # <<>>
          /\ RollBack(Append(tx.done, NextEvent))
       \/ /\ MayFail("commit") /\ tx.todo = <<>>
          /\ RollBack(tx.done)
    /\ verdict' = Plain("failed")
    /\ tx' = [NoTx EXCEPT !.model = readModel]
    /\ pc' = "reconcile"
    /\ UNCHANGED <<readModel, snapSeq, queue, cur, startSeq, outgoing, published,
                   bootSeq, answer>>

\* The receipt is the transaction's last write.
Commit ==
    /\ pc = "tx" /\ tx.todo = <<>>
    /\ log' = log \o tx.done
    /\ db' = tx.db /\ dbSeq' = Len(log')
    /\ receipts' = [receipts EXCEPT ![Cmd] =
                      [status |-> "accepted", seq |-> Len(log')]]
    /\ pc' = "install"
    /\ UNCHANGED <<volatile, answer>>

Install ==
    /\ pc = "install"
    /\ readModel' = tx.model /\ snapSeq' = Len(log)
    /\ outgoing' = tx.done
    /\ verdict' = [kind |-> "accepted", seq |-> Len(log)]
    /\ tx' = NoTx
    /\ pc' = "publish"
    /\ UNCHANGED <<durable, queue, cur, startSeq, published, bootSeq, answer>>

PublishOne ==
    /\ pc = "publish" /\ outgoing # <<>>
    /\ published' = Append(published, Head(outgoing))
    /\ outgoing' = Tail(outgoing)
    /\ UNCHANGED <<durable, readModel, snapSeq, queue, pc, cur, startSeq, tx,
                   verdict, bootSeq, answer>>

\* Mutant: the worker moves on while events are still to be published.
PublishDoneEarly ==
    /\ pc = "publish"
    /\ pc' = IF verdict.kind = "rejected" THEN "reject" ELSE "reply"
    /\ UNCHANGED <<durable, volatile, answer>>

\* Only an invariant error leaves a receipt; the upsert's own failure is dropped.
PublishDone ==
    /\ pc = "publish" /\ outgoing = <<>>
    /\ pc' = IF verdict.kind = "rejected" THEN "reject" ELSE "reply"
    /\ UNCHANGED <<durable, volatile, answer>>

-----------------------------------------------------------------------------
(* Reconciliation after a failure: events the store holds beyond            *)
(* dispatchStartSequence are applied to the read model and published.       *)

Reconciled == startSeq + Len(tx.done)

ReconcileRead ==
    /\ pc = "reconcile" /\ Reconciled < Len(log)
    /\ LET e == log[Reconciled + 1]
       IN tx' = [tx EXCEPT !.done = Append(@, e), !.model = Apply(@, e.body)]
    /\ UNCHANGED <<durable, readModel, snapSeq, queue, pc, cur, startSeq, outgoing,
                   verdict, published, bootSeq, answer>>

ReconcileDone ==
    /\ pc = "reconcile" /\ Reconciled >= Len(log)
    /\ readModel' = tx.model
    /\ snapSeq' = snapSeq + Len(tx.done)
    /\ outgoing' = tx.done
    /\ tx' = NoTx
    /\ pc' = "publish"
    /\ UNCHANGED <<durable, queue, cur, startSeq, verdict, published, bootSeq, answer>>

ReconcileFails ==
    /\ pc = "reconcile" /\ MayFail("reconcile")
    /\ tx' = NoTx
    /\ pc' = "publish"
    /\ UNCHANGED <<durable, readModel, snapSeq, queue, cur, startSeq, outgoing,
                   verdict, published, bootSeq, answer>>

RejectReceipt ==
    /\ pc = "reject"
    /\ \/ receipts' = [receipts EXCEPT ![Cmd] =
                         [status |-> "rejected", seq |-> snapSeq]]
       \/ MayFail("reject") /\ UNCHANGED receipts
    /\ pc' = "reply"
    /\ UNCHANGED <<log, db, dbSeq, volatile, answer>>

\* Mutant: a failed command leaves its caller waiting.
SettleAccepted(a) == IF verdict.kind = "accepted" THEN verdict ELSE a

Settle(a) == IF a.kind = "waiting" THEN verdict ELSE a

Reply ==
    /\ pc = "reply"
    /\ answer' = [answer EXCEPT ![cur] = Settle(@)]
    /\ pc' = "idle" /\ cur' = NoCall /\ startSeq' = 0 /\ verdict' = Plain("new")
    /\ UNCHANGED <<durable, readModel, snapSeq, queue, tx, outgoing, published,
                   bootSeq>>

-----------------------------------------------------------------------------
Boot == BootCatchUp \/ BootDone

Worker ==
    \/ Take \/ ReplayReceipt \/ LookupFails \/ DecideRejects \/ DecideAccepts
    \/ WriteEvent \/ TxFails \/ Commit \/ Install \/ PublishOne \/ PublishDone
    \/ ReconcileRead \/ ReconcileDone \/ ReconcileFails
    \/ RejectReceipt \/ Reply

Next ==
    \/ Boot \/ Worker
    \/ Restart \/ Crash
    \/ \E p \in Call : Dispatch(p) \/ Abandon(p)

Spec == Init /\ [][Next]_vars

\* The worker fiber runs forever while the process is up; nothing makes a
\* caller come, a crash happen or the process restart.
FairSpec == Spec /\ WF_vars(Boot) /\ WF_vars(Worker)
-----------------------------------------------------------------------------
TypeOK ==
    /\ log \in Seq(Event)
    /\ receipts \in [Command -> Receipt]
    /\ db \in Table /\ dbSeq \in Nat
    /\ readModel \in Model /\ snapSeq \in Nat
    /\ queue \in Seq(Call)
    /\ pc \in {"down", "boot", "idle", "lookup", "tx", "install", "publish",
               "reconcile", "reject", "reply"}
    /\ cur \in Call \cup {NoCall}
    /\ startSeq \in Nat
    /\ tx \in Tx
    /\ outgoing \in Seq(Event)
    /\ verdict \in Answer
    /\ published \in Seq(Event) /\ bootSeq \in Nat
    /\ answer \in [Call -> Answer]

\* What the tables hold after event n and what a process has in memory that
\* booted after event `boot`: up to its boot, what it would load from the tables.
Standing(boot, n, before, e) ==
    LET d == Project(before.db, e.body)
    IN [db |-> d,
        model |-> IF n <= boot THEN Load(d) ELSE Apply(before.model, e.body)]

\* The same after each prefix of a log, and after all of it.
ReplayTo(boot, events) ==
    LET r[n \in 0 .. Len(events)] ==
          IF n = 0 THEN [db |-> EmptyTable, model |-> Load(EmptyTable)]
          ELSE Standing(boot, n, r[n - 1], events[n])
    IN r
Replay(boot, events) == ReplayTo(boot, events)[Len(events)]

\* The boots of the process that may have written event i.
Boots(i) == IF Running /\ bootSeq < i THEN {bootSeq} ELSE 0 .. i - 1

\* Outside the window between a commit and the installation of its result, and
\* outside a reconciliation, memory and store agree.
Settled == pc \in {"idle", "lookup", "tx", "publish", "reject", "reply"}

(* The read model commands are decided against is what the tables held when  *)
(* the process booted and every event of the log since, whatever failed in   *)
(* between: a failed command leaves nothing of its transaction behind in     *)
(* memory, or reconciliation brings in what it left in the store             *)
(* (OrchestrationEngine.ts:93-110, 187).                                     *)
ReadModelIsReplay ==
    Settled => readModel = Replay(bootSeq, log).model /\ snapSeq = Len(log)

EventsAt(c) == {i \in DOMAIN log : log[i].cmd = c}

(* The log is a serial execution of the accepted commands: every command     *)
(* with an accepted receipt has exactly its events in the log, contiguous,   *)
(* as decided against the read model its process had after all events before *)
(* them; every other command has none.  A duplicate dispatch, a failed       *)
(* transaction and a crash add nothing.                                      *)
LogIsSerialExecution ==
    \A c \in Command :
        IF receipts[c].status # "accepted" THEN EventsAt(c) = {}
        ELSE LET last == receipts[c].seq
                 n == Cardinality(EventsAt(c))
             IN /\ EventsAt(c) = (last - n + 1) .. last
                /\ \E boot \in Boots(last - n + 1) :
                     LET before == ReplayTo(boot, log)[last - n].model
                     IN /\ Accepts(before, c)
                        /\ EventsOf(before, c) =
                             [k \in 1 .. n |-> log[last - n + k].body]

(* A caller that was told its command was accepted finds the command's last  *)
(* event in the log at the sequence it was given, in the read model it reads *)
(* next, and already sent to the subscribers.                                *)
AcceptedIsVisible ==
    \A p \in Call : answer[p].kind = "accepted" =>
        LET n == answer[p].seq
        IN /\ n \in EventsAt(CommandOf[p])
           /\ \A i \in EventsAt(CommandOf[p]) : i <= n
           /\ Running => n <= snapSeq /\ n <= bootSeq + Len(published)

(* Subscribers get each event of this boot once and in log order, and when   *)
(* the worker rests they have got all of them.                               *)
PublishedInOrder ==
    /\ \A i \in 1 .. Len(published) :
         bootSeq + i <= Len(log) /\ published[i] = log[bootSeq + i]
    /\ pc = "idle" => bootSeq + Len(published) = Len(log)

(* Every dispatched command is answered, unless its caller leaves or the     *)
(* process dies: no failure of the store stops the worker.                   *)
EveryCallSettles ==
    \A p \in Call : answer[p].kind = "waiting" ~> answer[p].kind # "waiting"

(* Every committed event reaches the subscribers unless the process dies     *)
(* first.                                                                    *)
CommittedIsPublished ==
    (Running /\ Len(log) > bootSeq + Len(published))
        ~> (~Running \/ Len(log) = bootSeq + Len(published))
-----------------------------------------------------------------------------
(* The engine implements the ledger: what a caller can observe is a verdict  *)
(* per command that never changes, however often the command is sent and     *)
(* whatever fails.                                                           *)
LedgerAnswer(a) ==
    CASE a.kind \in {"new", "waiting"} -> [kind |-> "open", seq |-> 0]
      [] a.kind \in {"rejected", "previously"} -> [kind |-> "rejected", seq |-> 0]
      [] OTHER -> a

Ledger == INSTANCE CommandLedger WITH
            verdicts <- receipts,
            answers <- [p \in Call |-> LedgerAnswer(answer[p])]

ImplementsLedger == Ledger!Spec
=============================================================================
