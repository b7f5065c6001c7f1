--------------------------- MODULE TurnCheckpoints ---------------------------
(***************************************************************************)
(* How the turns of one thread get their git checkpoints.  The provider's  *)
(* runtime events reach two workers: ProviderRuntimeIngestion, which keeps *)
(* the session's active turn and records a placeholder checkpoint when the *)
(* provider reports a diff, and CheckpointReactor, which captures the      *)
(* workspace into git refs, replaces placeholders and executes reverts.    *)
(* They meet in the orchestration engine, whose events come back to the    *)
(* reactor.  A dispatch is one step: the engine applies one command at a   *)
(* time to the read model and the turns table.  The workspace's contents   *)
(* are reduced to a version that every edit increments.                    *)
(***************************************************************************)
EXTENDS Naturals, Sequences, FiniteSets, FiniteSetsExt, SequencesExt

CONSTANTS
    Turn,         \* 1 .. n, in the order the user starts them
    MaxEdits,     \* bound: edits the agent makes in a turn
    MaxReverts,   \* bound: reverts the user asks for
    Faults        \* the reactor's calls that may fail

ASSUME TurnAssumption == IsFiniteSet(Turn) /\ Turn = 1 .. Cardinality(Turn)
ASSUME BoundAssumption ==
    /\ MaxEdits \in Nat /\ MaxReverts \in Nat
    /\ Faults \subseteq {"capture", "rollback", "delete", "complete"}

\* Bound: the turn counts the user asks to revert to.
Asked == 0 .. Cardinality(Turn) + 1
NoTurn == 0

\* `git` tells a checkpoint ref from the `provider-diff:` ref of a placeholder.
NoCheckpoint == [status |-> "none", count |-> 0, git |-> FALSE]
Checkpoint ==
    {NoCheckpoint} \cup [status : {"missing", "ready"}, count : Nat \ {0}, git : BOOLEAN]

VARIABLES
    provider,    \* the turn the agent runs, the turns it has taken, the edits made
    content,     \* the version of the workspace
    toIngest,    \* runtime events for the ingestion's worker
    runtimeSub,  \* runtime events for the reactor
    domainSub,   \* domain events for the reactor
    active,      \* thread.session.activeTurnId
    memory,      \* thread.checkpoints of the in-memory read model
    table,       \* the checkpoint columns of projection_turns
    refs,        \* the refs there are, by count, with the content captured
    ingest,      \* the placeholder the ingestion is about to dispatch
    job,         \* what the reactor's worker is doing
    failed,      \* turns with a "checkpoint.capture.failed" activity
    reverts,     \* reverts asked for
    lost         \* counts whose refs went in a revert that failed, and have none since

vars == <<provider, content, toIngest, runtimeSub, domainSub, active,
          memory, table, refs, ingest, job, failed, reverts, lost>>
world == <<provider, content>>
engine == <<active, memory, table, failed>>

NoPlaceholder == [turn |-> NoTurn, count |-> 0]
Job(step, turn, cp) == [step |-> step, turn |-> turn, cp |-> cp]
Idle == Job("idle", NoTurn, NoCheckpoint)

Real(cp) == cp.status \notin {"none", "missing"}
Tracked == {t \in Turn : memory[t].status # "none"}
MaxCount == Max({0} \cup {memory[t].count : t \in Tracked})

Init ==
    /\ provider = [turn |-> NoTurn, taken |-> 0, edits |-> 0]
    /\ content = 0
    /\ toIngest = <<>> /\ runtimeSub = <<>> /\ domainSub = <<>>
    /\ active = NoTurn
    /\ memory = [t \in Turn |-> NoCheckpoint]
    /\ table = [t \in Turn |-> NoCheckpoint]
    /\ refs = [n \in {} |-> 0]
    /\ ingest = NoPlaceholder /\ job = Idle /\ failed = {} /\ reverts = 0
    /\ lost = {}

-----------------------------------------------------------------------------
(* The provider and the user.                                               *)

\* The PubSub of providerService.streamEvents hands each subscriber every event.
Emit(type, t, status) ==
    LET e == [type |-> type, turn |-> t, status |-> status]
    IN /\ toIngest' = Append(toIngest, e)
       /\ runtimeSub' = IF type = "diff" THEN runtimeSub ELSE Append(runtimeSub, e)

\* thread.turn.start is in the log before the agent hears of the turn.
StartTurn(t) ==
    /\ provider.turn = NoTurn /\ t = provider.taken + 1
    /\ provider' = [turn |-> t, taken |-> t, edits |-> 0]
    /\ domainSub' = Append(domainSub, [type |-> "turn-start", turn |-> t, count |-> 0])
    /\ Emit("started", t, "ready")
    /\ UNCHANGED <<content, engine, refs, ingest, job, reverts, lost>>

\* The agent edits the workspace; Codex reports the turn's diff, others do not.
Edit ==
    /\ provider.turn # NoTurn /\ provider.edits < MaxEdits
    /\ provider' = [provider EXCEPT !.edits = @ + 1]
    /\ content' = content + 1
    /\ \/ Emit("diff", provider.turn, "ready")
       \/ UNCHANGED <<toIngest, runtimeSub>>
    /\ UNCHANGED <<domainSub, engine, refs, ingest, job, reverts, lost>>

\* checkpointStatusFromRuntime: an interrupted turn completes as "missing".
EndTurn ==
    /\ provider.turn # NoTurn
    /\ provider' = [provider EXCEPT !.turn = NoTurn]
    /\ \E status \in {"ready", "missing"} : Emit("completed", provider.turn, status)
    /\ UNCHANGED <<content, domainSub, engine, refs, ingest, job, reverts, lost>>

RequestRevert(n) ==
    /\ reverts < MaxReverts
    /\ reverts' = reverts + 1
    /\ domainSub' = Append(domainSub, [type |-> "revert", turn |-> NoTurn, count |-> n])
    /\ UNCHANGED <<world, toIngest, runtimeSub, engine, refs, ingest, job, lost>>

-----------------------------------------------------------------------------
(* The engine on thread.turn.diff.complete and thread.revert.complete.      *)

\* Mutant: any checkpoint replaces the turn's previous one.
AlwaysKeep(t, cp) == [memory EXCEPT ![t] = cp]

\* The in-memory projector: a placeholder does not overwrite a real checkpoint.
Keep(t, cp) ==
    IF Real(memory[t]) /\ cp.status = "missing" THEN memory
    ELSE [memory EXCEPT ![t] = cp]

\* The turns projector: the last write counts, and takes its turn count from
\* whatever other turn has it.
Write(t, cp) ==
    [u \in Turn |-> IF u = t THEN cp
                    ELSE IF table[u].status # "none" /\ table[u].count = cp.count
                           THEN NoCheckpoint ELSE table[u]]

DiffCompleted(status) ==
    IF status = "missing" THEN "diff-completed-missing" ELSE "diff-completed-ready"

DiffComplete(t, cp) ==
    /\ memory' = Keep(t, cp)
    /\ table' = Write(t, cp)
    /\ domainSub' = Append(domainSub, [type |-> DiffCompleted(cp.status),
                                       turn |-> t, count |-> cp.count])

UpTo(n, rows) ==
    [t \in Turn |-> IF rows[t].count <= n THEN rows[t] ELSE NoCheckpoint]

-----------------------------------------------------------------------------
(* ProviderRuntimeIngestion.                                                *)

Ingesting == ingest = NoPlaceholder /\ toIngest # <<>>

\* A turn starts unless another is active, and only the active turn ends.
IngestLifecycle ==
    /\ Ingesting /\ Head(toIngest).type \in {"started", "completed"}
    /\ toIngest' = Tail(toIngest)
    /\ LET e == Head(toIngest) IN
         active' = IF active \notin {NoTurn, e.turn} THEN active
                   ELSE IF e.type = "started" THEN e.turn ELSE NoTurn
    /\ UNCHANGED <<world, runtimeSub, domainSub, memory, table, refs, ingest,
                   job, failed, reverts, lost>>

\* The read model is read here and the placeholder dispatched later.
IngestDiff ==
    /\ Ingesting /\ Head(toIngest).type = "diff"
    /\ toIngest' = Tail(toIngest)
    /\ ingest' = IF Head(toIngest).turn \in Tracked THEN NoPlaceholder
                 ELSE [turn |-> Head(toIngest).turn, count |-> MaxCount + 1]
    /\ UNCHANGED <<world, runtimeSub, domainSub, engine, refs, job, reverts, lost>>

DispatchPlaceholder ==
    /\ ingest # NoPlaceholder
    /\ DiffComplete(ingest.turn,
                    [status |-> "missing", count |-> ingest.count, git |-> FALSE])
    /\ ingest' = NoPlaceholder
    /\ UNCHANGED <<world, toIngest, runtimeSub, active, refs, job, failed, reverts, lost>>

-----------------------------------------------------------------------------
(* CheckpointReactor: one worker, fed by both subscriptions.                *)

Resting == job = Idle
NextRuntime(type) == /\ Resting /\ runtimeSub # <<>> /\ Head(runtimeSub).type = type
                     /\ runtimeSub' = Tail(runtimeSub) /\ UNCHANGED domainSub
NextDomain(type) == /\ Resting /\ domainSub # <<>> /\ Head(domainSub).type = type
                    /\ domainSub' = Tail(domainSub) /\ UNCHANGED runtimeSub

\* Both kinds of turn start ask for a baseline at the current turn count.
TakeTurnStart ==
    /\ NextRuntime("started") \/ NextDomain("turn-start")
    /\ job' = Job("baseline", NoTurn,
                  [status |-> "none", count |-> MaxCount, git |-> TRUE])
    /\ UNCHANGED <<world, toIngest, engine, refs, ingest, reverts, lost>>

\* A capture makes the ref or replaces it.
CaptureRef(n) == [m \in DOMAIN refs \cup {n} |-> IF m = n THEN content ELSE refs[m]]
StillLost == lost' = lost \ DOMAIN refs'

CaptureBaseline ==
    /\ job.step = "baseline"
    /\ refs' = IF job.cp.count \in DOMAIN refs THEN refs ELSE CaptureRef(job.cp.count)
    /\ job' = Idle /\ StillLost
    /\ UNCHANGED <<world, toIngest, runtimeSub, domainSub, engine, ingest, reverts>>

\* Mutant: a new checkpoint gets the highest count there is.
CountAgain(t) == IF t \in Tracked THEN memory[t].count ELSE MaxCount

CountFor(t) == IF t \in Tracked THEN memory[t].count ELSE MaxCount + 1

\* Mutant: a placeholder counts as a checkpoint already captured.
AnyCheckpoint(t) == memory[t].status # "none"

Captured(t) == Real(memory[t])

\* captureCheckpointFromTurnCompletion, to the end of its guards.
TakeTurnCompleted ==
    /\ NextRuntime("completed")
    /\ LET e == Head(runtimeSub)
           skip == active \notin {NoTurn, e.turn} \/ Captured(e.turn)
       IN job' = IF skip THEN Idle
                 ELSE Job("capture", e.turn, [status |-> e.status,
                                              count |-> CountFor(e.turn),
                                              git |-> TRUE])
    /\ UNCHANGED <<world, toIngest, engine, refs, ingest, reverts, lost>>

\* captureCheckpointFromPlaceholder: at the event's turn count, as "ready".
TakePlaceholder ==
    /\ NextDomain("diff-completed-missing")
    /\ LET e == Head(domainSub) IN
         job' = IF Captured(e.turn) THEN Idle
                ELSE Job("capture", e.turn, [status |-> "ready",
                                             count |-> e.count, git |-> TRUE])
    /\ UNCHANGED <<world, toIngest, engine, refs, ingest, reverts, lost>>

TakeOwnCapture ==
    /\ NextDomain("diff-completed-ready")
    /\ UNCHANGED <<world, toIngest, engine, refs, ingest, job, reverts, lost>>

Capture ==
    /\ job.step = "capture"
    /\ \/ /\ refs' = CaptureRef(job.cp.count)
          /\ job' = [job EXCEPT !.step = "report"] /\ UNCHANGED failed
       \/ /\ "capture" \in Faults
          /\ job' = Idle /\ failed' = failed \cup {job.turn} /\ UNCHANGED refs
    /\ StillLost
    /\ UNCHANGED <<world, toIngest, runtimeSub, domainSub, active, memory, table,
                   ingest, reverts>>

Report ==
    /\ job.step = "report"
    /\ DiffComplete(job.turn, job.cp)
    /\ job' = Idle
    /\ UNCHANGED <<world, toIngest, runtimeSub, active, refs, ingest, failed, reverts, lost>>

Found(n) == {t \in Tracked : memory[t].count = n}

\* handleRevertRequested up to the restore.  A revert to an unknown or
\* uncaptured checkpoint fails; one to 0 falls back to HEAD.  Where two turns
\* have the count, either may be the one found.
TakeRevert ==
    /\ NextDomain("revert")
    /\ LET n == Head(domainSub).count
           stale == {memory[t].count : t \in {u \in Tracked : memory[u].git /\
                                                 memory[u].count > n}}
       IN \/ /\ n > 0 => n \in DOMAIN refs /\ \E t \in Found(n) : memory[t].git
             /\ content' = IF n \in DOMAIN refs THEN refs[n] ELSE 0
             /\ job' = [step |-> "rollback", count |-> n, stale |-> stale]
          \/ /\ n > 0
             /\ n \notin DOMAIN refs \/ Found(n) = {} \/ \E t \in Found(n) : ~memory[t].git
             /\ UNCHANGED <<content, job>>
    /\ UNCHANGED <<provider, toIngest, engine, refs, ingest, reverts, lost>>

\* The provider drops its last turns; if it cannot, nothing else is reverted.
Rollback ==
    /\ job.step = "rollback"
    /\ \/ job' = [job EXCEPT !.step = "delete"]
       \/ "rollback" \in Faults /\ job' = Idle
    /\ UNCHANGED <<world, toIngest, runtimeSub, domainSub, engine, refs, ingest,
                   reverts, lost>>

\* Mutant: the checkpoint reverted to is deleted with the later ones.
DeleteFrom(gone) == [c \in DOMAIN refs \ (gone \cup {job.count}) |-> refs[c]]

Delete(gone) == [c \in DOMAIN refs \ gone |-> refs[c]]

\* One git call per ref.  One that exits with an error leaves its ref behind
\* unnoticed; one that cannot run ends the revert.
DeleteStale ==
    /\ job.step = "delete"
    /\ \E gone \in SUBSET job.stale :
         /\ gone = job.stale \/ "delete" \in Faults
         /\ refs' = Delete(gone)
         /\ \/ job' = [job EXCEPT !.step = "complete"] /\ UNCHANGED lost
            \/ "delete" \in Faults /\ job' = Idle /\ lost' = lost \cup gone
    /\ UNCHANGED <<world, toIngest, runtimeSub, domainSub, engine, ingest, reverts>>

\* thread.revert.complete.  Where it fails, an activity is appended if that can
\* be, and the read model keeps the checkpoints.
CompleteRevert ==
    /\ job.step = "complete"
    /\ \/ memory' = UpTo(job.count, memory) /\ table' = UpTo(job.count, table)
          /\ UNCHANGED lost
       \/ /\ "complete" \in Faults /\ lost' = lost \cup (job.stale \ DOMAIN refs)
          /\ UNCHANGED <<memory, table>>
    /\ job' = Idle
    /\ UNCHANGED <<world, toIngest, runtimeSub, domainSub, active, refs, ingest,
                   failed, reverts>>

-----------------------------------------------------------------------------
Provider == Edit \/ EndTurn \/ \E t \in Turn : StartTurn(t)
Ingestion == IngestLifecycle \/ IngestDiff \/ DispatchPlaceholder
Reactor ==
    \/ TakeTurnStart \/ CaptureBaseline
    \/ TakeTurnCompleted \/ TakePlaceholder \/ TakeOwnCapture \/ Capture \/ Report
    \/ TakeRevert \/ Rollback \/ DeleteStale \/ CompleteRevert

Next ==
    \/ Provider \/ Ingestion \/ Reactor
    \/ \E n \in Asked : RequestRevert(n)

Spec == Init /\ [][Next]_vars
-----------------------------------------------------------------------------
TypeOK ==
    /\ provider \in [turn : {NoTurn} \cup Turn, taken : Nat, edits : 0 .. MaxEdits]
    /\ content \in Nat
    /\ active \in {NoTurn} \cup Turn
    /\ memory \in [Turn -> Checkpoint] /\ table \in [Turn -> Checkpoint]
    /\ DOMAIN refs \subseteq Nat /\ \A n \in DOMAIN refs : refs[n] \in Nat
    /\ ingest \in {NoPlaceholder} \cup [turn : Turn, count : Nat \ {0}]
    /\ \/ job \in [step : {"idle", "baseline", "capture", "report"},
                   turn : {NoTurn} \cup Turn,
                   cp : [status : {"none", "missing", "ready"}, count : Nat, git : BOOLEAN]]
       \/ job \in [step : {"rollback", "delete", "complete"},
                   count : Nat, stale : SUBSET Nat]
    /\ failed \subseteq Turn /\ reverts \in 0 .. MaxReverts /\ lost \subseteq Nat

(* A captured checkpoint of the read model is replaced by nothing, whatever  *)
(* placeholders, completions and captures are still under way: it stands     *)
(* until a revert removes it (projector.ts:545-558).                         *)
CapturesStand ==
    [][\A t \in Turn : Captured(t) =>
          memory'[t] = memory[t] \/ job.step = "complete"]_vars

(* Every checkpoint the read model gives a git ref has that ref in the       *)
(* repository, so that its diff and a revert to it work, except while a      *)
(* revert that deleted it is not reported yet, and after one that failed     *)
(* between the two: no other step, and no other failure, takes a ref from    *)
(* under a checkpoint (CheckpointReactor.ts:192-322, 675-710).               *)
RefsBackCheckpoints ==
    job.step # "complete" =>
        \A t \in Turn : memory[t].git /\ memory[t].count \notin DOMAIN refs =>
                          memory[t].count \in lost

(* A placeholder is never forgotten: until a capture replaces it or a revert *)
(* removes it, the reactor still has to react to it, is capturing its turn,  *)
(* or has told the thread that a capture failed - even when the turn's       *)
(* completion is late or skipped (CheckpointReactor.ts:732-747).             *)
PlaceholderIsDue ==
    \A t \in Turn : memory[t].status = "missing" =>
        \/ t \in failed
        \/ job.step \in {"capture", "report"} /\ job.turn = t
        \/ \E i \in DOMAIN domainSub : /\ domainSub[i].type = "diff-completed-missing"
                                       /\ domainSub[i].turn = t

(* What the read model has captured, the turns table has too: a restart      *)
(* loads the same checkpoints (ProviderRuntimeIngestion.ts:1182-1185).       *)
StoreKeepsCaptures ==
    \A t \in Turn : Captured(t) => Real(table[t])
=============================================================================
