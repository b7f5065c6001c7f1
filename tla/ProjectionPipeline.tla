-------------------------- MODULE ProjectionPipeline --------------------------
(***************************************************************************)
(* How the projection tables follow the event store.  Every projector has  *)
(* a cursor in projection_state, written in the same transaction as the    *)
(* rows it changed.  A live event runs through all projectors inside the   *)
(* engine's transaction; at startup each projector in turn replays what    *)
(* lies behind its cursor, one transaction per event.  Rows are reduced to *)
(* the sequences a projector applied, in order.                            *)
(***************************************************************************)
EXTENDS Naturals, Sequences, FiniteSets, FiniteSetsExt

CONSTANTS
    Projectors,    \* the projectors' names in their running order
    Required,      \* REQUIRED_SNAPSHOT_PROJECTORS
    Missing,       \* sets of projectors whose tables may still have to be built
    ReadLimit,     \* DEFAULT_READ_FROM_SEQUENCE_LIMIT
    PageSize,      \* READ_PAGE_SIZE
    MaxBacklog,    \* bound: events in the store before the first boot
    MaxLog         \* bound: events in the store

Projector == {Projectors[i] : i \in DOMAIN Projectors}

ASSUME NamesAssumption ==
    /\ Projectors \in Seq(Projector) /\ Cardinality(Projector) = Len(Projectors)
    /\ Required \subseteq Projector /\ Required # {}
    /\ Missing \subseteq SUBSET Projector
ASSUME LimitAssumption ==
    /\ ReadLimit \in Nat \ {0} /\ PageSize \in Nat \ {0}
    /\ MaxBacklog \in Nat /\ MaxLog \in Nat /\ MaxBacklog <= MaxLog

VARIABLES
    head,     \* the sequence of the last stored event
    rows,     \* per projector: the sequences it applied, in order
    cursor,   \* per projector: lastAppliedSequence, 0 without a row
    pc,       \* "down", "boot" or "up"
    at,       \* index of the projector being bootstrapped
    page,     \* events read for it and not yet applied
    quota,    \* events its stream may still emit
    snapSeq   \* snapshotSequence of the read model loaded at the end of boot

vars == <<head, rows, cursor, pc, at, page, quota, snapSeq>>

Least(a, b) == IF a <= b THEN a ELSE b

\* Mutant: the sequence to read after is ignored.
ReadFromStart(after, remaining) ==
    [i \in 1 .. Least(remaining, Least(PageSize, head)) |-> i]

\* readFromSequence, one page: at most PageSize rows after the given sequence.
ReadPage(after, remaining) ==
    [i \in 1 .. Least(remaining, Least(PageSize, head - after)) |-> after + i]

\* computeSnapshotSequence: the least cursor of the required projectors.
SnapshotSequence == Min({cursor[p] : p \in Required})

\* A store some earlier version wrote, with the tables of `new` not built yet.
Init ==
    \E n \in 0 .. MaxBacklog, new \in Missing :
        /\ head = n
        /\ rows = [p \in Projector |-> IF p \in new THEN <<>> ELSE [i \in 1 .. n |-> i]]
        /\ cursor = [p \in Projector |-> IF p \in new THEN 0 ELSE n]
        /\ pc = "down" /\ at = 1 /\ page = <<>> /\ quota = 0 /\ snapSeq = 0

\* The row changes of one projector for event s, and its cursor, in one
\* transaction.
Applied(p, s) ==
    /\ rows' = [rows EXCEPT ![p] = Append(@, s)]
    /\ cursor' = [cursor EXCEPT ![p] = s]

\* Mutant: one page is all a projector ever reads.
StartOnePage(i) ==
    /\ at' = i
    /\ page' = ReadPage(cursor[Projectors[i]], ReadLimit)
    /\ quota' = 0

StartProjector(i) ==
    /\ at' = i
    /\ page' = ReadPage(cursor[Projectors[i]], ReadLimit)
    /\ quota' = ReadLimit - Len(page')

Boot ==
    /\ pc = "down"
    /\ pc' = "boot"
    /\ StartProjector(1)
    /\ UNCHANGED <<head, rows, cursor, snapSeq>>

BootApply ==
    /\ pc = "boot" /\ page # <<>>
    /\ Applied(Projectors[at], Head(page))
    /\ LET last == Head(page)
           more == IF Len(page) = 1 THEN ReadPage(last, quota) ELSE Tail(page)
       IN /\ page' = more
          /\ quota' = IF Len(page) = 1 THEN quota - Len(more) ELSE quota
    /\ UNCHANGED <<head, pc, at, snapSeq>>

BootNext ==
    /\ pc = "boot" /\ page = <<>> /\ at < Len(Projectors)
    /\ StartProjector(at + 1)
    /\ UNCHANGED <<head, rows, cursor, pc, snapSeq>>

BootDone ==
    /\ pc = "boot" /\ page = <<>> /\ at = Len(Projectors)
    /\ pc' = "up" /\ quota' = 0
    /\ snapSeq' = SnapshotSequence
    /\ UNCHANGED <<head, rows, cursor, at, page>>

\* projectEvent inside the engine's transaction: all projectors, or none.
Live ==
    /\ pc = "up" /\ head < MaxLog
    /\ head' = head + 1
    /\ rows' = [p \in Projector |-> Append(rows[p], head')]
    /\ cursor' = [p \in Projector |-> head']
    /\ snapSeq' = head'
    /\ UNCHANGED <<pc, at, page, quota>>

Crash ==
    /\ pc # "down"
    /\ pc' = "down" /\ at' = 1 /\ page' = <<>> /\ quota' = 0 /\ snapSeq' = 0
    /\ UNCHANGED <<head, rows, cursor>>

Next ==
    \/ Boot \/ BootApply \/ BootNext \/ BootDone
    \/ Live \/ Crash

Spec == Init /\ [][Next]_vars

-----------------------------------------------------------------------------
(* Every projector applied every event up to its cursor exactly once and in  *)
(* order: a crash in the middle of a bootstrap neither repeats nor skips one *)
(* (ProjectionPipeline.ts:1252-1299, ProjectionPipeline.test.ts:1099).       *)
AppliedInOrder ==
    \A p \in Projector : rows[p] = [i \in 1 .. cursor[p] |-> i]

(* Once the server is up no stored event is left behind a cursor, and the    *)
(* snapshotSequence the engine starts from is the head of the store          *)
(* (ProjectionPipeline.ts:1285-1331, ProjectionSnapshotQuery.ts:143-166).    *)
BootstrapCatchesUp ==
    pc = "up" => /\ \A p \in Projector : cursor[p] = head
                 /\ snapSeq = head
=============================================================================
