-------------------------- MODULE DomainEventStream --------------------------
(***************************************************************************)
(* One websocket subscription to the orchestration's domain events         *)
(* (subscribeOrchestrationDomainEvents of ws.ts) next to the engine's      *)
(* worker.  The handler reads the read model's snapshotSequence, reads the *)
(* events stored after it, and merges them with a PubSub subscription that *)
(* starts when the merged stream runs; a reorder buffer puts the two       *)
(* together.  Events are their sequences.                                  *)
(***************************************************************************)
EXTENDS Naturals, Sequences, FiniteSets

CONSTANTS
    MaxSeq,      \* bound: events committed
    MaxBatch,    \* events one command produces, at most
    ReadMayFail  \* the event store may fail to read

ASSUME BoundsAssumption ==
    MaxSeq \in Nat /\ MaxBatch \in Nat \ {0} /\ ReadMayFail \in BOOLEAN

VARIABLES
    committed,   \* the event store's head
    installed,   \* snapshotSequence of the engine's read model
    published,   \* the last sequence eventPubSub carried
    step,        \* the handler: "new", "replay", "attach", "live"
    from,        \* fromSequenceExclusive
    replay,      \* events read from the store and not yet merged
    mailbox,     \* the subscription's queue
    next,        \* nextSequence of the reorder buffer
    pending,     \* pendingBySequence
    out          \* what the client was sent

engine == <<committed, installed, published>>
buffer == <<next, pending, out>>
vars == <<committed, installed, published, step, from, replay, mailbox, next,
          pending, out>>

\* Mutant: the cursor is taken as inclusive.
SpanFrom(after, upTo) == [i \in 1 .. upTo - after |-> after + i - 1]

\* The sequences after `after`.
Span(after, upTo) == [i \in 1 .. upTo - after |-> after + i]

Init ==
    /\ committed = 0 /\ installed = 0 /\ published = 0
    /\ step = "new" /\ from = 0 /\ replay = <<>> /\ mailbox = <<>>
    /\ next = 1 /\ pending = {} /\ out = <<>>

-----------------------------------------------------------------------------
(* The engine's worker: commit, install, publish one by one.                *)

Commit ==
    /\ published = committed /\ installed = committed
    /\ \E n \in 1 .. MaxBatch :
         committed + n <= MaxSeq /\ committed' = committed + n
    /\ UNCHANGED <<installed, published, step, from, replay, mailbox, buffer>>

Install ==
    /\ installed < committed
    /\ installed' = committed
    /\ UNCHANGED <<committed, published, step, from, replay, mailbox, buffer>>

Publish ==
    /\ installed = committed /\ published < committed
    /\ published' = published + 1
    /\ mailbox' = IF step = "live" THEN Append(mailbox, published') ELSE mailbox
    /\ UNCHANGED <<committed, installed, step, from, replay, buffer>>

-----------------------------------------------------------------------------
(* The handler.                                                             *)

ReadSnapshot ==
    /\ step = "new"
    /\ step' = "replay"
    /\ from' = installed /\ next' = installed + 1
    /\ UNCHANGED <<engine, replay, mailbox, pending, out>>

\* A failed read counts as an empty one.
ReadReplay ==
    /\ step = "replay"
    /\ step' = "attach"
    /\ \/ replay' = Span(from, committed)
       \/ ReadMayFail /\ replay' = <<>>
    /\ UNCHANGED <<engine, from, mailbox, buffer>>

Attach ==
    /\ step = "attach"
    /\ step' = "live"
    /\ UNCHANGED <<engine, from, replay, mailbox, buffer>>

\* The events s releases: those waiting right after it, if it is the next.
Run(s) ==
    LET last == CHOOSE n \in s .. MaxSeq :
                  /\ \A i \in s + 1 .. n : i \in pending
                  /\ n + 1 \notin pending
    IN IF s = next THEN Span(s - 1, last) ELSE <<>>

\* Mutant: an event ahead of the next is sent at once.
MergeUnordered(s) ==
    /\ out' = Append(out, s) /\ next' = s + 1
    /\ UNCHANGED pending

Merge(s) ==
    IF s < next \/ s \in pending THEN UNCHANGED buffer
    ELSE /\ out' = out \o Run(s)
         /\ next' = next + Len(Run(s))
         /\ pending' = (pending \cup {s}) \ (next .. next' - 1)

\* The connection is lost, and the stream and its subscription with it.
Close ==
    /\ step' = "new" /\ from' = 0 /\ replay' = <<>> /\ mailbox' = <<>>
    /\ next' = 1 /\ pending' = {} /\ out' = <<>>

MergeReplay ==
    /\ step = "live" /\ replay # <<>>
    /\ replay' = Tail(replay) /\ Merge(Head(replay))
    /\ UNCHANGED <<engine, step, from, mailbox>>

MergeLive ==
    /\ step = "live" /\ mailbox # <<>>
    /\ mailbox' = Tail(mailbox) /\ Merge(Head(mailbox))
    /\ UNCHANGED <<engine, step, from, replay>>

-----------------------------------------------------------------------------
Engine == Commit \/ Install \/ Publish
Handler == ReadSnapshot \/ ReadReplay \/ Attach
Stream == MergeReplay \/ MergeLive

Next == Engine \/ Handler \/ Stream

Spec == Init /\ [][Next]_vars

\* The worker publishes what it committed, the handler returns its stream, and
\* both sources of the merge are pulled.
FairSpec ==
    /\ Spec
    /\ WF_vars(Install \/ Publish) /\ WF_vars(Handler)
    /\ WF_vars(MergeReplay) /\ WF_vars(MergeLive)
-----------------------------------------------------------------------------
TypeOK ==
    /\ committed \in 0 .. MaxSeq /\ installed \in 0 .. MaxSeq
    /\ published \in 0 .. MaxSeq
    /\ step \in {"new", "replay", "attach", "live"}
    /\ from \in 0 .. MaxSeq
    /\ replay \in Seq(1 .. MaxSeq) /\ mailbox \in Seq(1 .. MaxSeq)
    /\ next \in 1 .. MaxSeq + 1 /\ pending \subseteq 2 .. MaxSeq
    /\ out \in Seq(1 .. MaxSeq)

(* The client gets the events after its snapshot in order, each once and     *)
(* without a gap, however replayed and live events overlap (ws.ts:552-588).  *)
SentInOrder == out = Span(from, next - 1)

(* Every event committed after the subscriber's snapshot is sent to it.      *)
EveryEventIsSent ==
    \A s \in 1 .. MaxSeq :
        (step = "live" /\ from < s /\ s <= committed)
            ~> (s \in {out[i] : i \in DOMAIN out})
=============================================================================
