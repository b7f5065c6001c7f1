------------------------ MODULE OrchestrationRecovery ------------------------
(***************************************************************************)
(* How a web client keeps its store in step with the server's event log:   *)
(* the recovery coordinator of orchestrationRecovery.ts with the event     *)
(* router of routes/__root.tsx around it.  Snapshots and replays are       *)
(* requests the server answers at one moment and the client meets at a     *)
(* later one, while domain events keep arriving on the subscription.       *)
(* Callbacks of the browser's event loop are the steps.  The server's side *)
(* is DomainEventStream: its engine, and the handler of the subscription   *)
(* the client holds.                                                       *)
(***************************************************************************)
EXTENDS DomainEventStream

CONSTANTS
    MaxDrops,     \* bound: times the connection is lost
    MaxFailures,  \* bound: requests that fail
    MayFail,      \* the requests that may fail: "snapshot", "replay"
    ReplayLimit,  \* events one replay returns at most
    MaxRetries    \* MAX_NO_PROGRESS_REPLAY_RETRIES

ASSUME ClientAssumption ==
    /\ {MaxDrops, MaxFailures} \subseteq Nat
    /\ {ReplayLimit, MaxRetries} \subseteq Nat \ {0} /\ MayFail \subseteq {"snapshot", "replay"}

VARIABLES
    stream,    \* "down", "hook", "up": the subscription, and ...
    taken,     \* ... how much of what it was sent the client has handled
    received,  \* the subscription has delivered something once
    store,     \* the sequences the client's store reflects, in order
    latest, highest, bootstrapped, pendingReplay,   \* the coordinator's state
    inFlight,  \* the request it waits for, with its answer once served
    batch,     \* pendingDomainEvents, waiting for the microtask that applies them
    tracker,   \* replayRetryTracker
    timer,     \* a delayed retry is scheduled
    drops, failures,
    owed       \* history: what the last reconnection has to make up for

recovery == <<latest, highest, bootstrapped, pendingReplay, inFlight>>
server == <<engine, step, from, replay, mailbox, buffer>>
subscription == <<stream, taken, received, owed>>
retry == <<tracker, timer>>
counts == <<drops, failures>>
client == <<store, recovery, batch, retry, counts>>
delivery == <<server, subscription, client>>

\* A snapshot is fetched to bootstrap, or because a replay failed.
Snapshots == {"bootstrap", "fallback"}
None == [kind |-> "none", from |-> 0, upTo |-> 0, served |-> FALSE]
NoTracker == [attempts |-> 0, latest |-> 0, highest |-> 0]

Larger(a, b) == IF a < b THEN b ELSE a
Smaller(a, b) == IF a < b THEN a ELSE b

DeliveryInit ==
    /\ Init
    /\ stream = "down" /\ taken = 0 /\ received = FALSE /\ owed = 0
    /\ store = <<>> /\ latest = 0 /\ highest = 0
    /\ bootstrapped = FALSE /\ pendingReplay = FALSE /\ inFlight = None
    /\ batch = <<>> /\ tracker = NoTracker /\ timer = FALSE
    /\ drops = 0 /\ failures = 0

-----------------------------------------------------------------------------
(* The connection and the requests.                                         *)

\* The transport subscribes; the handler starts with the snapshot's sequence.
Subscribe ==
    /\ stream = "hook" \/ (stream = "down" /\ ~received)
    /\ ReadSnapshot
    /\ stream' = "up" /\ taken' = 0
    /\ UNCHANGED <<received, owed, client>>

Drop ==
    /\ stream = "up" /\ drops < MaxDrops
    /\ stream' = "down" /\ drops' = drops + 1
    /\ Close
    /\ UNCHANGED <<engine, taken, received, owed, store, recovery, batch, retry, failures>>

Serve ==
    /\ inFlight.kind # "none" /\ ~inFlight.served
    /\ inFlight' = [inFlight EXCEPT
                      !.served = TRUE,
                      !.upTo = IF inFlight.kind \in Snapshots THEN committed
                               ELSE Smaller(committed, inFlight.from + ReplayLimit)]
    /\ UNCHANGED <<server, subscription, store, latest, highest, bootstrapped,
                   pendingReplay, batch, retry, counts>>

ServerStep ==
    /\ Engine \/ ReadReplay \/ Attach \/ Stream
    /\ UNCHANGED <<subscription, client>>

-----------------------------------------------------------------------------
(* The coordinator.                                                         *)

\* Mutant: events are applied without looking at what the store already has.
ApplyAll(events) ==
    /\ store' = store \o events
    /\ latest' = IF events = <<>> THEN latest ELSE events[Len(events)]

\* The events after latestSequence, sorted: the k-th is the one k of them do not
\* come after.
NewEvents(events) ==
    LET new == {i \in DOMAIN events : events[i] > latest}
        rank(i) == Cardinality({j \in new :
                      events[j] < events[i] \/ (events[j] = events[i] /\ j <= i)})
    IN [k \in 1 .. Cardinality(new) |-> events[CHOOSE i \in new : rank(i) = k]]

\* markEventBatchApplied, and the store's update with what it returns.
ApplyBatch(events) ==
    LET new == NewEvents(events)
    IN /\ store' = store \o new
       /\ latest' = IF new = <<>> THEN latest ELSE new[Len(new)]

\* beginReplayRecovery, from the state its caller has just left.
BeginReplay(ready, busy) ==
    IF ~ready \/ busy
      THEN pendingReplay' = TRUE /\ inFlight' = IF busy THEN inFlight ELSE None
      ELSE /\ pendingReplay' = FALSE
           /\ inFlight' = [None EXCEPT !.kind = "replay", !.from = latest']

Busy == inFlight.kind # "none"

\* Mutant: an event that cannot be applied yet asks for no replay.
DeferSilently(s) ==
    /\ highest' = Larger(highest, s)
    /\ UNCHANGED <<store, latest, bootstrapped, pendingReplay, inFlight, batch, retry>>

Defer(s) ==
    /\ pendingReplay' = TRUE
    /\ highest' = Larger(highest, s)
    /\ UNCHANGED <<store, latest, bootstrapped, inFlight, batch, retry>>

\* classifyDomainEvent and what the router does with its verdict.
Deliver ==
    /\ stream = "up" /\ taken < Len(out)
    /\ taken' = taken + 1 /\ received' = TRUE
    /\ LET s == out[taken + 1]
       IN IF s <= latest THEN
            /\ highest' = Larger(highest, s)
            /\ UNCHANGED <<store, latest, bootstrapped, pendingReplay, inFlight,
                           batch, retry>>
          ELSE IF ~bootstrapped \/ Busy THEN Defer(s)
          ELSE IF s = latest + 1 THEN
            /\ highest' = Larger(highest, s)
            /\ batch' = Append(batch, s)
            /\ UNCHANGED <<store, latest, bootstrapped, pendingReplay, inFlight, retry>>
          ELSE
            /\ ApplyBatch(batch) /\ batch' = <<>>
            /\ highest' = Larger(highest, s)
            /\ BeginReplay(bootstrapped, Busy)
            /\ UNCHANGED <<bootstrapped, retry>>
    /\ UNCHANGED <<server, stream, owed, counts>>

Flush ==
    /\ batch # <<>>
    /\ ApplyBatch(batch) /\ batch' = <<>>
    /\ highest' = Larger(highest, latest')
    /\ UNCHANGED <<server, subscription, bootstrapped, pendingReplay, inFlight, retry, counts>>

\* What was committed by now, as far as one replay reaches; an answer that is
\* already on its way counts for nothing.
Owed ==
    IF Busy /\ inFlight.served THEN owed ELSE Smaller(committed, latest' + ReplayLimit)

\* Mutant: the hook applies what it has and asks for nothing.
FlushOnly == UNCHANGED <<pendingReplay, inFlight>>

Catch == BeginReplay(bootstrapped, Busy)

\* onResubscribe runs before the new subscription is asked for.
Resubscribe ==
    /\ stream = "down" /\ received
    /\ stream' = "hook"
    /\ ApplyBatch(batch) /\ batch' = <<>>
    /\ Catch
    /\ owed' = Owed
    /\ UNCHANGED <<server, taken, received, highest, bootstrapped, retry, counts>>

\* bootstrapFromSnapshot, on the server's welcome or a changed configuration:
\* joins a bootstrap under way, else beginSnapshotRecovery.
Welcome ==
    /\ inFlight.kind # "bootstrap"
    /\ IF Busy
         THEN pendingReplay' = TRUE /\ UNCHANGED inFlight
         ELSE inFlight' = [None EXCEPT !.kind = "bootstrap"] /\ UNCHANGED pendingReplay
    /\ UNCHANGED <<server, subscription, store, latest, highest, bootstrapped, batch, retry, counts>>

SnapshotArrives ==
    /\ inFlight.kind \in Snapshots /\ inFlight.served
    /\ store' = Span(0, inFlight.upTo)
    /\ latest' = Larger(latest, inFlight.upTo)
    /\ highest' = Larger(highest, latest')
    /\ bootstrapped' = TRUE
    /\ IF pendingReplay \/ highest' > latest'
         THEN BeginReplay(TRUE, FALSE)
         ELSE inFlight' = None /\ pendingReplay' = FALSE
    /\ UNCHANGED <<server, subscription, batch, retry, counts>>

SnapshotFails ==
    /\ "snapshot" \in MayFail /\ failures < MaxFailures
    /\ inFlight.kind \in Snapshots
    /\ inFlight' = None
    /\ failures' = failures + 1
    /\ UNCHANGED <<server, subscription, store, latest, highest, bootstrapped, pendingReplay,
                   batch, retry, drops>>

\* Mutant: one replay has to do.
RetryNever(progress, ahead) ==
    inFlight' = None /\ tracker' = NoTracker /\ UNCHANGED timer

\* deriveReplayRetryDecision once the replay is completed.
Retry(progress, ahead) ==
    LET same == tracker.latest = latest' /\ tracker.highest = highest'
        attempts == IF same THEN tracker.attempts + 1 ELSE 1
    IN IF ~ahead THEN
          /\ inFlight' = None /\ tracker' = NoTracker /\ UNCHANGED timer
       ELSE IF progress THEN
          /\ BeginReplay(TRUE, FALSE) /\ tracker' = NoTracker /\ UNCHANGED timer
       ELSE IF attempts > MaxRetries THEN
          /\ inFlight' = None /\ tracker' = NoTracker /\ UNCHANGED timer
       ELSE
          /\ inFlight' = None /\ timer' = TRUE
          /\ tracker' = [attempts |-> attempts, latest |-> latest',
                         highest |-> highest']

ReplayArrives ==
    /\ inFlight.kind = "replay" /\ inFlight.served
    /\ ApplyBatch(Span(inFlight.from, inFlight.upTo))
    /\ highest' = Larger(highest, latest')
    /\ LET ahead == pendingReplay \/ highest' > latest'
       IN /\ Retry(latest' > inFlight.from, ahead)
          /\ pendingReplay' = FALSE
    /\ UNCHANGED <<server, subscription, bootstrapped, batch, counts>>

RetryTimer ==
    /\ timer /\ timer' = FALSE
    /\ UNCHANGED <<store, latest>>
    /\ BeginReplay(bootstrapped, Busy)
    /\ UNCHANGED <<server, subscription, highest, bootstrapped, batch, tracker, counts>>

\* A failed replay falls back to a snapshot.
ReplayFails ==
    /\ "replay" \in MayFail /\ failures < MaxFailures
    /\ inFlight.kind = "replay"
    /\ bootstrapped' = FALSE
    /\ inFlight' = [None EXCEPT !.kind = "fallback"]
    /\ tracker' = NoTracker
    /\ failures' = failures + 1
    /\ UNCHANGED <<server, subscription, store, latest, highest, pendingReplay, batch, timer, drops>>

-----------------------------------------------------------------------------
Client ==
    \/ Flush \/ SnapshotArrives \/ ReplayArrives \/ RetryTimer

Connection == Subscribe \/ Resubscribe

DeliveryNext ==
    \/ ServerStep \/ Drop \/ Serve \/ Deliver \/ Connection
    \/ Client \/ Welcome \/ SnapshotFails \/ ReplayFails

Delivery == DeliveryInit /\ [][DeliveryNext]_delivery

\* Requests are answered, callbacks run, the transport reconnects, and the
\* first connection brings a welcome; no later one is owed.
FairDelivery ==
    /\ Delivery
    /\ WF_delivery(Serve) /\ WF_delivery(Client) /\ WF_delivery(Connection)
    /\ WF_delivery(Welcome /\ ~Busy /\ failures = 0 /\ ~bootstrapped)
-----------------------------------------------------------------------------
DeliveryTypeOK ==
    /\ TypeOK
    /\ stream \in {"down", "hook", "up"} /\ (stream # "up") = (step = "new")
    /\ taken \in 0 .. MaxSeq /\ received \in BOOLEAN
    /\ owed \in 0 .. committed
    /\ store \in Seq(1 .. MaxSeq)
    /\ latest \in 0 .. MaxSeq /\ highest \in 0 .. MaxSeq
    /\ bootstrapped \in BOOLEAN /\ pendingReplay \in BOOLEAN
    /\ inFlight \in [kind : {"none", "replay"} \cup Snapshots, from : 0 .. MaxSeq,
                     upTo : 0 .. MaxSeq, served : BOOLEAN]
    /\ batch \in Seq(1 .. MaxSeq)
    /\ tracker \in [attempts : 0 .. MaxRetries, latest : 0 .. MaxSeq,
                    highest : 0 .. MaxSeq]
    /\ timer \in BOOLEAN /\ drops \in 0 .. MaxDrops /\ failures \in 0 .. MaxFailures

(* The store holds every event up to latestSequence once and in order: no    *)
(* race of live events, replays, snapshots, failures and reconnections skips *)
(* an event, applies one twice or takes the store back.                      *)
StoreIsPrefix == store = Span(0, latest)

(* An event the client has seen and could not apply is not forgotten: while  *)
(* the store is behind it, a recovery is under way, scheduled or recorded as *)
(* needed, or the client is to bootstrap again, which compares the two       *)
(* sequences (orchestrationRecovery.ts:105-138, 166-172).                    *)
GapIsRemembered ==
    highest > latest =>
        \/ Busy \/ timer \/ pendingReplay \/ ~bootstrapped
        \/ \E i \in DOMAIN batch : batch[i] >= highest

\* A failed snapshot keeps the prior state until a welcome or a later replay
\* (routes/__root.tsx:636).
Waits == failures > 0 /\ ~Busy /\ ~timer /\ (pendingReplay \/ ~bootstrapped)

(* Whatever the client has observed it eventually shows, through deferred    *)
(* events, failed replays and answers cut off at the replay limit, unless a  *)
(* failed snapshot leaves it waiting for the server's next welcome.          *)
ObservedIsApplied ==
    \A s \in 1 .. MaxSeq : highest >= s ~> latest >= s \/ Waits

(* A reconnection makes up for the connection that was lost: what the server *)
(* had when the resubscription hook ran is shown, as far as one replay       *)
(* reaches, whether or not the new subscription brings anything, unless a    *)
(* request failed (wsTransport.ts:316, routes/__root.tsx:667-673).           *)
ReconnectCatchesUp ==
    owed > latest ~> owed <= latest \/ (failures > 0 /\ ~Busy /\ ~timer)
=============================================================================
