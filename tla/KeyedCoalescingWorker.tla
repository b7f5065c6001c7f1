------------------------ MODULE KeyedCoalescingWorker ------------------------
(***************************************************************************)
(* packages/shared KeyedCoalescingWorker: one fiber processes keys from a  *)
(* queue, one at a time; values enqueued for a key while it waits or is    *)
(* being processed are merged.  A value is the set of the enqueued items   *)
(* merged into it.  Each transaction (Effect.tx) is one step.              *)
(***************************************************************************)
EXTENDS Naturals, Sequences, FiniteSets, SequencesExt

CONSTANTS
    Key,
    Item,       \* the values enqueued, 1 .. n in the order of the calls
    NoKey,
    MayFail     \* process() may fail

ASSUME CallAssumption ==
    /\ IsFiniteSet(Item) /\ Item = 1 .. Cardinality(Item)
    /\ NoKey \notin Key /\ MayFail \in BOOLEAN

VARIABLES
    queue,        \* the TxQueue of keys
    latestByKey,  \* items merged and waiting, {} without an entry
    queuedKeys, activeKeys,
    taken,        \* a key the fiber took and has not looked up
    running,      \* the key and value being processed
    requeue,      \* a failed key the fiber still has to offer again
    sent,         \* items enqueued, by key
    done          \* items whose processing ended, well or not

state == <<latestByKey, queuedKeys, activeKeys>>
worker == <<queue, latestByKey, queuedKeys, activeKeys, taken, running, requeue,
            sent, done>>

Idle == [key |-> NoKey, value |-> {}]
Free == taken = NoKey /\ running = Idle /\ requeue = NoKey

WorkerInit ==
    /\ queue = <<>>
    /\ latestByKey = [k \in Key |-> {}]
    /\ queuedKeys = {} /\ activeKeys = {}
    /\ taken = NoKey /\ running = Idle /\ requeue = NoKey
    /\ sent = [k \in Key |-> {}] /\ done = {}

-----------------------------------------------------------------------------
\* Mutant: a key being processed is not offered and not remembered either.
KeepLatest(k, x) ==
    [latestByKey EXCEPT ![k] = IF k \in activeKeys THEN @ ELSE @ \cup {x}]

MergeLatest(k, x) == [latestByKey EXCEPT ![k] = @ \cup {x}]

NeedsOffer(k) == k \notin queuedKeys /\ k \notin activeKeys

NextItem == 1 + Cardinality(UNION {sent[k] : k \in Key})

Enqueue(k) ==
    /\ NextItem \in Item
    /\ sent' = [sent EXCEPT ![k] = @ \cup {NextItem}]
    /\ latestByKey' = MergeLatest(k, NextItem)
    /\ IF NeedsOffer(k)
         THEN /\ queuedKeys' = queuedKeys \cup {k}
              /\ queue' = Append(queue, k)
         ELSE UNCHANGED <<queuedKeys, queue>>
    /\ UNCHANGED <<activeKeys, taken, running, requeue, done>>

Take ==
    /\ Free /\ queue # <<>>
    /\ taken' = Head(queue) /\ queue' = Tail(queue)
    /\ UNCHANGED <<state, running, requeue, sent, done>>

\* The value leaves latestByKey and the key becomes active at once.
Start ==
    /\ taken # NoKey
    /\ taken' = NoKey
    /\ queuedKeys' = queuedKeys \ {taken}
    /\ latestByKey' = [latestByKey EXCEPT ![taken] = {}]
    /\ IF latestByKey[taken] = {}
         THEN UNCHANGED <<activeKeys, running>>
         ELSE /\ activeKeys' = activeKeys \cup {taken}
              /\ running' = [key |-> taken, value |-> latestByKey[taken]]
    /\ UNCHANGED <<queue, requeue, sent, done>>

\* processKey: what came in meanwhile is processed next, without the queue.
Succeed ==
    /\ running # Idle
    /\ done' = done \cup running.value
    /\ LET more == latestByKey[running.key] IN
         IF more = {}
           THEN /\ activeKeys' = activeKeys \ {running.key}
                /\ running' = Idle /\ UNCHANGED latestByKey
           ELSE /\ running' = [running EXCEPT !.value = more]
                /\ latestByKey' = [latestByKey EXCEPT ![running.key] = {}]
                /\ UNCHANGED activeKeys
    /\ UNCHANGED <<queue, queuedKeys, taken, requeue, sent>>

\* Mutant: a failed key is not queued again.
NeverAgain(k) == FALSE

Again(k) == latestByKey[k] # {} /\ k \notin queuedKeys

\* cleanupFailedKey: the failed value is gone, what came in meanwhile is not.
Fail ==
    /\ MayFail /\ running # Idle
    /\ done' = done \cup running.value
    /\ activeKeys' = activeKeys \ {running.key}
    /\ running' = Idle
    /\ IF Again(running.key)
         THEN queuedKeys' = queuedKeys \cup {running.key} /\ requeue' = running.key
         ELSE UNCHANGED <<queuedKeys, requeue>>
    /\ UNCHANGED <<queue, latestByKey, taken, sent>>

\* The offer after a failure is a transaction of its own.
Requeue ==
    /\ requeue # NoKey
    /\ queue' = Append(queue, requeue) /\ requeue' = NoKey
    /\ UNCHANGED <<state, taken, running, sent, done>>

-----------------------------------------------------------------------------
\* drainKey resolves in a state where the key has no entry left.
Drained(k) == latestByKey[k] = {} /\ k \notin queuedKeys /\ k \notin activeKeys
-----------------------------------------------------------------------------
WorkerTypeOK ==
    /\ queue \in Seq(Key) /\ Cardinality(ToSet(queue)) = Len(queue)
    /\ latestByKey \in [Key -> SUBSET Item]
    /\ queuedKeys \subseteq Key /\ activeKeys \subseteq Key
    /\ taken \in Key \cup {NoKey} /\ requeue \in Key \cup {NoKey}
    /\ running \in [key : Key \cup {NoKey}, value : SUBSET Item]
    /\ sent \in [Key -> SUBSET Item] /\ done \subseteq Item

(* drainKey tells the truth: it resolves only when every item enqueued for   *)
(* the key has been processed, whatever failed in between                    *)
(* (KeyedCoalescingWorker.ts:128-137).                                       *)
DrainIsHonest ==
    \A k \in Key : Drained(k) => sent[k] \subseteq done
=============================================================================
