------------------------------ MODULE CommandGate ------------------------------
(***************************************************************************)
(* The command gate of serverRuntimeStartup.ts.  Clients connect while the *)
(* server still starts; their commands wait in a queue until startup ends, *)
(* and later ones run at once.  A fiber may be descheduled between reading *)
(* commandReadinessState and acting on it, and between the two steps of    *)
(* signalCommandReady and failCommandReady.  What the effect of a call     *)
(* does is up to the module that extends this one.                         *)
(***************************************************************************)
EXTENDS Naturals, Sequences, FiniteSets, SequencesExt

CONSTANTS
    Client,     \* enqueueCommand calls
    NoClient

ASSUME ClientAssumption == NoClient \notin Client

VARIABLES
    readiness,     \* commandReadinessState
    commandReady,  \* the Deferred behind awaitCommandReady
    queue,         \* commandQueue
    taken,         \* the queued command the worker holds
    pc,            \* where each call is
    result,        \* what each call's caller was told
    arrived,       \* calls in the order they were queued
    effect         \* how far each call's effect has come; "ok" and "failed" end it

gate == <<readiness, commandReady, queue, taken, pc, result, arrived>>

Ended(c) == effect[c] \in {"ok", "failed"}
Begun(c) == effect[c] # "new"

GateInit ==
    /\ readiness = "pending" /\ commandReady = "pending"
    /\ queue = <<>> /\ taken = NoClient
    /\ pc = [c \in Client |-> "new"]
    /\ result = [c \in Client |-> "none"]
    /\ arrived = <<>>
    /\ effect = [c \in Client |-> "new"]

-----------------------------------------------------------------------------
(* The startup fiber: it ends once, well or not.                             *)

EndStartup(outcome) ==
    /\ readiness = "pending"
    /\ readiness' = outcome
    /\ UNCHANGED <<commandReady, queue, taken, pc, result, arrived, effect>>

CompleteDeferred ==
    /\ readiness # "pending" /\ commandReady = "pending"
    /\ commandReady' = readiness
    /\ UNCHANGED <<readiness, queue, taken, pc, result, arrived, effect>>

-----------------------------------------------------------------------------
(* enqueueCommand.                                                           *)

Route ==
    CASE readiness = "ready" -> "running"
      [] readiness = "failed" -> "ended"
      [] OTHER -> "queueing"

ReadReadiness(c) ==
    /\ pc[c] = "new"
    /\ pc' = [pc EXCEPT ![c] = Route]
    /\ result' = [result EXCEPT ![c] = IF pc'[c] = "ended" THEN "refused" ELSE @]
    /\ UNCHANGED <<readiness, commandReady, queue, taken, arrived, effect>>

\* The Deferred may be complete by now; the worker then runs the command at once.
Offer(c) ==
    /\ pc[c] = "queueing"
    /\ pc' = [pc EXCEPT ![c] = "waiting"]
    /\ queue' = Append(queue, c)
    /\ arrived' = Append(arrived, c)
    /\ UNCHANGED <<readiness, commandReady, taken, result, effect>>

\* The effect of a call that found the gate open runs on the caller's own fiber,
\* beside the worker.
RunDirectly(c) ==
    /\ pc[c] = "running" /\ Ended(c)
    /\ pc' = [pc EXCEPT ![c] = "ended"]
    /\ result' = [result EXCEPT ![c] = effect[c]]
    /\ UNCHANGED <<readiness, commandReady, queue, taken, arrived, effect>>

\* The caller's fiber is interrupted: a direct effect dies with it, a queued one
\* does not.
Interrupt(c) ==
    /\ pc[c] \in {"queueing", "waiting", "running"}
    /\ pc' = [pc EXCEPT ![c] = "gone"]
    /\ UNCHANGED <<readiness, commandReady, queue, taken, result, arrived, effect>>

-----------------------------------------------------------------------------
(* The command worker.                                                       *)

\* Mutant: the newest command goes first.
TakeLast ==
    /\ taken = NoClient /\ queue # <<>>
    /\ taken' = Last(queue) /\ queue' = Front(queue)
    /\ UNCHANGED <<readiness, commandReady, pc, result, arrived, effect>>

WorkerTake ==
    /\ taken = NoClient /\ queue # <<>>
    /\ taken' = Head(queue) /\ queue' = Tail(queue)
    /\ UNCHANGED <<readiness, commandReady, pc, result, arrived, effect>>

\* Mutant: the worker does not wait before it runs the command.
NotHeld == TRUE

\* Mutant: a failed startup does not wake the worker.
ReleasedWhenReady == commandReady = "ready"

\* Deferred.await(commandReady) in front of every queued command.
Released == commandReady # "pending"

\* settleQueuedCommand: the worker is done with the effect, or never began it.
WorkerRun ==
    /\ taken # NoClient /\ Released
    /\ \/ /\ commandReady = "failed"
          /\ result' = [result EXCEPT ![taken] = "refused"]
       \/ /\ commandReady # "failed" /\ Ended(taken)
          /\ result' = [result EXCEPT ![taken] = effect[taken]]
    /\ pc' = [pc EXCEPT ![taken] = IF @ = "waiting" THEN "ended" ELSE @]
    /\ taken' = NoClient
    /\ UNCHANGED <<readiness, commandReady, queue, arrived, effect>>

\* Whose effect may take its next step: the worker's, and those running directly.
Runs(c) == pc[c] = "running" \/ (taken = c /\ Released /\ commandReady # "failed")

-----------------------------------------------------------------------------
Startup == EndStartup("ready") \/ EndStartup("failed") \/ CompleteDeferred
Worker == WorkerTake \/ WorkerRun
Caller(c) == ReadReadiness(c) \/ Offer(c) \/ RunDirectly(c)

GateStep == Startup \/ Worker \/ \E c \in Client : Caller(c) \/ Interrupt(c)
-----------------------------------------------------------------------------
(* No command touches the server before its startup has succeeded, and none  *)
(* does after it failed, on whichever side of the switch the call read the   *)
(* state (serverRuntimeStartup.test.ts:13, 35).                              *)
NothingRunsUnready == \A c \in Client : Begun(c) => readiness = "ready"

(* Commands that waited run one at a time and in the order they came, also   *)
(* those of callers that have left: none begins before the ones in front of  *)
(* it are settled.                                                           *)
QueuedInOrder ==
    \A i, j \in 1 .. Len(arrived) :
        i < j /\ Begun(arrived[j]) => result[arrived[i]] # "none"

(* Every call is answered unless its caller leaves; one that was queued is   *)
(* settled even then: the late offer of a call that read the gate as still   *)
(* closed is not forgotten.                                                  *)
EveryCallSettles ==
    \A c \in Client : pc[c] # "new" ~>
        \/ pc[c] = "ended"
        \/ pc[c] = "gone" /\ (c \in ToSet(arrived) => result[c] # "none")
=============================================================================
