---------------------------- MODULE ThreadBootstrap ----------------------------
(***************************************************************************)
(* What dispatchNormalizedCommand of ws.ts sends through the command gate: *)
(* one command for the engine, or the bootstrap of a turn, which creates   *)
(* its thread, prepares a git worktree, runs the setup script, starts the  *)
(* turn, and deletes the thread again when a step fails.  All calls are    *)
(* about one thread.  The engine is what CommandLedger promises of it: a   *)
(* dispatch is one step that happens whole, is rejected, or fails without  *)
(* effect; each call has a command of its own.                             *)
(***************************************************************************)
EXTENDS CommandGate

CONSTANTS
    Kinds,      \* what the calls may ask for
    MayFail     \* steps that may fail

\* Two bootstraps, a turn without one, and two commands about the thread.
Kind == {"draft", "worktree", "send", "move", "delete"}

ASSUME KindAssumption == Kinds \subseteq [Client -> Kind]

VARIABLES
    kind,       \* what each call asks for
    created,    \* createdThread of each bootstrap
    thread,     \* the thread in the read model, who made it and who deleted it
    log         \* meta updates and turn starts, with their thread's worktree

vars == <<gate, effect, kind, created, thread, log>>

NoThread == [state |-> "absent", maker |-> NoClient, worktree |-> NoClient,
             deleters |-> {}, left |-> FALSE]

\* A draft's bootstrap creates the thread; another prepares a worktree for one
\* that is there.
Init ==
    /\ GateInit
    /\ kind \in Kinds
    /\ created = [c \in Client |-> FALSE]
    /\ thread \in {NoThread, [NoThread EXCEPT !.state = "live"]}
    /\ log = <<>>

Bootstraps(c) == kind[c] \in {"draft", "worktree"}
Threads == thread.state # "absent"

\* The log after a call's event, which finds the thread as it is then.
Logged(c, type) ==
    Append(log, [type |-> type, by |-> c, worktree |-> thread'.worktree])

\* What an effect does next: to fail is to clean up first, if there is something.
First(c) == CASE kind[c] = "draft" -> "create"
              [] kind[c] = "worktree" -> "worktree"
              [] kind[c] = "send" -> "turn"
              [] kind[c] = "move" -> "move"
              [] kind[c] = "delete" -> "delete"
At(c, step) == Runs(c) /\ effect[c] = step
Go(c, step) == effect' = [effect EXCEPT ![c] = step]
Fail(c) == Go(c, IF created'[c] THEN "cleanup" ELSE "failed")

-----------------------------------------------------------------------------
Begin(c) ==
    /\ At(c, "new")
    /\ Go(c, First(c))
    /\ UNCHANGED <<gate, kind, created, thread, log>>

\* Mutant: the thread counts as created before the engine has said so.
CreatedEarly(c) == [created EXCEPT ![c] = TRUE]

CreatedWhenAccepted(c) == [created EXCEPT ![c] = ~Threads]

\* thread.create, which the decider accepts for a thread it has never seen.
CreateThread(c) ==
    /\ At(c, "create")
    /\ \/ /\ created' = CreatedWhenAccepted(c)
          /\ IF Threads THEN Fail(c) /\ UNCHANGED thread
             ELSE /\ thread' = [NoThread EXCEPT !.state = "live", !.maker = c]
                  /\ Go(c, "worktree")
       \/ "create" \in MayFail /\ UNCHANGED <<created, thread>> /\ Fail(c)
    /\ UNCHANGED <<gate, kind, log>>

\* git.createWorktree
PrepareWorktree(c) ==
    /\ At(c, "worktree")
    /\ UNCHANGED <<gate, kind, created, thread, log>>
    /\ Go(c, "meta") \/ ("worktree" \in MayFail /\ Fail(c))

\* Mutant: the turn is started without the thread's update.
SkipUpdate(c) == thread

Updated(c) == [thread EXCEPT !.worktree = c]

\* thread.meta.update; a deleted thread is still a thread to the decider.
UpdateThread(c) ==
    /\ At(c, "meta")
    /\ \/ /\ Threads
          /\ thread' = Updated(c) /\ log' = Logged(c, "meta")
          /\ UNCHANGED created /\ Go(c, "setup")
       \/ /\ ~Threads \/ "meta" \in MayFail
          /\ UNCHANGED <<created, thread, log>> /\ Fail(c)
    /\ UNCHANGED <<gate, kind>>

\* runSetupProgram: a script that cannot be started is recorded and no failure.
RunSetup(c) ==
    /\ At(c, "setup")
    /\ UNCHANGED <<gate, kind, created, thread, log>>
    /\ Go(c, "turn") \/ ("setup" \in MayFail /\ Fail(c))

\* thread.turn.start
StartTurn(c) ==
    /\ At(c, "turn")
    /\ UNCHANGED <<gate, kind, created, thread>>
    /\ \/ Threads /\ log' = Logged(c, "turn") /\ Go(c, "ok")
       \/ (~Threads \/ "turn" \in MayFail) /\ UNCHANGED log /\ Fail(c)

\* thread.meta.update of a client, whose user gives the thread the project's own
\* checkout or another worktree.
MoveThread(c) ==
    /\ At(c, "move")
    /\ \/ /\ Threads
          /\ \E w \in {NoClient, c} : thread' = [thread EXCEPT !.worktree = w]
          /\ log' = Logged(c, "meta")
          /\ UNCHANGED created /\ Go(c, "ok")
       \/ ~Threads /\ UNCHANGED <<created, thread, log>> /\ Fail(c)
    /\ UNCHANGED <<gate, kind>>

Deleted(c) == [thread EXCEPT !.state = "deleted", !.deleters = @ \cup {c}]

\* thread.delete of a client.
DeleteThread(c) ==
    /\ At(c, "delete")
    /\ \/ Threads /\ thread' = Deleted(c) /\ UNCHANGED created /\ Go(c, "ok")
       \/ ~Threads /\ UNCHANGED <<created, thread>> /\ Fail(c)
    /\ UNCHANGED <<gate, kind, log>>

\* cleanupCreatedThread; its own failure is logged and ignored.
CleanUp(c) ==
    /\ At(c, "cleanup")
    /\ \/ thread' = Deleted(c)
       \/ "cleanup" \in MayFail /\ thread' = [thread EXCEPT !.left = TRUE]
    /\ Go(c, "failed")
    /\ UNCHANGED <<gate, kind, created, log>>

-----------------------------------------------------------------------------
Effect(c) ==
    \/ Begin(c) \/ CreateThread(c) \/ PrepareWorktree(c) \/ UpdateThread(c)
    \/ RunSetup(c) \/ StartTurn(c) \/ MoveThread(c) \/ DeleteThread(c) \/ CleanUp(c)

Next ==
    \/ GateStep /\ UNCHANGED <<kind, created, thread, log>>
    \/ \E c \in Client : Effect(c)

Spec == Init /\ [][Next]_vars

\* Startup's own phases are assumed to end: a failed one ends the fiber as well.
\* So are git's and the script runner's answers; the engine always answers.
FairSpec ==
    /\ Spec /\ WF_vars(Startup /\ UNCHANGED <<kind, created, thread, log>>)
    /\ WF_vars(Worker /\ UNCHANGED <<kind, created, thread, log>>)
    /\ \A c \in Client :
         /\ WF_vars(Caller(c) /\ UNCHANGED <<kind, created, thread, log>>)
         /\ WF_vars(Effect(c))
-----------------------------------------------------------------------------
(* A bootstrap that failed undoes what it did to the record and no more: the *)
(* thread it made is deleted again, unless the deletion failed too, it       *)
(* leaves no turn, and it never deletes a thread that another call made,     *)
(* whichever of two bootstraps of one thread is first (ws.ts:205-214,        *)
(* 374-382; server.test.ts:3225).                                            *)
CleanupUndoesOwnThread ==
    /\ \A c \in Client : effect[c] = "failed" /\ thread.maker = c =>
         thread.state = "deleted" \/ thread.left
    /\ \A c \in thread.deleters : Bootstraps(c) => thread.maker = c
    /\ \A i \in DOMAIN log : log[i].type = "turn" => effect[log[i].by] # "failed"

\* The i-th entry, a bootstrap's turn, has the worktree of the update before it.
RunsInWorktree(i) ==
    log[i].type = "turn" /\ Bootstraps(log[i].by) =>
        \E own, last \in 1 .. i - 1 :
            /\ own <= last /\ log[own].by = log[i].by
            /\ log[own].type = "meta" /\ log[last].type = "meta"
            /\ \A k \in last + 1 .. i - 1 : log[k].type = "turn"
            /\ log[i].worktree = log[last].worktree
            /\ log[last].worktree = NoClient => kind[log[last].by] = "move"

(* The turn of a bootstrap starts in the worktree of the last update before  *)
(* it, which is the bootstrap's own or a later one, and has none only when   *)
(* that was a client's: another call can take its worktree away between the  *)
(* two commands, but no failure and no other order does, and the agent does  *)
(* not edit the project's checkout unasked (ws.ts:350-371, decider.ts:239,   *)
(* BranchToolbar.tsx:73, server.test.ts:2892).                               *)
TurnRunsInWorktree == \A i \in DOMAIN log : RunsInWorktree(i)
=============================================================================
