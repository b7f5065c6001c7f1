------------------------ MODULE ThreadBootstrap_proofs ------------------------
(***************************************************************************)
(* Theorems about CommandGate and ThreadBootstrap, for any number of calls *)
(* and every combination of what they ask for and which steps fail.        *)
(***************************************************************************)
EXTENDS ThreadBootstrap, TLAPS

(* The shapes the arguments need: what each call asks for, where it is, and  *)
(* how far its effect has come.                                              *)
Shape ==
    /\ kind \in [Client -> Kind]
    /\ created \in [Client -> BOOLEAN]
    /\ DOMAIN effect = Client /\ DOMAIN pc = Client /\ DOMAIN result = Client
    /\ readiness \in {"pending", "ready", "failed"}
    /\ commandReady \in {"pending", readiness}
    /\ taken \in Client \cup {NoClient}
    /\ queue \in Seq(Client) /\ arrived \in Seq(Client)

\* The gate is open for whoever runs.
OpenForRunning ==
    \A c \in Client : pc[c] = "running" \/ Begun(c) => readiness = "ready"

GateInv == Shape /\ OpenForRunning

(* Before any call, nothing runs.                                            *)
LEMMA GateInitially == Init => GateInv
  BY KindAssumption
  DEF Init, GateInit, GateInv, Shape, OpenForRunning, Begun

(* A step of the gate changes no effect; one of an effect is taken only by a *)
(* call that runs directly, which read "ready", or is held by the worker,    *)
(* which was released by a Deferred that succeeded.                          *)
LEMMA GateInductive == GateInv /\ [Next]_vars => GateInv'
<1> SUFFICES ASSUME GateInv, [Next]_vars PROVE GateInv'
  OBVIOUS
<1> USE DEF GateInv, Shape, OpenForRunning, Begun
<1>1. CASE GateStep /\ UNCHANGED <<kind, created, thread, log>>
  <2>1. CASE Startup
    BY <1>1, <2>1 DEF Startup, EndStartup, CompleteDeferred
  <2>2. CASE Worker
    <3>1. CASE WorkerTake
      <4>1. Head(queue) \in Client /\ Tail(queue) \in Seq(Client)
        BY <3>1 DEF WorkerTake
      <4> QED
        BY <1>1, <3>1, <4>1 DEF WorkerTake
    <3>2. CASE WorkerRun
      BY <1>1, <3>2 DEF WorkerRun
    <3> QED
      BY <2>2, <3>1, <3>2 DEF Worker
  <2>3. ASSUME NEW c \in Client, Caller(c) \/ Interrupt(c) PROVE GateInv'
    <3>1. CASE ReadReadiness(c)
      <4>1. Route = "running" => readiness = "ready"
        BY DEF Route
      <4> QED
        BY <1>1, <3>1, <4>1 DEF ReadReadiness
    <3>2. CASE Offer(c)
      <4>1. Append(queue, c) \in Seq(Client) /\ Append(arrived, c) \in Seq(Client)
        OBVIOUS
      <4> QED
        BY <1>1, <3>2, <4>1 DEF Offer
    <3>3. CASE RunDirectly(c) \/ Interrupt(c)
      BY <1>1, <3>3 DEF RunDirectly, Interrupt
    <3> QED
      BY <2>3, <3>1, <3>2, <3>3 DEF Caller
  <2> QED
    BY <1>1, <2>1, <2>2, <2>3 DEF GateStep
<1>2. ASSUME NEW c \in Client, Effect(c) PROVE GateInv'
  <2>1. Runs(c) /\ DOMAIN effect' = Client /\ UNCHANGED <<gate, kind>>
    BY <1>2 DEF Effect, Begin, CreateThread, PrepareWorktree, UpdateThread, RunSetup,
                StartTurn, MoveThread, DeleteThread, CleanUp, At, Go, Fail
  <2>2. created' \in [Client -> BOOLEAN]
    BY <1>2 DEF Effect, Begin, CreateThread, PrepareWorktree, UpdateThread, RunSetup,
                StartTurn, MoveThread, DeleteThread, CleanUp, At, Go, Fail, CreatedWhenAccepted, Threads
  <2>3. readiness = "ready"
    BY <2>1 DEF Runs, Released
  <2> QED
    BY <2>1, <2>2, <2>3 DEF gate
<1>3. CASE UNCHANGED vars
  BY <1>3 DEF vars, gate
<1> QED
  BY <1>1, <1>2, <1>3 DEF Next

(* No command touches the server before its startup has succeeded: a call    *)
(* that read the gate as closed runs nothing unless the gate then opens      *)
(* (serverRuntimeStartup.ts:93-122).                                         *)
THEOREM NothingUnready == Spec => []NothingRunsUnready
<1>1. GateInv => NothingRunsUnready
  BY DEF GateInv, OpenForRunning, NothingRunsUnready
<1> QED
  BY <1>1, GateInitially, GateInductive, PTL DEF Spec

-----------------------------------------------------------------------------
(* What a call has said it will do, while its effect is under way.           *)
\* The thread a call has made is its own, and only its maker cleans up.
MadeByOne ==
    \A c \in Client :
        /\ created[c] => Threads /\ thread.maker = c /\ effect[c] \notin {"new", "create"}
        /\ thread.maker = c => created[c]
        /\ effect[c] = "cleanup" => created[c]
        /\ created[c] /\ effect[c] = "failed" => thread.state = "deleted" \/ thread.left
        /\ effect[c] = "delete" => ~Bootstraps(c)
        /\ effect[c] = "move" => kind[c] = "move"
        /\ c \in thread.deleters /\ Bootstraps(c) => thread.maker = c

\* A turn in the log is its call's last step; a bootstrap that is past its update
\* has it in the log.
TurnsAreLast ==
    /\ log \in Seq([type : {"meta", "turn"}, by : Client, worktree : Client \cup {NoClient}])
    /\ log # <<>> => Threads
    /\ \A i \in DOMAIN log : log[i].type = "turn" => effect[log[i].by] = "ok"
    /\ \A c \in Client : Bootstraps(c) /\ effect[c] \in {"setup", "turn"} =>
         \E own \in DOMAIN log : log[own].by = c /\ log[own].type = "meta"

ThreadShape ==
    thread \in [state : {"absent", "live", "deleted"}, maker : Client \cup {NoClient},
                worktree : Client \cup {NoClient}, deleters : SUBSET Client, left : BOOLEAN]

BootstrapInv == ThreadShape /\ MadeByOne /\ TurnsAreLast

\* m is the last update in the log, and one that clears the worktree is a client's.
LastUpdate(m) ==
    /\ m \in DOMAIN log /\ log[m].type = "meta"
    /\ \A k \in m + 1 .. Len(log) : log[k].type = "turn"
    /\ log[m].worktree = NoClient => kind[log[m].by] = "move"

\* The thread has the worktree of the last update in the log.
UpdatesStand ==
    /\ \A own \in DOMAIN log : log[own].type = "meta" =>
         \E m \in own .. Len(log) : LastUpdate(m) /\ thread.worktree = log[m].worktree
    /\ TurnRunsInWorktree

(* Before any call, nobody has made the thread.                              *)
LEMMA BootstrapInitially == Init => BootstrapInv
<1> SUFFICES ASSUME Init PROVE BootstrapInv
  OBVIOUS
<1>1. /\ thread \in [state : {"absent", "live"}, maker : {NoClient}, worktree : {NoClient},
                     deleters : {{}}, left : BOOLEAN]
      /\ log = <<>> /\ \A c \in Client : effect[c] = "new" /\ ~created[c]
  <2>1. log = <<>> /\ \A c \in Client : effect[c] = "new" /\ ~created[c]
    BY DEF Init, GateInit
  <2>2. thread = NoThread \/ thread = [NoThread EXCEPT !.state = "live"]
    BY DEF Init
  <2>3. \E x \in {"absent", "live"} :
          thread = [state |-> x, maker |-> NoClient, worktree |-> NoClient,
                    deleters |-> {}, left |-> FALSE]
    BY <2>2 DEF NoThread
  <2> QED
    BY <2>1, <2>3
<1>2. ThreadShape
  BY <1>1 DEF ThreadShape
<1>3. MadeByOne
  BY <1>1, ClientAssumption DEF MadeByOne
<1>4. TurnsAreLast
  BY <1>1 DEF TurnsAreLast
<1> QED
  BY <1>2, <1>3, <1>4 DEF BootstrapInv

(* A failure leads to the cleanup when the call has made the thread.         *)
LEMMA FailureGoesOn ==
  ASSUME NEW c \in Client, Shape, Fail(c), UNCHANGED created
  PROVE  \E e \in {"cleanup", "failed"} :
           effect' = [effect EXCEPT ![c] = e] /\ (e = "cleanup") = created[c]
<1>1. CASE created[c]
  BY <1>1 DEF Fail, Go, Shape
<1>2. CASE ~created[c]
  BY <1>2 DEF Fail, Go, Shape
<1> QED
  BY <1>1, <1>2

(* An entry is added at the end of the log.                                  *)
LEMMA LogGrows ==
  ASSUME NEW l, NEW E, l \in Seq(E), NEW e \in E
  PROVE  /\ Append(l, e) \in Seq(E) /\ Append(l, e) # <<>>
         /\ Len(l) \in Nat /\ DOMAIN l = 1 .. Len(l)
         /\ DOMAIN Append(l, e) = 1 .. Len(l) + 1 /\ Len(Append(l, e)) = Len(l) + 1
         /\ \A k \in 1 .. Len(l) : Append(l, e)[k] = l[k]
         /\ Append(l, e)[Len(l) + 1] = e
  OBVIOUS

(* A new entry keeps the turns last, when it is a turn of a call that ends   *)
(* or an update of one that goes on.                                         *)
LEMMA TurnsStayLast ==
  ASSUME NEW c \in Client, Shape, TurnsAreLast, Threads', UNCHANGED kind,
         NEW e \in [type : {"meta", "turn"}, by : Client, worktree : Client \cup {NoClient}],
         log' = Append(log, e), e.by = c, NEW step, effect' = [effect EXCEPT ![c] = step],
         effect[c] # "ok", e.type = "turn" => step = "ok",
         step \in {"setup", "turn"} => e.type = "meta"
  PROVE  TurnsAreLast'
<1>1. /\ Len(log) \in Nat /\ DOMAIN log = 1 .. Len(log)
      /\ log' \in Seq([type : {"meta", "turn"}, by : Client, worktree : Client \cup {NoClient}])
      /\ DOMAIN log' = 1 .. Len(log) + 1 /\ log'[Len(log) + 1] = e
      /\ \A k \in 1 .. Len(log) : log'[k] = log[k]
  BY LogGrows DEF TurnsAreLast
<1>2. ASSUME NEW i \in DOMAIN log', log'[i].type = "turn" PROVE effect'[log'[i].by] = "ok"
  <2>1. CASE i = Len(log) + 1
    BY <1>1, <1>2, <2>1 DEF Shape
  <2>2. CASE i \in 1 .. Len(log)
    <3>1. effect[log[i].by] = "ok"
      BY <1>1, <1>2, <2>2 DEF TurnsAreLast
    <3> QED
      BY <1>1, <2>2, <3>1
  <2> QED
    BY <1>1, <2>1, <2>2
<1>3. ASSUME NEW d \in Client, Bootstraps(d)', effect'[d] \in {"setup", "turn"}
      PROVE  \E own \in DOMAIN log' : log'[own].by = d /\ log'[own].type = "meta"
  <2>1. CASE d = c
    <3>1. Len(log) + 1 \in DOMAIN log' /\ e.type = "meta"
      BY <1>1, <1>3, <2>1 DEF Shape
    <3> QED
      BY <1>1, <2>1, <3>1
  <2>2. CASE d # c
    <3>1. PICK own \in 1 .. Len(log) : log[own].by = d /\ log[own].type = "meta"
      BY <1>1, <1>3, <2>2 DEF TurnsAreLast, Bootstraps, Shape
    <3> QED
      BY <1>1, <3>1
  <2> QED
    BY <2>1, <2>2
<1> QED
  BY <1>1, <1>2, <1>3 DEF TurnsAreLast

(* Each step of an effect keeps who made the thread apart from who may       *)
(* delete it, and a worktree in the record from its update to its turn.      *)
LEMMA BootstrapInductive == GateInv /\ BootstrapInv /\ [Next]_vars => BootstrapInv'
<1> SUFFICES ASSUME GateInv, BootstrapInv, [Next]_vars PROVE BootstrapInv'
  OBVIOUS
<1> USE DEF BootstrapInv, ThreadShape, MadeByOne, TurnsAreLast, Threads, Bootstraps, Kind
<1>0. Shape
  BY DEF GateInv
<1>1. CASE GateStep /\ UNCHANGED <<kind, created, thread, log>>
  <2>1. UNCHANGED effect
    BY <1>1 DEF GateStep, Startup, EndStartup, CompleteDeferred, Worker, WorkerTake,
                WorkerRun, Caller, ReadReadiness, Offer, RunDirectly, Interrupt
  <2> QED
    BY <1>1, <2>1
<1>2. ASSUME NEW c \in Client, Effect(c) PROVE BootstrapInv'
  <2>1. CASE Begin(c)
    <3>1. /\ effect[c] = "new" /\ effect' = [effect EXCEPT ![c] = First(c)]
          /\ UNCHANGED <<kind, created, thread, log>>
      BY <2>1 DEF Begin, At, Go
    <3>2. /\ First(c) \in {"create", "worktree", "turn", "move", "delete"}
          /\ First(c) = "delete" => kind[c] = "delete"
          /\ First(c) = "turn" => kind[c] = "send"
          /\ First(c) = "move" => kind[c] = "move"
      BY <1>0 DEF First, Shape
    <3> QED
      BY <1>0, <3>1, <3>2 DEF Shape
  <2>2. CASE CreateThread(c)
    <3>1. CASE ~Threads /\ created'[c]
      <4>1. /\ effect[c] = "create" /\ effect' = [effect EXCEPT ![c] = "worktree"]
            /\ created' = [created EXCEPT ![c] = TRUE] /\ UNCHANGED <<kind, log>>
            /\ thread' = [state |-> "live", maker |-> c, worktree |-> NoClient,
                          deleters |-> {}, left |-> FALSE]
        <5>1. effect[c] = "create" /\ ~created[c] /\ UNCHANGED <<kind, log>>
          BY <1>0, <2>2 DEF CreateThread, At, Shape
        <5>2. /\ created' = [created EXCEPT ![c] = TRUE]
              /\ thread' = [NoThread EXCEPT !.state = "live", !.maker = c]
              /\ effect' = [effect EXCEPT ![c] = "worktree"]
          BY <2>2, <3>1, <5>1 DEF CreateThread, CreatedWhenAccepted, Go
        <5> QED
          BY <5>1, <5>2 DEF NoThread
      <4> QED
        BY <1>0, <3>1, <4>1 DEF Shape
    <3>2. CASE ~(~Threads /\ created'[c])
      <4>1. /\ effect[c] = "create" /\ effect' = [effect EXCEPT ![c] = "failed"]
            /\ created' = created /\ UNCHANGED <<kind, thread, log>>
        <5>1. effect[c] = "create" /\ ~created[c] /\ UNCHANGED <<kind, log>>
          BY <1>0, <2>2 DEF CreateThread, At, Shape
        <5>2. [created EXCEPT ![c] = FALSE] = created
          BY <1>0, <5>1 DEF Shape
        <5>3. CASE created' = CreatedWhenAccepted(c) /\ Threads /\ Fail(c) /\ UNCHANGED thread
          BY <1>0, <5>1, <5>2, <5>3 DEF CreatedWhenAccepted, Go, Fail, Shape
        <5>4. CASE Fail(c) /\ UNCHANGED <<created, thread>>
          BY <1>0, <5>1, <5>4 DEF Go, Fail, Shape
        <5>5. CASE created' = CreatedWhenAccepted(c) /\ ~Threads
          BY <1>0, <3>2, <5>5 DEF CreatedWhenAccepted, Shape
        <5> QED
          BY <2>2, <5>3, <5>4, <5>5 DEF CreateThread
      <4> QED
        BY <1>0, <4>1 DEF Shape
    <3> QED
      BY <3>1, <3>2
  <2>3. CASE PrepareWorktree(c) \/ RunSetup(c)
    <3>1. PICK e \in {"meta", "turn", "cleanup", "failed"} :
            /\ effect' = [effect EXCEPT ![c] = e] /\ UNCHANGED <<kind, created, thread, log>>
            /\ effect[c] \in {"worktree", "setup"} /\ (e = "turn" => effect[c] = "setup")
            /\ e = "cleanup" => created[c]
            /\ e = "failed" => ~created[c]
      <4>1. UNCHANGED <<kind, created, thread, log>>
        BY <2>3 DEF PrepareWorktree, RunSetup
      <4>2. CASE Fail(c) /\ effect[c] \in {"worktree", "setup"}
        <5>1. PICK e \in {"cleanup", "failed"} :
                effect' = [effect EXCEPT ![c] = e] /\ (e = "cleanup") = created[c]
          BY <1>0, <4>1, <4>2, FailureGoesOn
        <5> QED
          BY <4>1, <4>2, <5>1
      <4>3. CASE effect[c] = "worktree" /\ effect' = [effect EXCEPT ![c] = "meta"]
        BY <4>1, <4>3
      <4>4. CASE effect[c] = "setup" /\ effect' = [effect EXCEPT ![c] = "turn"]
        BY <4>1, <4>4
      <4> QED
        BY <2>3, <4>2, <4>3, <4>4 DEF PrepareWorktree, RunSetup, At, Go
    <3> QED
      BY <1>0, <3>1 DEF Shape
  <2>4. CASE UpdateThread(c)
    <3>1. CASE /\ Threads /\ thread' = [thread EXCEPT !.worktree = c]
               /\ log' = Logged(c, "meta") /\ effect' = [effect EXCEPT ![c] = "setup"]
               /\ UNCHANGED created
      <4>1. effect[c] = "meta" /\ UNCHANGED <<kind, created>>
        BY <2>4, <3>1 DEF UpdateThread, At
      <4>2. ThreadShape' /\ MadeByOne'
        BY <1>0, <3>1, <4>1 DEF Shape
      <4>3. /\ log' = Append(log, [type |-> "meta", by |-> c, worktree |-> c])
            /\ thread' \in [state : {"absent", "live", "deleted"}, maker : Client \cup {NoClient},
                           worktree : Client \cup {NoClient}, deleters : SUBSET Client,
                           left : BOOLEAN]
        BY <3>1, <4>2 DEF Logged
      <4>4. TurnsAreLast'
        <5> DEFINE e == [type |-> "meta", by |-> c, worktree |-> c]
        <5>1. e \in [type : {"meta", "turn"}, by : Client, worktree : Client \cup {NoClient}]
              /\ e.by = c /\ e.type = "meta" /\ log' = Append(log, e)
          BY <4>3
        <5>2. /\ TurnsAreLast /\ Threads' /\ UNCHANGED kind
              /\ effect[c] # "ok" /\ effect' = [effect EXCEPT ![c] = "setup"]
          BY <3>1, <4>1
        <5> HIDE DEF e, TurnsAreLast, Threads, BootstrapInv
        <5> QED
          BY <1>0, <5>1, <5>2, TurnsStayLast
      <4> QED
        BY <4>2, <4>4
    <3>2. CASE thread' = thread /\ log' = log /\ Fail(c)
      <4>1. PICK e \in {"cleanup", "failed"} :
              /\ effect' = [effect EXCEPT ![c] = e] /\ UNCHANGED <<kind, created, thread, log>>
              /\ effect[c] = "meta" /\ (e = "cleanup") = created[c]
        <5>1. effect[c] = "meta" /\ UNCHANGED <<kind, created, log>>
          BY <2>4, <3>2 DEF UpdateThread, At
        <5>2. PICK e \in {"cleanup", "failed"} :
                effect' = [effect EXCEPT ![c] = e] /\ (e = "cleanup") = created[c]
          BY <1>0, <3>2, <5>1, FailureGoesOn
        <5> QED
          BY <3>2, <5>1, <5>2
      <4> QED
        BY <1>0, <4>1 DEF Shape
    <3> QED
      BY <2>4, <3>1, <3>2 DEF UpdateThread, Updated, Go
  <2>5. CASE StartTurn(c)
    <3>1. CASE Fail(c) /\ UNCHANGED log
      <4>1. PICK e \in {"cleanup", "failed"} :
              /\ effect' = [effect EXCEPT ![c] = e] /\ UNCHANGED <<kind, created, thread, log>>
              /\ effect[c] = "turn" /\ (e = "cleanup") = created[c]
        <5>1. effect[c] = "turn" /\ UNCHANGED <<kind, created, thread, log>>
          BY <2>5, <3>1 DEF StartTurn, At
        <5>2. PICK e \in {"cleanup", "failed"} :
                effect' = [effect EXCEPT ![c] = e] /\ (e = "cleanup") = created[c]
          BY <1>0, <3>1, <5>1, FailureGoesOn
        <5> QED
          BY <5>1, <5>2
      <4> QED
        BY <1>0, <4>1 DEF Shape
    <3>2. CASE Threads /\ effect' = [effect EXCEPT ![c] = "ok"] /\ log' = Logged(c, "turn")
      <4>1. effect[c] = "turn" /\ UNCHANGED <<kind, created, thread>>
        BY <2>5, <3>2 DEF StartTurn, At
      <4>2. ThreadShape' /\ MadeByOne'
        BY <1>0, <3>2, <4>1 DEF Shape
      <4>3. log' = Append(log, [type |-> "turn", by |-> c, worktree |-> thread.worktree])
        BY <3>2, <4>1 DEF Logged
      <4>4. TurnsAreLast'
        <5> DEFINE e == [type |-> "turn", by |-> c, worktree |-> thread.worktree]
        <5>1. e \in [type : {"meta", "turn"}, by : Client, worktree : Client \cup {NoClient}]
              /\ e.by = c /\ e.type = "turn" /\ log' = Append(log, e)
          BY <4>3
        <5>2. /\ TurnsAreLast /\ Threads' /\ UNCHANGED kind
              /\ effect[c] # "ok" /\ effect' = [effect EXCEPT ![c] = "ok"]
          BY <3>2, <4>1
        <5> HIDE DEF e, TurnsAreLast, Threads, BootstrapInv
        <5> QED
          BY <1>0, <5>1, <5>2, TurnsStayLast
      <4> QED
        BY <4>2, <4>4
    <3> QED
      BY <2>5, <3>1, <3>2 DEF StartTurn, Go
  <2>8. CASE MoveThread(c)
    <3>1. effect[c] = "move" /\ UNCHANGED <<kind, created>>
      BY <2>8 DEF MoveThread, At
    <3>2. CASE Threads /\ log' = Logged(c, "meta") /\ effect' = [effect EXCEPT ![c] = "ok"]
      <4>1. PICK w \in Client \cup {NoClient} : thread' = [thread EXCEPT !.worktree = w]
        BY <2>8, <3>2 DEF MoveThread, Go, Fail
      <4>2. ThreadShape' /\ MadeByOne'
        BY <1>0, <3>1, <3>2, <4>1 DEF Shape
      <4>3. log' = Append(log, [type |-> "meta", by |-> c, worktree |-> w])
        BY <3>2, <4>1 DEF Logged
      <4>4. TurnsAreLast'
        <5> DEFINE e == [type |-> "meta", by |-> c, worktree |-> w]
        <5>1. e \in [type : {"meta", "turn"}, by : Client, worktree : Client \cup {NoClient}]
              /\ e.by = c /\ e.type = "meta" /\ log' = Append(log, e)
          BY <4>3
        <5>2. /\ TurnsAreLast /\ Threads' /\ UNCHANGED kind
              /\ effect[c] # "ok" /\ effect' = [effect EXCEPT ![c] = "ok"]
          BY <3>1, <3>2, <4>1
        <5> HIDE DEF e, TurnsAreLast, Threads, BootstrapInv
        <5> QED
          BY <1>0, <5>1, <5>2, TurnsStayLast
      <4> QED
        BY <4>2, <4>4
    <3>3. CASE thread' = thread /\ log' = log /\ ~Threads /\ Fail(c)
      <4>1. PICK e \in {"cleanup", "failed"} :
              effect' = [effect EXCEPT ![c] = e] /\ (e = "cleanup") = created[c]
        BY <1>0, <3>1, <3>3, FailureGoesOn
      <4> QED
        BY <1>0, <3>1, <3>3, <4>1 DEF Shape
    <3> QED
      BY <2>8, <3>2, <3>3 DEF MoveThread, Go
  <2>6. CASE DeleteThread(c)
    <3>1. /\ effect[c] = "delete"
          /\ UNCHANGED <<kind, created, log>>
      BY <2>6 DEF DeleteThread, At
    <3>2. CASE thread' = Deleted(c) /\ effect' = [effect EXCEPT ![c] = "ok"] /\ Threads
      <4>1. /\ ~Bootstraps(c) /\ thread.deleters \cup {c} \subseteq Client
            /\ thread' = [state |-> "deleted", maker |-> thread.maker, left |-> thread.left,
                          worktree |-> thread.worktree, deleters |-> thread.deleters \cup {c}]
        BY <3>1, <3>2 DEF Deleted
      <4> QED
        BY <1>0, <3>1, <3>2, <4>1 DEF Shape
    <3>3. CASE thread' = thread /\ ~Threads /\ Fail(c)
      <4>1. PICK e \in {"cleanup", "failed"} :
              effect' = [effect EXCEPT ![c] = e] /\ (e = "cleanup") = created[c]
        BY <1>0, <3>1, <3>3, FailureGoesOn
      <4> QED
        BY <1>0, <3>1, <3>3, <4>1 DEF Shape
    <3> QED
      BY <2>6, <3>2, <3>3 DEF DeleteThread, Go
  <2>7. CASE CleanUp(c)
    <3>1. /\ effect[c] = "cleanup" /\ effect' = [effect EXCEPT ![c] = "failed"]
          /\ UNCHANGED <<kind, created, log>>
          /\ thread' = Deleted(c) \/ thread' = [thread EXCEPT !.left = TRUE]
      BY <2>7 DEF CleanUp, At, Go
    <3>2. thread.maker = c /\ Threads
      BY <3>1
    <3>3. CASE thread' = Deleted(c)
      <4>1. /\ thread.deleters \cup {c} \subseteq Client
            /\ thread' = [state |-> "deleted", maker |-> thread.maker, left |-> thread.left,
                          worktree |-> thread.worktree, deleters |-> thread.deleters \cup {c}]
        BY <3>3 DEF Deleted
      <4> QED
        BY <1>0, <3>1, <3>2, <4>1 DEF Shape
    <3>4. CASE thread' = [thread EXCEPT !.left = TRUE]
      <4>1. thread' = [state |-> thread.state, maker |-> thread.maker, left |-> TRUE,
                       worktree |-> thread.worktree, deleters |-> thread.deleters]
        BY <3>4
      <4>2. ThreadShape' /\ thread'.left
        BY <4>1
      <4>3. MadeByOne' /\ TurnsAreLast'
        BY <1>0, <3>1, <3>2, <4>1, <4>2 DEF Shape
      <4> QED
        BY <4>2, <4>3
    <3> QED
      BY <3>1, <3>3, <3>4
  <2> QED
    BY <1>2, <2>1, <2>2, <2>3, <2>4, <2>5, <2>6, <2>7, <2>8 DEF Effect
<1>3. CASE UNCHANGED vars
  BY <1>3 DEF vars
<1> QED
  BY <1>1, <1>2, <1>3 DEF Next

(* A bootstrap that fails deletes the thread it made, unless the deletion    *)
(* fails too, and no other, and leaves no turn (ws.ts:205-214, 374-382).     *)
THEOREM FailedBootstrapIsUndone == Spec => []CleanupUndoesOwnThread
<1>1. BootstrapInv => CleanupUndoesOwnThread
  BY DEF BootstrapInv, ThreadShape, MadeByOne, TurnsAreLast, CleanupUndoesOwnThread
<1> QED
  BY <1>1, GateInitially, GateInductive, BootstrapInitially, BootstrapInductive, PTL DEF Spec

(* What an entry says of those before it stands when the log grows.          *)
LEMMA EarlierTurns ==
  ASSUME NEW i \in 1 .. Len(log), Len(log) \in Nat, UNCHANGED kind,
         \A k \in 1 .. Len(log) : log'[k] = log[k], RunsInWorktree(i)
  PROVE  RunsInWorktree(i)'
<1>1. i - 1 < Len(log) /\ \A k \in 1 .. i - 1 : log'[k] = log[k]
  OBVIOUS
<1>2. log'[i] = log[i] /\ (Bootstraps(log[i].by) <=> Bootstraps(log[i].by)')
  BY DEF Bootstraps
<1>3. \A last \in 1 .. i - 1 : \A k \in last + 1 .. i - 1 : k \in 1 .. i - 1
  OBVIOUS
<1> SUFFICES ASSUME log[i].type = "turn", Bootstraps(log[i].by) PROVE RunsInWorktree(i)'
  BY <1>2 DEF RunsInWorktree
<1>4. PICK own, last \in 1 .. i - 1 :
        /\ own <= last /\ log[own].by = log[i].by
        /\ log[own].type = "meta" /\ log[last].type = "meta"
        /\ \A k \in last + 1 .. i - 1 : log[k].type = "turn"
        /\ log[i].worktree = log[last].worktree
        /\ log[last].worktree = NoClient => kind[log[last].by] = "move"
  BY DEF RunsInWorktree
<1>5. \A k \in last + 1 .. i - 1 : log'[k].type = "turn"
  BY <1>1, <1>3, <1>4
<1>6. /\ own <= last /\ log'[own].by = log'[i].by
      /\ log'[own].type = "meta" /\ log'[last].type = "meta"
      /\ log'[i].worktree = log'[last].worktree
      /\ log'[last].worktree = NoClient => kind'[log'[last].by] = "move"
  BY <1>1, <1>2, <1>4
<1> QED
  BY <1>5, <1>6 DEF RunsInWorktree

(* A turn that is appended follows the last update, one of its call's or     *)
(* later; a failure appends nothing.                                         *)
LEMMA UpdatesInductive ==
  GateInv /\ BootstrapInv /\ UpdatesStand /\ [Next]_vars => UpdatesStand'
<1> SUFFICES ASSUME GateInv, BootstrapInv, UpdatesStand, [Next]_vars PROVE UpdatesStand'
  OBVIOUS
<1>0. /\ Shape /\ BootstrapInv'
      /\ log \in Seq([type : {"meta", "turn"}, by : Client, worktree : Client \cup {NoClient}])
      /\ UNCHANGED kind
  <2>1. UNCHANGED kind
    BY DEF Next, vars, Effect, Begin, CreateThread, PrepareWorktree, UpdateThread, RunSetup,
           StartTurn, MoveThread, DeleteThread, CleanUp
  <2> QED
    BY <2>1, BootstrapInductive DEF GateInv, BootstrapInv, TurnsAreLast
<1>1. CASE UNCHANGED log /\ (log = <<>> \/ thread'.worktree = thread.worktree)
  <2>0. TurnRunsInWorktree
    BY DEF UpdatesStand
  <2>1. TurnRunsInWorktree'
    BY <1>0, <1>1, <2>0 DEF TurnRunsInWorktree, RunsInWorktree, Bootstraps
  <2> QED
    BY <1>0, <1>1, <2>0, <2>1 DEF UpdatesStand, LastUpdate
<1>2. ASSUME NEW c \in Client, Threads, log' = Logged(c, "meta"),
             thread'.worktree = NoClient => kind[c] = "move"
      PROVE  UpdatesStand'
  <2> DEFINE e == [type |-> "meta", by |-> c, worktree |-> thread'.worktree]
  <2>1. /\ log' = Append(log, e)
        /\ e \in [type : {"meta", "turn"}, by : Client, worktree : Client \cup {NoClient}]
    BY <1>0, <1>2 DEF Logged, BootstrapInv, ThreadShape
  <2>a. e.type = "meta" /\ e.by = c /\ e.worktree = thread'.worktree
    OBVIOUS
  <2> HIDE DEF e
  <2>2. /\ Len(log) \in Nat /\ DOMAIN log = 1 .. Len(log) /\ Len(log') = Len(log) + 1
        /\ DOMAIN log' = 1 .. Len(log) + 1 /\ log'[Len(log) + 1] = e
        /\ \A k \in 1 .. Len(log) : log'[k] = log[k]
    BY <1>0, <2>1, LogGrows
  <2>n. PICK n \in Nat : n = Len(log) + 1
    BY <2>2
  <2>3. LastUpdate(n)' /\ thread'.worktree = log'[n].worktree
    <3>1. n \in DOMAIN log' /\ n + 1 .. Len(log') = {} /\ log'[n] = e
      BY <2>2, <2>n
    <3> QED
      BY <1>0, <1>2, <2>a, <3>1 DEF LastUpdate
  <2>b. RunsInWorktree(n)'
    BY <2>2, <2>a, <2>n DEF RunsInWorktree
  <2>4. TurnRunsInWorktree'
    <3>1. \A i \in 1 .. Len(log) : RunsInWorktree(i) => RunsInWorktree(i)'
      BY <1>0, <2>2, EarlierTurns
    <3> QED
      BY <2>2, <2>b, <2>n, <3>1 DEF UpdatesStand, TurnRunsInWorktree
  <2>5. \A own \in DOMAIN log' : n \in own .. Len(log')
    BY <2>2, <2>n
  <2> QED
    BY <2>3, <2>4, <2>5 DEF UpdatesStand
<1>3. ASSUME NEW c \in Client, effect[c] = "turn", log' = Logged(c, "turn"), UNCHANGED thread
      PROVE  UpdatesStand'
  <2> DEFINE e == [type |-> "turn", by |-> c, worktree |-> thread.worktree]
  <2>1. /\ log' = Append(log, e)
        /\ e \in [type : {"meta", "turn"}, by : Client, worktree : Client \cup {NoClient}]
    BY <1>0, <1>3 DEF Logged, BootstrapInv, ThreadShape
  <2>a. e.type = "turn" /\ e.by = c /\ e.worktree = thread.worktree
    OBVIOUS
  <2> HIDE DEF e
  <2>2. /\ Len(log) \in Nat /\ DOMAIN log = 1 .. Len(log) /\ Len(log') = Len(log) + 1
        /\ DOMAIN log' = 1 .. Len(log) + 1 /\ log'[Len(log) + 1] = e
        /\ \A k \in 1 .. Len(log) : log'[k] = log[k]
    BY <1>0, <2>1, LogGrows
  <2>3. \A m \in 1 .. Len(log) : LastUpdate(m) => LastUpdate(m)'
    BY <1>0, <2>2, <2>a DEF LastUpdate
  <2>4. \A own \in 1 .. Len(log) : log[own].type = "meta" =>
          \E m \in own .. Len(log) : LastUpdate(m) /\ thread.worktree = log[m].worktree
    BY <2>2 DEF UpdatesStand
  <2>5. \A own \in DOMAIN log' : log'[own].type = "meta" =>
          \E m \in own .. Len(log') : LastUpdate(m)' /\ thread'.worktree = log'[m].worktree
    BY <1>3, <2>2, <2>3, <2>4, <2>a
  <2>6. ASSUME Bootstraps(c)
        PROVE  \E own, m \in 1 .. Len(log) :
                 /\ own <= m /\ log[own].by = c /\ log[own].type = "meta"
                 /\ LastUpdate(m) /\ thread.worktree = log[m].worktree
    <3>1. PICK own \in 1 .. Len(log) : log[own].by = c /\ log[own].type = "meta"
      BY <1>3, <2>2, <2>6 DEF BootstrapInv, TurnsAreLast
    <3>2. PICK m \in own .. Len(log) : LastUpdate(m) /\ thread.worktree = log[m].worktree
      BY <2>4, <3>1
    <3> QED
      BY <2>2, <3>1, <3>2
  <2>7. TurnRunsInWorktree'
    <3>1. \A i \in 1 .. Len(log) : RunsInWorktree(i) => RunsInWorktree(i)'
      BY <1>0, <2>2, EarlierTurns
    <3>2. ASSUME Bootstraps(c)
          PROVE  \E own, last \in 1 .. Len(log) :
                   /\ own <= last /\ log'[own].by = c
                   /\ log'[own].type = "meta" /\ log'[last].type = "meta"
                   /\ \A k \in last + 1 .. Len(log) : log'[k].type = "turn"
                   /\ thread.worktree = log'[last].worktree
                   /\ log'[last].worktree = NoClient => kind'[log'[last].by] = "move"
      BY <1>0, <2>2, <2>6, <3>2 DEF LastUpdate
    <3>n. PICK n \in Nat : n = Len(log) + 1
      BY <2>2
    <3>3. RunsInWorktree(n)'
      <4>1. n - 1 = Len(log) /\ log'[n] = e
        BY <2>2, <3>n
      <4>2. Bootstraps(c)' => Bootstraps(c)
        BY <1>0 DEF Bootstraps
      <4> QED
        BY <2>2, <2>a, <3>2, <4>1, <4>2 DEF RunsInWorktree
    <3> QED
      BY <2>2, <3>1, <3>3, <3>n DEF UpdatesStand, TurnRunsInWorktree
  <2> QED
    BY <2>5, <2>7 DEF UpdatesStand
<1>4. CASE (GateStep /\ UNCHANGED <<kind, created, thread, log>>) \/ UNCHANGED vars
  BY <1>1, <1>4 DEF vars
<1>5. ASSUME NEW c \in Client, Effect(c) PROVE UpdatesStand'
  <2>1. CASE Begin(c) \/ PrepareWorktree(c) \/ RunSetup(c)
    BY <1>1, <2>1 DEF Begin, PrepareWorktree, RunSetup
  <2>2. CASE CreateThread(c)
    <3>1. Threads => UNCHANGED thread
      BY <2>2 DEF CreateThread
    <3>2. ~Threads => log = <<>>
      BY DEF BootstrapInv, TurnsAreLast
    <3> QED
      BY <1>1, <2>2, <3>1, <3>2 DEF CreateThread
  <2>3. CASE DeleteThread(c) \/ CleanUp(c)
    <3>1. thread'.worktree = thread.worktree /\ UNCHANGED log
      BY <2>3 DEF DeleteThread, CleanUp, Deleted, BootstrapInv, ThreadShape
    <3> QED
      BY <1>1, <3>1
  <2>4. CASE UpdateThread(c)
    <3>1. CASE Threads /\ thread' = Updated(c) /\ log' = Logged(c, "meta")
      <4>1. thread'.worktree = c
        BY <3>1 DEF Updated, BootstrapInv, ThreadShape
      <4> QED
        BY <1>2, <3>1, <4>1, ClientAssumption
    <3>2. CASE UNCHANGED <<thread, log>>
      BY <1>1, <3>2
    <3> QED
      BY <2>4, <3>1, <3>2 DEF UpdateThread
  <2>5. CASE StartTurn(c)
    <3>1. CASE log' = Logged(c, "turn")
      BY <1>3, <2>5, <3>1 DEF StartTurn, At
    <3>2. CASE UNCHANGED log
      BY <1>1, <2>5, <3>2 DEF StartTurn
    <3> QED
      BY <2>5, <3>1, <3>2 DEF StartTurn
  <2>6. CASE MoveThread(c)
    <3>1. kind[c] = "move"
      BY <2>6 DEF MoveThread, At, BootstrapInv, MadeByOne
    <3>2. CASE Threads /\ log' = Logged(c, "meta")
      BY <1>2, <3>1, <3>2
    <3>3. CASE UNCHANGED <<thread, log>>
      BY <1>1, <3>3
    <3> QED
      BY <2>6, <3>2, <3>3 DEF MoveThread
  <2> QED
    BY <1>5, <2>1, <2>2, <2>3, <2>4, <2>5, <2>6 DEF Effect
<1> QED
  BY <1>4, <1>5 DEF Next

(* A bootstrap's turn starts in the worktree of the last update, its own or  *)
(* a later one, and has none only when a client's update took it away        *)
(* (ws.ts:350-371).                                                          *)
THEOREM TurnHasWorktree == Spec => []TurnRunsInWorktree
<1>1. Init => UpdatesStand
  <2>1. Init => log = <<>>
    BY DEF Init
  <2> QED
    BY <2>1 DEF UpdatesStand, TurnRunsInWorktree
<1>2. UpdatesStand => TurnRunsInWorktree
  BY DEF UpdatesStand
<1> QED
  BY <1>1, <1>2, GateInitially, GateInductive, BootstrapInitially, BootstrapInductive,
     UpdatesInductive, PTL DEF Spec
-----------------------------------------------------------------------------
\* How many of the calls that were queued the worker has taken.
TakenSoFar == Len(arrived) - Len(queue)

\* The queue is what is left of the arrivals, and each call arrives once.
QueueIsRest ==
    /\ TakenSoFar \in Nat
    /\ \A i \in 1 .. Len(queue) : queue[i] = arrived[TakenSoFar + i]
    /\ \A i, j \in 1 .. Len(arrived) : arrived[i] = arrived[j] => i = j
    /\ \A i \in 1 .. Len(arrived) : pc[arrived[i]] \in {"waiting", "ended", "gone"}

\* The worker holds the last call it took; those before it have their results,
\* those behind it and those not yet routed have not begun.
SettledBefore ==
    /\ taken # NoClient => TakenSoFar > 0 /\ taken = arrived[TakenSoFar]
    /\ \A i \in 1 .. TakenSoFar :
         taken = NoClient \/ i < TakenSoFar => result[arrived[i]] # "none"
    /\ \A j \in TakenSoFar + 1 .. Len(arrived) : ~Begun(arrived[j])
    /\ \A c \in Client : pc[c] \in {"new", "queueing"} => ~Begun(c)

QueueInv == QueueIsRest /\ SettledBefore

(* Before any call, nothing is queued.                                       *)
LEMMA QueueInitially == Init => QueueInv
<1> SUFFICES ASSUME Init PROVE QueueInv
  OBVIOUS
<1>1. Len(queue) = 0 /\ Len(arrived) = 0
  BY DEF Init, GateInit
<1> QED
  BY <1>1 DEF Init, GateInit, QueueInv, QueueIsRest, SettledBefore, TakenSoFar, Begun

(* The worker takes from the front and settles before it takes again; a      *)
(* caller appends; an effect begins only for the call the worker holds or    *)
(* for one that never was in the queue.                                      *)
LEMMA QueueInductive == GateInv /\ QueueInv /\ [Next]_vars => QueueInv'
<1> SUFFICES ASSUME GateInv, QueueInv, [Next]_vars PROVE QueueInv'
  OBVIOUS
<1>0. Shape
  BY DEF GateInv
<1>b. /\ \A i \in 1 .. Len(queue) : queue[i] = arrived[TakenSoFar + i]
      /\ \A i, j \in 1 .. Len(arrived) : arrived[i] = arrived[j] => i = j
  BY DEF QueueInv, QueueIsRest
<1>c. \A i \in 1 .. Len(arrived) : pc[arrived[i]] \in {"waiting", "ended", "gone"}
  BY DEF QueueInv, QueueIsRest
<1>d. /\ taken # NoClient => TakenSoFar > 0 /\ taken = arrived[TakenSoFar]
      /\ \A i \in 1 .. TakenSoFar :
           taken = NoClient \/ i < TakenSoFar => result[arrived[i]] # "none"
  BY DEF QueueInv, SettledBefore
<1>e. /\ \A j \in TakenSoFar + 1 .. Len(arrived) : ~Begun(arrived[j])
      /\ \A c \in Client : pc[c] \in {"new", "queueing"} => ~Begun(c)
  BY DEF QueueInv, SettledBefore
<1> USE DEF Begun
<1>a. /\ Len(queue) \in Nat /\ Len(arrived) \in Nat /\ TakenSoFar \in Nat
      /\ \A i \in 1 .. Len(arrived) : arrived[i] \in Client
      /\ TakenSoFar + Len(queue) = Len(arrived)
  BY <1>0 DEF Shape, TakenSoFar, QueueInv, QueueIsRest
<1>1. CASE Startup \/ UNCHANGED vars
  <2>1. UNCHANGED <<queue, arrived, taken, pc, result, effect>>
    BY <1>1 DEF Startup, EndStartup, CompleteDeferred, vars, gate
  <2>2. TakenSoFar' = TakenSoFar
    BY <2>1 DEF TakenSoFar
  <2> QED
    BY <2>1, <2>2 DEF QueueInv, QueueIsRest, SettledBefore
<1>2. CASE WorkerTake
  <2>1. /\ queue # <<>> /\ taken = NoClient /\ taken' = queue[1]
        /\ queue' = Tail(queue) /\ UNCHANGED <<pc, result, arrived, effect>>
    BY <1>0, <1>2 DEF WorkerTake, Shape
  <2>2. /\ Len(queue') = Len(queue) - 1 /\ Len(queue) > 0
        /\ \A i \in 1 .. Len(queue') : queue'[i] = queue[i + 1]
    BY <1>0, <2>1 DEF Shape
  <2>3. TakenSoFar' = TakenSoFar + 1
    BY <1>a, <2>1, <2>2 DEF TakenSoFar
  <2>4. QueueIsRest'
    <3>1. ASSUME NEW i \in 1 .. Len(queue') PROVE queue'[i] = arrived[TakenSoFar' + i]
      <4>1. i + 1 \in 1 .. Len(queue) /\ TakenSoFar + (i + 1) = TakenSoFar' + i
        BY <1>a, <2>2, <2>3
      <4> QED
        BY <1>b, <2>2, <4>1
    <3>2. TakenSoFar' \in Nat
      BY <1>a, <2>3
    <3> QED
      BY <1>b, <1>c, <2>1, <3>1, <3>2 DEF QueueIsRest
  <2>5. taken' = arrived[TakenSoFar + 1]
    BY <1>a, <1>b, <2>1, <2>2
  <2>6. \A i \in 1 .. TakenSoFar : result[arrived[i]] # "none"
    BY <1>d, <2>1
  <2>7. SettledBefore'
    <3>1. \A i \in 1 .. TakenSoFar' : i < TakenSoFar' => i \in 1 .. TakenSoFar
      BY <1>a, <2>3
    <3>2. \A j \in TakenSoFar' + 1 .. Len(arrived') : j \in TakenSoFar + 1 .. Len(arrived)
      BY <1>a, <2>1, <2>3
    <3>3. taken' \in Client
      BY <1>a, <2>1, <2>2, <2>5
    <3>4. TakenSoFar' > 0
      BY <1>a, <2>3
    <3> QED
      BY <1>e, <2>1, <2>3, <2>5, <2>6, <3>1, <3>2, <3>3, <3>4, ClientAssumption DEF SettledBefore
  <2> QED
    BY <2>4, <2>7 DEF QueueInv
<1>3. CASE WorkerRun
  <2>1. /\ taken \in Client /\ taken' = NoClient /\ UNCHANGED <<queue, arrived, effect>>
        /\ \E r \in {"refused", "ok", "failed"} : result' = [result EXCEPT ![taken] = r]
        /\ pc' = [pc EXCEPT ![taken] = IF @ = "waiting" THEN "ended" ELSE @]
    BY <1>0, <1>3 DEF WorkerRun, Shape, Ended
  <2>2. taken = arrived[TakenSoFar] /\ TakenSoFar > 0
    BY <1>3, <1>d DEF WorkerRun
  <2>3. TakenSoFar' = TakenSoFar
    BY <2>1 DEF TakenSoFar
  <2>4. QueueIsRest'
    BY <1>0, <1>a, <1>b, <1>c, <2>1, <2>3 DEF Shape, QueueIsRest
  <2>5. \A i \in 1 .. TakenSoFar : result'[arrived[i]] # "none"
    <3>1. ASSUME NEW i \in 1 .. TakenSoFar PROVE result'[arrived[i]] # "none"
      <4>1. arrived[i] \in Client
        BY <1>a
      <4>2. i = TakenSoFar \/ i < TakenSoFar
        BY <1>a
      <4>3. taken = arrived[i] \/ result[arrived[i]] # "none"
        BY <1>d, <2>2, <4>2
      <4> QED
        BY <1>0, <2>1, <4>1, <4>3 DEF Shape
    <3> QED
      BY <3>1
  <2>6. \A c \in Client : pc'[c] \in {"new", "queueing"} => pc[c] \in {"new", "queueing"}
    BY <1>0, <2>1 DEF Shape
  <2>7. SettledBefore'
    BY <1>e, <2>1, <2>3, <2>5, <2>6 DEF SettledBefore
  <2> QED
    BY <2>4, <2>7 DEF QueueInv
<1>4. ASSUME NEW c \in Client, ReadReadiness(c) \/ RunDirectly(c) \/ Interrupt(c)
      PROVE QueueInv'
  <2>1. /\ UNCHANGED <<queue, arrived, taken, effect>>
        /\ \A d \in Client : d # c => pc'[d] = pc[d]
        /\ \A d \in Client : result[d] # "none" => result'[d] # "none"
    BY <1>0, <1>4 DEF ReadReadiness, RunDirectly, Interrupt, Shape, Ended
  <2>2. pc[c] = "new" \/ pc'[c] \in {"ended", "gone"}
    BY <1>0, <1>4 DEF ReadReadiness, RunDirectly, Interrupt, Shape
  <2>3. TakenSoFar' = TakenSoFar
    BY <2>1 DEF TakenSoFar
  <2>4. \A i \in 1 .. Len(arrived) : pc'[arrived[i]] \in {"waiting", "ended", "gone"}
    BY <1>a, <1>c, <2>1, <2>2
  <2>5. QueueIsRest'
    BY <1>a, <1>b, <2>1, <2>3, <2>4 DEF QueueIsRest
  <2>6. \A d \in Client : pc'[d] \in {"new", "queueing"} => ~Begun(d)
    BY <1>e, <2>1, <2>2
  <2>7. \A i \in 1 .. TakenSoFar : arrived[i] \in Client
    BY <1>a
  <2>8. SettledBefore'
    BY <1>d, <1>e, <2>1, <2>3, <2>6, <2>7 DEF SettledBefore
  <2> QED
    BY <2>5, <2>8 DEF QueueInv
<1>5. ASSUME NEW c \in Client, Offer(c) PROVE QueueInv'
  <2>1. /\ pc[c] = "queueing" /\ pc' = [pc EXCEPT ![c] = "waiting"]
        /\ queue' = Append(queue, c) /\ arrived' = Append(arrived, c)
        /\ UNCHANGED <<taken, result, effect>>
    BY <1>5 DEF Offer
  <2>2. /\ Len(queue') = Len(queue) + 1 /\ Len(arrived') = Len(arrived) + 1
        /\ \A i \in 1 .. Len(queue) : queue'[i] = queue[i]
        /\ \A i \in 1 .. Len(arrived) : arrived'[i] = arrived[i]
        /\ queue'[Len(queue) + 1] = c /\ arrived'[Len(arrived) + 1] = c
    BY <1>0, <2>1 DEF Shape
  <2>3. TakenSoFar' = TakenSoFar
    BY <1>a, <2>2 DEF TakenSoFar
  <2>4. QueueIsRest'
    <3>1. \A i \in 1 .. Len(queue') : queue'[i] = arrived'[TakenSoFar + i]
      <4>1. \A i \in 1 .. Len(queue) : TakenSoFar + i \in 1 .. Len(arrived)
        BY <1>a
      <4>2. ASSUME NEW i \in 1 .. Len(queue') PROVE queue'[i] = arrived'[TakenSoFar + i]
        <5>1. CASE i \in 1 .. Len(queue)
          BY <1>b, <2>2, <4>1, <5>1
        <5>2. CASE i = Len(queue) + 1
          BY <1>a, <2>2, <5>2
        <5> QED
          BY <1>a, <2>2, <5>1, <5>2
      <4> QED
        BY <4>2
    <3>2. \A i \in 1 .. Len(arrived) : arrived[i] # c
      BY <1>c, <2>1
    <3>3. \A i, j \in 1 .. Len(arrived') : arrived'[i] = arrived'[j] => i = j
      BY <1>a, <1>b, <2>2, <3>2
    <3>4. \A i \in 1 .. Len(arrived') : pc'[arrived'[i]] \in {"waiting", "ended", "gone"}
      BY <1>0, <1>a, <1>c, <2>1, <2>2 DEF Shape
    <3> QED
      BY <1>a, <2>3, <3>1, <3>3, <3>4 DEF QueueIsRest
  <2>5. SettledBefore'
    <3>1. \A d \in Client : pc'[d] \in {"new", "queueing"} => ~Begun(d)
      BY <1>0, <1>e, <2>1 DEF Shape
    <3>2. \A j \in TakenSoFar + 1 .. Len(arrived') : ~Begun(arrived'[j])
      BY <1>a, <1>e, <2>1, <2>2
    <3>3. \A i \in 1 .. TakenSoFar : arrived'[i] = arrived[i]
      BY <1>a, <2>2
    <3>4. taken # NoClient => arrived'[TakenSoFar] = taken
      BY <1>a, <1>d, <3>3
    <3> QED
      BY <1>d, <2>1, <2>3, <3>1, <3>2, <3>3, <3>4 DEF SettledBefore
  <2> QED
    BY <2>4, <2>5 DEF QueueInv
<1>6. ASSUME NEW c \in Client, Effect(c) PROVE QueueInv'
  <2>1. /\ UNCHANGED gate /\ Runs(c)
        /\ \A d \in Client : d # c => effect'[d] = effect[d]
    BY <1>0, <1>6 DEF Effect, Begin, CreateThread, PrepareWorktree, UpdateThread, RunSetup,
                      StartTurn, MoveThread, DeleteThread, CleanUp, At, Go, Fail, Shape
  <2>2. pc[c] = "running" \/ taken = c
    BY <2>1 DEF Runs
  <2>3. \A j \in TakenSoFar + 1 .. Len(arrived) : arrived[j] # c
    BY <1>a, <1>b, <1>c, <1>d, <2>2, ClientAssumption
  <2>4. pc[c] \notin {"new", "queueing"}
    BY <1>a, <1>c, <1>d, <2>2, ClientAssumption
  <2>5. TakenSoFar' = TakenSoFar
    BY <2>1 DEF TakenSoFar, gate
  <2>6. QueueIsRest'
    BY <1>a, <1>b, <1>c, <2>1, <2>5 DEF gate, QueueIsRest
  <2>7. SettledBefore'
    BY <1>a, <1>d, <1>e, <2>1, <2>3, <2>4, <2>5 DEF gate, SettledBefore
  <2> QED
    BY <2>6, <2>7 DEF QueueInv
<1> QED
  BY <1>1, <1>2, <1>3, <1>4, <1>5, <1>6 DEF Next, GateStep, Worker, Caller

(* Commands that waited run one at a time and in the order they came         *)
(* (serverRuntimeStartup.ts:81-89, 112-122).                                        *)
THEOREM QueueKeepsOrder == Spec => []QueuedInOrder
<1>1. GateInv /\ QueueInv => QueuedInOrder
  BY DEF GateInv, Shape, QueueInv, QueueIsRest, SettledBefore, TakenSoFar, QueuedInOrder
<1> QED
  BY <1>1, GateInitially, GateInductive, QueueInitially, QueueInductive, PTL DEF Spec
=============================================================================
