------------------------ MODULE TurnCheckpoints_proofs ------------------------
(***************************************************************************)
(* Theorems about a thread's checkpoints, for any number of turns, edits    *)
(* and reverts and whatever external calls fail.                            *)
(***************************************************************************)
EXTENDS TurnCheckpoints, FiniteSetTheorems, SequenceTheorems,
        WellFoundedInduction, TLAPS

(* The queues.  An event of a placeholder names a turn and its count.         *)
RuntimeEvent == [type : {"started", "completed", "diff"}, turn : Turn,
                 status : {"ready", "missing"}]
DomainEvent ==
    [type : {"turn-start", "revert", "diff-completed-ready"},
     turn : {NoTurn} \cup Turn, count : Nat]
    \cup [type : {"diff-completed-missing"}, turn : Turn, count : Nat \ {0}]

QueueInv ==
    /\ toIngest \in Seq(RuntimeEvent) /\ runtimeSub \in Seq(RuntimeEvent)
    /\ domainSub \in Seq(DomainEvent)

(* The reactor's worker.  It captures only a turn that has no capture; what it *)
(* reports has its ref; a revert deletes only refs beyond its count, which it   *)
(* then takes from the read model or gives up as lost.                         *)
JobInv ==
    /\ job.step \in {"capture", "report"} =>
         /\ job.turn \in Turn /\ ~Captured(job.turn)
         /\ job.cp.status \in {"missing", "ready"} /\ job.cp.count # 0
    /\ job.step = "report" => job.cp.count \in DOMAIN refs
    /\ job.step \in {"rollback", "delete", "complete"} => \A c \in job.stale : c > job.count
    /\ job.step = "complete" =>
         \A t \in Turn : memory[t].git /\ memory[t].count \notin DOMAIN refs =>
                           memory[t].count \in lost \cup job.stale

CheckpointInv == TypeOK /\ QueueInv /\ JobInv /\ RefsBackCheckpoints /\ PlaceholderIsDue

-----------------------------------------------------------------------------
(* The library.                                                               *)

(* A finite set of numbers has a greatest: a least subset without one would    *)
(* have one less its element.                                                  *)
LEMMA FiniteMax ==
    ASSUME NEW S \in SUBSET Nat, IsFiniteSet(S), S # {}
    PROVE  \E m \in S : \A x \in S : m >= x
<1> DEFINE Bad == {U \in SUBSET S : U # {} /\ ~ \E m \in U : \A x \in U : m >= x}
           R == StrictSubsetOrdering(S)
<1>1. SUFFICES ASSUME Bad # {} PROVE FALSE
  OBVIOUS
<1>2. IsWellFoundedOn(R, SUBSET S)
  BY FS_StrictSubsetOrderingWellFounded, FS_FiniteSubsetsOfFinite
<1>3. PICK U \in Bad : \A V \in Bad : ~(<<V, U>> \in R)
  <2>1. Bad \subseteq SUBSET S
    OBVIOUS
  <2> HIDE DEF R, Bad
  <2> QED
    BY <1>1, <1>2, <2>1, WFMin, Zenon
<1>4. PICK u \in U : TRUE
  OBVIOUS
<1>5. U \ {u} \in SUBSET S /\ <<U \ {u}, U>> \in R
  BY <1>4 DEF StrictSubsetOrdering
<1>6. U \ {u} \notin Bad
  BY <1>3, <1>5
<1>7. CASE U \ {u} = {}
  <2>1. \A x \in U : x = u
    BY <1>7
  <2> QED
    BY <1>4, <2>1
<1>8. CASE U \ {u} # {}
  <2>1. PICK m \in U \ {u} : \A x \in U \ {u} : m >= x
    BY <1>5, <1>6, <1>8
  <2>2. m \in Nat /\ u \in Nat /\ \A x \in U : x \in Nat
    BY <1>4, <2>1
  <2>3. CASE m >= u
    BY <2>1, <2>2, <2>3
  <2>4. CASE ~(m >= u)
    BY <2>1, <2>2, <2>4
  <2> QED
    BY <2>3, <2>4
<1> QED
  BY <1>7, <1>8

(* The head and the tail of a queue.                                           *)
LEMMA QueueTail ==
    ASSUME NEW S, NEW q \in Seq(S), q # <<>>
    PROVE  /\ Head(q) \in S /\ Tail(q) \in Seq(S)
           /\ Len(q) \in Nat \ {0} /\ Len(Tail(q)) = Len(q) - 1 /\ Head(q) = q[1]
           /\ \A i \in 1 .. Len(q) - 1 : Tail(q)[i] = q[i + 1]
<1>1. Len(q) \in Nat \ {0}
  BY EmptySeq, LenProperties
<1>2. /\ Head(q) \in S /\ Tail(q) \in Seq(S) /\ Len(Tail(q)) = Len(q) - 1
      /\ \A i \in 1 .. Len(Tail(q)) : Tail(q)[i] = q[i + 1]
  BY HeadTailProperties
<1> QED
  BY <1>1, <1>2

(* A placeholder's event waits for the reactor.                                *)
Waits(q, t) ==
    \E i \in 1 .. Len(q) : q[i].type = "diff-completed-missing" /\ q[i].turn = t

(* It waits on when another event comes, ...                                   *)
LEMMA WaitsAppend ==
    ASSUME NEW q \in Seq(DomainEvent), NEW e \in DomainEvent
    PROVE  /\ Append(q, e) \in Seq(DomainEvent)
           /\ \A t : Waits(q, t) => Waits(Append(q, e), t)
           /\ e.type = "diff-completed-missing" => Waits(Append(q, e), e.turn)
<1> DEFINE a == Append(q, e)
<1>1. /\ a \in Seq(DomainEvent) /\ Len(a) = Len(q) + 1 /\ a[Len(q) + 1] = e
      /\ \A i \in 1 .. Len(q) : a[i] = q[i]
  BY AppendProperties
<1>2. Len(q) \in Nat
  BY LenProperties
<1>3. 1 .. Len(q) \subseteq 1 .. Len(a) /\ Len(q) + 1 \in 1 .. Len(a)
  BY <1>1, <1>2
<1> HIDE DEF a
<1>4. ASSUME NEW t, Waits(q, t) PROVE Waits(a, t)
  <2>1. PICK i \in 1 .. Len(q) : q[i].type = "diff-completed-missing" /\ q[i].turn = t
    BY <1>4 DEF Waits
  <2> QED
    BY <1>1, <1>3, <2>1 DEF Waits
<1>5. e.type = "diff-completed-missing" => Waits(a, e.turn)
  BY <1>1, <1>3 DEF Waits
<1> QED
  BY <1>1, <1>4, <1>5 DEF a

(* ... until it is the one taken.                                              *)
LEMMA WaitsTail ==
    ASSUME NEW q \in Seq(DomainEvent), q # <<>>, NEW t, Waits(q, t)
    PROVE  Waits(Tail(q), t)
           \/ (Head(q).type = "diff-completed-missing" /\ Head(q).turn = t)
<1>1. PICK i \in 1 .. Len(q) : q[i].type = "diff-completed-missing" /\ q[i].turn = t
  BY DEF Waits
<1>2. /\ Len(q) \in Nat \ {0} /\ Len(Tail(q)) = Len(q) - 1 /\ Head(q) = q[1]
      /\ \A j \in 1 .. Len(q) - 1 : Tail(q)[j] = q[j + 1]
  BY QueueTail
<1>3. CASE i = 1
  BY <1>1, <1>2, <1>3
<1>4. CASE i # 1
  <2>1. i - 1 \in 1 .. Len(q) - 1 /\ (i - 1) + 1 = i
    BY <1>2, <1>4
  <2>2. Tail(q)[i - 1] = q[i]
    BY <1>2, <2>1
  <2> QED
    BY <1>1, <1>2, <2>1, <2>2 DEF Waits
<1> QED
  BY <1>3, <1>4

-----------------------------------------------------------------------------
(* The read model's highest turn count is a number.                           *)
LEMMA MaxCountIsNat == TypeOK => MaxCount \in Nat
<1> SUFFICES ASSUME TypeOK PROVE MaxCount \in Nat
  OBVIOUS
<1> DEFINE C == {memory[t].count : t \in Tracked}
           S == {0} \cup C
<1>1. \A t \in Turn : memory[t].count \in Nat
  BY DEF TypeOK, Checkpoint, NoCheckpoint
<1>2. C \subseteq Nat
  BY <1>1 DEF Tracked
<1>3. IsFiniteSet(C)
  <2>1. IsFiniteSet(Tracked)
    <3>1. Tracked \in SUBSET Turn
      BY DEF Tracked
    <3> QED
      BY <3>1, TurnAssumption, FS_Subset
  <2>2. \E f : f \in Surjection(Tracked, C)
    <3>1. [t \in Tracked |-> memory[t].count] \in Surjection(Tracked, C)
      BY DEF Surjection
    <3> QED
      BY <3>1
  <2> HIDE DEF C
  <2> QED
    BY <2>1, <2>2, FS_Surjection
<1>4. IsFiniteSet(S)
  <2> HIDE DEF C
  <2>1. IsFiniteSet(C \cup {0})
    BY <1>3, FS_AddElement
  <2>2. S = C \cup {0}
    OBVIOUS
  <2> QED
    BY <2>1, <2>2
<1>5. S \in SUBSET Nat /\ S # {}
  BY <1>2
<1>6. MaxCount = Max(S)
  BY DEF MaxCount
<1> HIDE DEF S
<1>7. \E m \in S : \A x \in S : m >= x
  BY <1>4, <1>5, FiniteMax
<1>8. Max(S) \in S
  BY <1>7 DEF Max
<1> QED
  BY <1>5, <1>6, <1>8

(* A count the reactor or the ingestion gives a turn is one of a checkpoint.   *)
LEMMA CountsFromOne ==
    ASSUME TypeOK
    PROVE  MaxCount + 1 \in Nat \ {0} /\ \A t \in Turn : CountFor(t) \in Nat \ {0}
<1>1. MaxCount \in Nat
  BY MaxCountIsNat
<1>2. \A t \in Tracked : memory[t].count \in Nat \ {0}
  BY DEF TypeOK, Checkpoint, NoCheckpoint, Tracked
<1> HIDE DEF MaxCount
<1> QED
  BY <1>1, <1>2 DEF CountFor

-----------------------------------------------------------------------------
(* Why a placeholder of turn t is due, given what the worker does.            *)
Due(fs, j, q, t) ==
    \/ t \in fs
    \/ j.step \in {"capture", "report"} /\ j.turn = t
    \/ Waits(q, t)

LEMMA WasDue ==
    ASSUME CheckpointInv, NEW t \in Turn, memory[t].status = "missing"
    PROVE  Due(failed, job, domainSub, t)
<1>1. DOMAIN domainSub = 1 .. Len(domainSub)
  BY LenProperties DEF CheckpointInv, QueueInv
<1> QED
  BY <1>1 DEF CheckpointInv, PlaceholderIsDue, Due, Waits

LEMMA StillDue ==
    ASSUME domainSub' \in Seq(DomainEvent),
           \A t \in Turn : memory'[t].status = "missing" => Due(failed', job', domainSub', t)
    PROVE  PlaceholderIsDue'
<1>1. DOMAIN domainSub' = 1 .. Len(domainSub')
  BY LenProperties
<1> QED
  BY <1>1 DEF PlaceholderIsDue, Due, Waits

(* A step of the provider, the user or the ingestion's lifecycle handler leaves *)
(* the checkpoints and the worker alone and takes no event from the reactor.    *)
LEMMA OthersKeepInv ==
    ASSUME CheckpointInv, UNCHANGED <<memory, refs, job, failed, lost>>,
           TypeOK', QueueInv', \A t : Waits(domainSub, t) => Waits(domainSub', t)
    PROVE  CheckpointInv'
<1>1. JobInv' /\ RefsBackCheckpoints'
  BY DEF CheckpointInv, JobInv, RefsBackCheckpoints, Captured, Real
<1>2. PlaceholderIsDue'
  <2>1. ASSUME NEW t \in Turn, memory'[t].status = "missing"
        PROVE  Due(failed', job', domainSub', t)
    BY <2>1, WasDue DEF Due
  <2> QED
    BY <2>1, StillDue DEF QueueInv
<1> QED
  BY <1>1, <1>2 DEF CheckpointInv

-----------------------------------------------------------------------------
(* The start, and the steps outside the reactor.                              *)
LEMMA CheckpointStarts == Init => CheckpointInv
<1> SUFFICES ASSUME Init PROVE CheckpointInv
  OBVIOUS
<1> USE DEF Init, NoTurn, NoCheckpoint, NoPlaceholder, Idle, Job
<1>1. TypeOK
  BY BoundAssumption DEF TypeOK, Checkpoint
<1>2. QueueInv
  BY EmptySeq DEF QueueInv
<1>3. JobInv /\ RefsBackCheckpoints /\ PlaceholderIsDue
  BY DEF JobInv, RefsBackCheckpoints, PlaceholderIsDue
<1> QED
  BY <1>1, <1>2, <1>3 DEF CheckpointInv

LEMMA EmitTypes ==
    ASSUME QueueInv, NEW type \in {"started", "completed", "diff"}, NEW t \in Turn,
           NEW status \in {"ready", "missing"}, Emit(type, t, status)
    PROVE  toIngest' \in Seq(RuntimeEvent) /\ runtimeSub' \in Seq(RuntimeEvent)
<1> DEFINE e == [type |-> type, turn |-> t, status |-> status]
<1>1. e \in RuntimeEvent
  BY DEF RuntimeEvent
<1>2. toIngest' = Append(toIngest, e) /\ runtimeSub' \in {runtimeSub, Append(runtimeSub, e)}
  BY DEF Emit
<1> HIDE DEF e
<1> QED
  BY <1>1, <1>2, AppendProperties DEF QueueInv

LEMMA StartTurnKeeps ==
    ASSUME CheckpointInv, NEW t \in Turn, StartTurn(t)
    PROVE  CheckpointInv'
<1> DEFINE e == [type |-> "turn-start", turn |-> t, count |-> 0]
<1>1. e \in DomainEvent /\ domainSub' = Append(domainSub, e)
  BY DEF DomainEvent, StartTurn
<1>2. domainSub' \in Seq(DomainEvent) /\ \A u : Waits(domainSub, u) => Waits(domainSub', u)
  <2> HIDE DEF e
  <2> QED
    BY <1>1, WaitsAppend DEF CheckpointInv, QueueInv
<1>3. QueueInv'
  BY <1>2, EmitTypes DEF StartTurn, CheckpointInv, QueueInv
<1>4. TypeOK'
  BY TurnAssumption, BoundAssumption DEF StartTurn, CheckpointInv, TypeOK, engine, NoTurn
<1> QED
  BY <1>2, <1>3, <1>4, OthersKeepInv DEF StartTurn, engine

LEMMA EditKeeps == CheckpointInv /\ Edit => CheckpointInv'
<1> SUFFICES ASSUME CheckpointInv, Edit PROVE CheckpointInv'
  OBVIOUS
<1>1. provider.turn \in Turn
  BY DEF CheckpointInv, TypeOK, Edit
<1>2. QueueInv'
  <2>1. CASE Emit("diff", provider.turn, "ready")
    BY <1>1, <2>1, EmitTypes DEF Edit, CheckpointInv, QueueInv
  <2>2. CASE UNCHANGED <<toIngest, runtimeSub>>
    BY <2>2 DEF Edit, CheckpointInv, QueueInv
  <2> QED
    BY <2>1, <2>2 DEF Edit
<1>3. TypeOK'
  BY BoundAssumption DEF Edit, CheckpointInv, TypeOK, engine
<1> QED
  BY <1>2, <1>3, OthersKeepInv DEF Edit, engine

LEMMA EndTurnKeeps == CheckpointInv /\ EndTurn => CheckpointInv'
<1> SUFFICES ASSUME CheckpointInv, EndTurn PROVE CheckpointInv'
  OBVIOUS
<1>1. provider.turn \in Turn
  BY DEF CheckpointInv, TypeOK, EndTurn
<1>2. QueueInv'
  <2>1. PICK status \in {"ready", "missing"} : Emit("completed", provider.turn, status)
    BY DEF EndTurn
  <2> QED
    BY <1>1, <2>1, EmitTypes DEF EndTurn, CheckpointInv, QueueInv
<1>3. TypeOK'
  BY DEF EndTurn, CheckpointInv, TypeOK, engine
<1> QED
  BY <1>2, <1>3, OthersKeepInv DEF EndTurn, engine

LEMMA RequestRevertKeeps ==
    ASSUME CheckpointInv, NEW n \in Asked, RequestRevert(n)
    PROVE  CheckpointInv'
<1> DEFINE e == [type |-> "revert", turn |-> NoTurn, count |-> n]
<1>1. n \in Nat
  BY FS_CardinalityType, TurnAssumption DEF Asked
<1>2. e \in DomainEvent /\ domainSub' = Append(domainSub, e)
  BY <1>1 DEF DomainEvent, RequestRevert
<1>3. domainSub' \in Seq(DomainEvent) /\ \A u : Waits(domainSub, u) => Waits(domainSub', u)
  <2> HIDE DEF e
  <2> QED
    BY <1>2, WaitsAppend DEF CheckpointInv, QueueInv
<1>4. QueueInv'
  BY <1>3 DEF RequestRevert, CheckpointInv, QueueInv
<1>5. TypeOK'
  BY BoundAssumption DEF RequestRevert, CheckpointInv, TypeOK, engine, world
<1> QED
  BY <1>3, <1>4, <1>5, OthersKeepInv DEF RequestRevert, engine

LEMMA IngestLifecycleKeeps == CheckpointInv /\ IngestLifecycle => CheckpointInv'
<1> SUFFICES ASSUME CheckpointInv, IngestLifecycle PROVE CheckpointInv'
  OBVIOUS
<1>1. Head(toIngest) \in RuntimeEvent /\ Tail(toIngest) \in Seq(RuntimeEvent)
  BY QueueTail DEF IngestLifecycle, Ingesting, CheckpointInv, QueueInv
<1>2. QueueInv'
  BY <1>1 DEF IngestLifecycle, CheckpointInv, QueueInv
<1>3. TypeOK'
  BY <1>1 DEF IngestLifecycle, CheckpointInv, TypeOK, world, RuntimeEvent
<1> QED
  BY <1>2, <1>3, OthersKeepInv DEF IngestLifecycle

LEMMA IngestDiffKeeps == CheckpointInv /\ IngestDiff => CheckpointInv'
<1> SUFFICES ASSUME CheckpointInv, IngestDiff PROVE CheckpointInv'
  OBVIOUS
<1>1. Head(toIngest) \in RuntimeEvent /\ Tail(toIngest) \in Seq(RuntimeEvent)
  BY QueueTail DEF IngestDiff, Ingesting, CheckpointInv, QueueInv
<1>2. QueueInv'
  BY <1>1 DEF IngestDiff, CheckpointInv, QueueInv
<1>3. TypeOK'
  <2>1. MaxCount + 1 \in Nat \ {0}
    BY CountsFromOne DEF CheckpointInv
  <2> HIDE DEF MaxCount
  <2> QED
    BY <1>1, <2>1 DEF IngestDiff, CheckpointInv, TypeOK, world, engine, RuntimeEvent
<1> QED
  BY <1>2, <1>3, OthersKeepInv DEF IngestDiff, engine

-----------------------------------------------------------------------------
(* thread.turn.diff.complete.                                                 *)

(* The turn's checkpoint becomes the new one, or a placeholder leaves the      *)
(* captured one; a placeholder's event goes to the reactor.                    *)
LEMMA DiffCompleteStep ==
    ASSUME CheckpointInv, NEW t \in Turn, NEW cp \in Checkpoint, cp.status # "none",
           DiffComplete(t, cp)
    PROVE  /\ memory' \in [Turn -> Checkpoint] /\ table' \in [Turn -> Checkpoint]
           /\ domainSub' \in Seq(DomainEvent)
           /\ \A u : Waits(domainSub, u) => Waits(domainSub', u)
           /\ cp.status = "missing" => Waits(domainSub', t)
           /\ \A u \in Turn : memory'[u] = memory[u] \/ (u = t /\ memory'[u] = cp)
           /\ cp.status = "missing" /\ Captured(t) => memory' = memory
<1> USE DEF CheckpointInv, TypeOK, DiffComplete, Checkpoint, NoCheckpoint
<1>1. memory' \in [Turn -> Checkpoint]
  BY DEF Keep
<1>2. table' \in [Turn -> Checkpoint]
  BY DEF Write
<1>3. \A u \in Turn : memory'[u] = memory[u] \/ (u = t /\ memory'[u] = cp)
  BY DEF Keep
<1>4. cp.status = "missing" /\ Captured(t) => memory' = memory
  BY DEF Keep, Captured
<1> DEFINE e == [type |-> DiffCompleted(cp.status), turn |-> t, count |-> cp.count]
<1>5. domainSub' = Append(domainSub, e)
  BY DEF DiffComplete
<1>6. e \in DomainEvent
  <2>1. cp.status \in {"missing", "ready"} /\ cp.count \in Nat \ {0}
    OBVIOUS
  <2>2. CASE cp.status = "missing"
    BY <2>1, <2>2 DEF DiffCompleted, DomainEvent
  <2>3. CASE cp.status = "ready"
    BY <2>1, <2>3 DEF DiffCompleted, DomainEvent
  <2> QED
    BY <2>1, <2>2, <2>3
<1>7. /\ e.turn = t
      /\ cp.status = "missing" => e.type = "diff-completed-missing"
  BY DEF DiffCompleted
<1>8. domainSub \in Seq(DomainEvent)
  BY DEF QueueInv
<1> HIDE DEF e
<1>9. /\ domainSub' \in Seq(DomainEvent)
      /\ \A u : Waits(domainSub, u) => Waits(domainSub', u)
      /\ cp.status = "missing" => Waits(domainSub', t)
  BY <1>5, <1>6, <1>7, <1>8, WaitsAppend
<1> QED
  BY <1>1, <1>2, <1>3, <1>4, <1>9

LEMMA DispatchPlaceholderKeeps == CheckpointInv /\ DispatchPlaceholder => CheckpointInv'
<1> SUFFICES ASSUME CheckpointInv, DispatchPlaceholder PROVE CheckpointInv'
  OBVIOUS
<1> DEFINE t == ingest.turn
           cp == [status |-> "missing", count |-> ingest.count, git |-> FALSE]
<1>1. t \in Turn /\ cp \in Checkpoint
  BY DEF DispatchPlaceholder, CheckpointInv, TypeOK, Checkpoint
<1>2. /\ cp.status = "missing" /\ ~cp.git /\ DiffComplete(t, cp)
      /\ ingest' = NoPlaceholder
      /\ UNCHANGED <<world, toIngest, runtimeSub, active, refs, job, failed, reverts, lost>>
  BY DEF DispatchPlaceholder
<1> HIDE DEF t, cp
<1>3. /\ memory' \in [Turn -> Checkpoint] /\ table' \in [Turn -> Checkpoint]
      /\ domainSub' \in Seq(DomainEvent)
      /\ \A u : Waits(domainSub, u) => Waits(domainSub', u)
      /\ Waits(domainSub', t)
      /\ \A u \in Turn : memory'[u] = memory[u] \/ (u = t /\ memory'[u] = cp)
  BY <1>1, <1>2, DiffCompleteStep
<1>4. TypeOK'
  BY <1>2, <1>3 DEF CheckpointInv, TypeOK, world
<1>5. QueueInv'
  BY <1>2, <1>3 DEF CheckpointInv, QueueInv
<1>6. JobInv'
  <2>1. \A u \in Turn : memory'[u].git => memory'[u] = memory[u]
    BY <1>2, <1>3
  <2>2. \A u \in Turn : ~Captured(u) => ~Captured(u)'
    BY <1>2, <1>3 DEF Captured, Real
  <2> QED
    BY <1>2, <2>1, <2>2 DEF CheckpointInv, JobInv
<1>7. RefsBackCheckpoints'
  BY <1>2, <1>3 DEF CheckpointInv, RefsBackCheckpoints
<1>8. PlaceholderIsDue'
  <2>1. ASSUME NEW u \in Turn, memory'[u].status = "missing"
        PROVE  Due(failed', job', domainSub', u)
    <3>1. CASE u = t
      BY <1>3, <3>1 DEF Due
    <3>2. CASE u # t
      BY <1>2, <1>3, <2>1, <3>2, WasDue DEF Due
    <3> QED
      BY <3>1, <3>2
  <2> QED
    BY <1>3, <2>1, StillDue
<1> QED
  BY <1>4, <1>5, <1>6, <1>7, <1>8 DEF CheckpointInv

-----------------------------------------------------------------------------
(* The reactor's worker.                                                      *)

(* What it takes from a subscription, and what then still waits.              *)
LEMMA TakenRuntime ==
    ASSUME CheckpointInv, NEW type, NextRuntime(type)
    PROVE  /\ Head(runtimeSub) \in RuntimeEvent /\ runtimeSub' \in Seq(RuntimeEvent)
           /\ domainSub' = domainSub
BY QueueTail DEF NextRuntime, CheckpointInv, QueueInv

LEMMA TakenDomain ==
    ASSUME CheckpointInv, NEW type, NextDomain(type)
    PROVE  /\ Head(domainSub) \in DomainEvent /\ domainSub' \in Seq(DomainEvent)
           /\ Head(domainSub).type = type /\ runtimeSub' = runtimeSub
           /\ \A t : Waits(domainSub, t) =>
                       \/ Waits(domainSub', t)
                       \/ type = "diff-completed-missing" /\ Head(domainSub).turn = t
BY QueueTail, WaitsTail DEF NextDomain, CheckpointInv, QueueInv

(* A step that changes no checkpoint, deletes no ref and leaves every          *)
(* placeholder due keeps what the refs and the placeholders promise.           *)
LEMMA WorkerKeepsInv ==
    ASSUME CheckpointInv, memory' = memory, DOMAIN refs \subseteq DOMAIN refs',
           job.step # "complete", lost' = lost \/ StillLost, TypeOK', QueueInv', JobInv',
           \A t \in Turn : memory[t].status = "missing" /\ Due(failed, job, domainSub, t)
                             => Due(failed', job', domainSub', t)
    PROVE  CheckpointInv'
<1>1. RefsBackCheckpoints'
  BY DEF CheckpointInv, RefsBackCheckpoints, StillLost
<1>2. PlaceholderIsDue'
  <2>1. ASSUME NEW t \in Turn, memory'[t].status = "missing"
        PROVE  Due(failed', job', domainSub', t)
    BY <2>1, WasDue
  <2> QED
    BY <2>1, StillDue DEF QueueInv
<1> QED
  BY <1>1, <1>2 DEF CheckpointInv

LEMMA TakeTurnStartKeeps == CheckpointInv /\ TakeTurnStart => CheckpointInv'
<1> SUFFICES ASSUME CheckpointInv, TakeTurnStart PROVE CheckpointInv'
  OBVIOUS
<1>1. /\ runtimeSub' \in Seq(RuntimeEvent) /\ domainSub' \in Seq(DomainEvent)
      /\ \A t : Waits(domainSub, t) => Waits(domainSub', t)
  <2>1. CASE NextRuntime("started")
    BY <2>1, TakenRuntime DEF CheckpointInv, QueueInv
  <2>2. CASE NextDomain("turn-start")
    BY <2>2, TakenDomain DEF CheckpointInv, QueueInv
  <2> QED
    BY <2>1, <2>2 DEF TakeTurnStart
<1>2. job = Idle
  BY DEF TakeTurnStart, NextRuntime, NextDomain, Resting
<1>3. MaxCount \in Nat
  BY MaxCountIsNat DEF CheckpointInv
<1> HIDE DEF MaxCount
<1>4. QueueInv'
  BY <1>1 DEF TakeTurnStart, CheckpointInv, QueueInv
<1>5. TypeOK' /\ JobInv'
  BY <1>3 DEF TakeTurnStart, CheckpointInv, TypeOK, JobInv, Job, world, engine
<1> QED
  BY <1>1, <1>2, <1>4, <1>5, WorkerKeepsInv DEF TakeTurnStart, engine, Due, Idle, Job

LEMMA RefIsCaptured ==
    ASSUME CheckpointInv, NEW n \in Nat
    PROVE  /\ DOMAIN CaptureRef(n) = DOMAIN refs \cup {n}
           /\ \A m \in DOMAIN CaptureRef(n) : m \in Nat /\ CaptureRef(n)[m] \in Nat
BY DEF CaptureRef, CheckpointInv, TypeOK

LEMMA CaptureBaselineKeeps == CheckpointInv /\ CaptureBaseline => CheckpointInv'
<1> SUFFICES ASSUME CheckpointInv, CaptureBaseline PROVE CheckpointInv'
  OBVIOUS
<1>1. job.cp.count \in Nat
  BY DEF CaptureBaseline, CheckpointInv, TypeOK
<1>2. /\ DOMAIN refs \subseteq DOMAIN refs'
      /\ \A m \in DOMAIN refs' : m \in Nat /\ refs'[m] \in Nat
  BY <1>1, RefIsCaptured DEF CaptureBaseline, CheckpointInv, TypeOK
<1>3. QueueInv'
  BY DEF CaptureBaseline, CheckpointInv, QueueInv
<1>4. TypeOK' /\ JobInv'
  BY <1>2 DEF CaptureBaseline, StillLost, CheckpointInv, TypeOK, JobInv, Job, Idle,
              NoCheckpoint, world, engine
<1> QED
  BY <1>2, <1>3, <1>4, WorkerKeepsInv DEF CaptureBaseline, engine, Due, Idle, Job

LEMMA TakeTurnCompletedKeeps == CheckpointInv /\ TakeTurnCompleted => CheckpointInv'
<1> SUFFICES ASSUME CheckpointInv, TakeTurnCompleted PROVE CheckpointInv'
  OBVIOUS
<1>1. /\ Head(runtimeSub) \in RuntimeEvent /\ runtimeSub' \in Seq(RuntimeEvent)
      /\ domainSub' = domainSub
  BY TakenRuntime DEF TakeTurnCompleted
<1>2. job = Idle
  BY DEF TakeTurnCompleted, NextRuntime, Resting
<1>3. CountFor(Head(runtimeSub).turn) \in Nat \ {0}
  BY <1>1, CountsFromOne DEF CheckpointInv, RuntimeEvent
<1>4. QueueInv'
  BY <1>1 DEF TakeTurnCompleted, CheckpointInv, QueueInv
<1>5. \/ job' = Idle
      \/ /\ ~Captured(Head(runtimeSub).turn)
         /\ job' = Job("capture", Head(runtimeSub).turn,
                       [status |-> Head(runtimeSub).status,
                        count |-> CountFor(Head(runtimeSub).turn), git |-> TRUE])
  BY DEF TakeTurnCompleted
<1> HIDE DEF CountFor
<1>6. TypeOK' /\ JobInv'
  BY <1>1, <1>3, <1>5 DEF TakeTurnCompleted, CheckpointInv, TypeOK, JobInv, Job, Idle,
              NoCheckpoint, RuntimeEvent, world, engine, Captured, Real
<1> QED
  BY <1>1, <1>2, <1>4, <1>6, WorkerKeepsInv DEF TakeTurnCompleted, engine, Due, Idle, Job

LEMMA TakePlaceholderKeeps == CheckpointInv /\ TakePlaceholder => CheckpointInv'
<1> SUFFICES ASSUME CheckpointInv, TakePlaceholder PROVE CheckpointInv'
  OBVIOUS
<1> DEFINE e == Head(domainSub)
<1>1. /\ e \in DomainEvent /\ domainSub' \in Seq(DomainEvent)
      /\ e.type = "diff-completed-missing" /\ runtimeSub' = runtimeSub
      /\ \A t : Waits(domainSub, t) => Waits(domainSub', t) \/ e.turn = t
  BY TakenDomain DEF TakePlaceholder
<1>2. e.turn \in Turn /\ e.count \in Nat \ {0}
  BY <1>1 DEF DomainEvent
<1>3. job = Idle
  BY DEF TakePlaceholder, NextDomain, Resting
<1>4. QueueInv'
  BY <1>1 DEF TakePlaceholder, CheckpointInv, QueueInv
<1>5. \/ Captured(e.turn) /\ job' = Idle
      \/ /\ ~Captured(e.turn)
         /\ job' = Job("capture", e.turn,
                       [status |-> "ready", count |-> e.count, git |-> TRUE])
  BY DEF TakePlaceholder
<1> HIDE DEF e
<1>6. TypeOK' /\ JobInv'
  BY <1>2, <1>5 DEF TakePlaceholder, CheckpointInv, TypeOK, JobInv, Job, Idle,
              NoCheckpoint, world, engine, Captured, Real
<1>7. ASSUME NEW t \in Turn, memory[t].status = "missing", Due(failed, job, domainSub, t)
      PROVE  Due(failed', job', domainSub', t)
  <2>1. t \in failed \/ Waits(domainSub, t)
    BY <1>3, <1>7 DEF Due, Idle, Job
  <2>2. failed' = failed
    BY DEF TakePlaceholder, engine
  <2>3. CASE e.turn = t
    <3>1. ~Captured(e.turn)
      BY <1>7, <2>3 DEF Captured, Real
    <3> QED
      BY <1>5, <2>3, <3>1 DEF Due, Job
  <2>4. CASE e.turn # t
    BY <1>1, <2>1, <2>2, <2>4 DEF Due
  <2> QED
    BY <2>3, <2>4
<1> QED
  BY <1>3, <1>4, <1>6, <1>7, WorkerKeepsInv DEF TakePlaceholder, engine, Idle, Job

LEMMA TakeOwnCaptureKeeps == CheckpointInv /\ TakeOwnCapture => CheckpointInv'
<1> SUFFICES ASSUME CheckpointInv, TakeOwnCapture PROVE CheckpointInv'
  OBVIOUS
<1>1. /\ domainSub' \in Seq(DomainEvent) /\ runtimeSub' = runtimeSub
      /\ \A t : Waits(domainSub, t) => Waits(domainSub', t)
  BY TakenDomain DEF TakeOwnCapture
<1>2. TypeOK' /\ QueueInv'
  BY <1>1 DEF TakeOwnCapture, CheckpointInv, TypeOK, QueueInv, world, engine
<1> QED
  BY <1>1, <1>2, OthersKeepInv DEF TakeOwnCapture, engine

LEMMA CaptureKeeps == CheckpointInv /\ Capture => CheckpointInv'
<1> SUFFICES ASSUME CheckpointInv, Capture PROVE CheckpointInv'
  OBVIOUS
<1>1. /\ job \in [step : {"capture"}, turn : Turn,
                  cp : [status : {"missing", "ready"}, count : Nat, git : BOOLEAN]]
      /\ job.cp.count # 0 /\ ~Captured(job.turn)
  BY DEF Capture, CheckpointInv, TypeOK, JobInv
<1>2. QueueInv'
  BY DEF Capture, CheckpointInv, QueueInv
<1>3. CASE refs' = CaptureRef(job.cp.count) /\ job' = [job EXCEPT !.step = "report"]
           /\ UNCHANGED failed
  <2>1. job' = [step |-> "report", turn |-> job.turn, cp |-> job.cp]
    BY <1>1, <1>3
  <2>2. /\ DOMAIN refs \subseteq DOMAIN refs' /\ job.cp.count \in DOMAIN refs'
        /\ \A m \in DOMAIN refs' : m \in Nat /\ refs'[m] \in Nat
    BY <1>1, <1>3, RefIsCaptured
  <2>3. TypeOK' /\ JobInv'
    BY <1>1, <1>3, <2>1, <2>2
       DEF Capture, StillLost, CheckpointInv, TypeOK, JobInv, world, Captured, Real
  <2>4. job.step # "complete" /\ StillLost /\ UNCHANGED <<memory, domainSub>>
    BY <1>1 DEF Capture
  <2> QED
    BY <1>2, <1>3, <2>1, <2>2, <2>3, <2>4, WorkerKeepsInv DEF Due
<1>4. CASE job' = Idle /\ failed' = failed \cup {job.turn} /\ UNCHANGED refs
  <2>1. TypeOK' /\ JobInv'
    BY <1>1, <1>4
       DEF Capture, StillLost, CheckpointInv, TypeOK, JobInv, world, Idle, Job, NoCheckpoint
  <2>2. job.step # "complete" /\ StillLost /\ UNCHANGED <<memory, domainSub>>
    BY <1>1 DEF Capture
  <2> QED
    BY <1>1, <1>2, <1>4, <2>1, <2>2, WorkerKeepsInv DEF Due
<1> QED
  BY <1>3, <1>4 DEF Capture

LEMMA ReportKeeps == CheckpointInv /\ Report => CheckpointInv'
<1> SUFFICES ASSUME CheckpointInv, Report PROVE CheckpointInv'
  OBVIOUS
<1> DEFINE t == job.turn
           cp == job.cp
<1>1. /\ t \in Turn /\ cp \in Checkpoint /\ cp.status # "none" /\ cp.count \in DOMAIN refs
      /\ ~Captured(t)
  BY DEF Report, CheckpointInv, TypeOK, JobInv, Checkpoint
<1>2. /\ DiffComplete(t, cp) /\ job.step = "report" /\ job.turn = t /\ job' = Idle
      /\ UNCHANGED <<world, toIngest, runtimeSub, active, refs, ingest, failed, reverts, lost>>
  BY DEF Report
<1> HIDE DEF t, cp
<1>3. /\ memory' \in [Turn -> Checkpoint] /\ table' \in [Turn -> Checkpoint]
      /\ domainSub' \in Seq(DomainEvent)
      /\ \A u : Waits(domainSub, u) => Waits(domainSub', u)
      /\ cp.status = "missing" => Waits(domainSub', t)
      /\ \A u \in Turn : memory'[u] = memory[u] \/ (u = t /\ memory'[u] = cp)
  BY <1>1, <1>2, DiffCompleteStep
<1>4. TypeOK'
  BY <1>2, <1>3 DEF CheckpointInv, TypeOK, world, Idle, Job, NoCheckpoint
<1>5. QueueInv'
  BY <1>2, <1>3 DEF CheckpointInv, QueueInv
<1>6. JobInv'
  BY <1>2 DEF JobInv, Idle, Job
<1>7. RefsBackCheckpoints'
  BY <1>1, <1>2, <1>3 DEF CheckpointInv, RefsBackCheckpoints
<1>8. PlaceholderIsDue'
  <2>1. ASSUME NEW u \in Turn, memory'[u].status = "missing"
        PROVE  Due(failed', job', domainSub', u)
    <3>1. CASE u = t
      <4>1. memory'[t] = cp
        BY <1>1, <1>2 DEF DiffComplete, Keep, Captured, CheckpointInv, TypeOK
      <4> QED
        BY <1>3, <2>1, <3>1, <4>1 DEF Due
    <3>2. CASE u # t
      BY <1>2, <1>3, <2>1, <3>2, WasDue DEF Due
    <3> QED
      BY <3>1, <3>2
  <2> QED
    BY <1>3, <2>1, StillDue
<1> QED
  BY <1>4, <1>5, <1>6, <1>7, <1>8 DEF CheckpointInv

LEMMA TakeRevertKeeps == CheckpointInv /\ TakeRevert => CheckpointInv'
<1> SUFFICES ASSUME CheckpointInv, TakeRevert PROVE CheckpointInv'
  OBVIOUS
<1> DEFINE n == Head(domainSub).count
           stale == {memory[t].count : t \in {u \in Tracked : memory[u].git /\
                                                memory[u].count > n}}
<1>1. /\ Head(domainSub) \in DomainEvent /\ domainSub' \in Seq(DomainEvent)
      /\ runtimeSub' = runtimeSub
      /\ \A t : Waits(domainSub, t) => Waits(domainSub', t)
  BY TakenDomain DEF TakeRevert
<1>2. n \in Nat
  BY <1>1 DEF DomainEvent
<1>3. job = Idle
  BY DEF TakeRevert, NextDomain, Resting
<1>4. \A t \in Turn : memory[t].count \in Nat
  BY DEF CheckpointInv, TypeOK, Checkpoint, NoCheckpoint
<1>5. stale \subseteq Nat /\ \A c \in stale : c > n
  BY <1>4 DEF Tracked
<1>6. \/ /\ content' = IF n \in DOMAIN refs THEN refs[n] ELSE 0
         /\ job' = [step |-> "rollback", count |-> n, stale |-> stale]
      \/ UNCHANGED <<content, job>>
  BY DEF TakeRevert
<1>7. UNCHANGED <<provider, toIngest, engine, refs, ingest, reverts, lost>>
  BY DEF TakeRevert
<1> HIDE DEF n, stale
<1>8. QueueInv'
  BY <1>1, <1>7 DEF CheckpointInv, QueueInv
<1>9. /\ content' \in Nat
      /\ job' = Idle \/ job' = [step |-> "rollback", count |-> n, stale |-> stale]
  BY <1>3, <1>6 DEF CheckpointInv, TypeOK
<1>10. TypeOK' /\ JobInv'
  <2>1. CASE job' = Idle
    BY <1>7, <1>9, <2>1 DEF CheckpointInv, TypeOK, JobInv, engine, Idle, Job, NoCheckpoint
  <2>2. CASE job' = [step |-> "rollback", count |-> n, stale |-> stale]
    <3>1. job' \in [step : {"rollback", "delete", "complete"}, count : Nat, stale : SUBSET Nat]
      BY <1>2, <1>5, <2>2
    <3>2. TypeOK'
      BY <1>7, <1>9, <3>1 DEF CheckpointInv, TypeOK, engine
    <3>3. JobInv'
      BY <1>5, <2>2 DEF JobInv
    <3> QED
      BY <3>2, <3>3
  <2> QED
    BY <1>9, <2>1, <2>2
<1>11. ASSUME NEW t \in Turn, Due(failed, job, domainSub, t)
       PROVE  Due(failed', job', domainSub', t)
  BY <1>1, <1>3, <1>7, <1>11 DEF Due, Idle, Job, engine
<1> QED
  BY <1>3, <1>7, <1>8, <1>10, <1>11, WorkerKeepsInv DEF Idle, Job, engine

(* A revert under way.                                                        *)
LEMMA Reverting ==
    ASSUME CheckpointInv, job.step \in {"rollback", "delete", "complete"}
    PROVE  /\ job \in [step : {"rollback", "delete", "complete"}, count : Nat,
                       stale : SUBSET Nat]
           /\ \A c \in job.stale : c > job.count
BY DEF CheckpointInv, TypeOK, JobInv

LEMMA RollbackKeeps == CheckpointInv /\ Rollback => CheckpointInv'
<1> SUFFICES ASSUME CheckpointInv, Rollback PROVE CheckpointInv'
  OBVIOUS
<1>1. /\ job \in [step : {"rollback", "delete", "complete"}, count : Nat, stale : SUBSET Nat]
      /\ \A c \in job.stale : c > job.count
  BY Reverting DEF Rollback
<1>2. \/ job' = [step |-> "delete", count |-> job.count, stale |-> job.stale]
      \/ job' = Idle
  BY <1>1 DEF Rollback
<1>3. QueueInv'
  BY DEF Rollback, CheckpointInv, QueueInv
<1>4. TypeOK' /\ JobInv'
  <2>1. CASE job' = [step |-> "delete", count |-> job.count, stale |-> job.stale]
    BY <1>1, <2>1 DEF Rollback, CheckpointInv, TypeOK, JobInv, world, engine
  <2>2. CASE job' = Idle
    BY <2>2 DEF Rollback, CheckpointInv, TypeOK, JobInv, Idle, Job, NoCheckpoint,
                world, engine
  <2> QED
    BY <1>2, <2>1, <2>2
<1> QED
  BY <1>3, <1>4, WorkerKeepsInv DEF Rollback, engine, Due

(* The deletion of refs leaves every placeholder due.                         *)
LEMMA StaleStepLeavesDue ==
    ASSUME CheckpointInv, job.step = "delete", QueueInv', UNCHANGED <<memory, failed, domainSub>>
    PROVE  PlaceholderIsDue'
<1>1. ASSUME NEW t \in Turn, memory'[t].status = "missing"
      PROVE  Due(failed', job', domainSub', t)
  BY <1>1, WasDue DEF Due
<1> QED
  BY <1>1, StillDue DEF QueueInv

LEMMA DeleteStaleKeeps == CheckpointInv /\ DeleteStale => CheckpointInv'
<1> SUFFICES ASSUME CheckpointInv, DeleteStale PROVE CheckpointInv'
  OBVIOUS
<1>1. /\ job \in [step : {"rollback", "delete", "complete"}, count : Nat, stale : SUBSET Nat]
      /\ \A c \in job.stale : c > job.count
  BY Reverting DEF DeleteStale
<1>2. PICK gone \in SUBSET job.stale :
        /\ DOMAIN refs' = DOMAIN refs \ gone
        /\ \A c \in DOMAIN refs' : refs'[c] = refs[c]
        /\ \/ /\ job' = [step |-> "complete", count |-> job.count, stale |-> job.stale]
              /\ UNCHANGED lost
           \/ job' = Idle /\ lost' = lost \cup gone
  BY <1>1 DEF DeleteStale, Delete
<1>3. UNCHANGED <<world, toIngest, runtimeSub, domainSub, engine, ingest, reverts>>
  BY DEF DeleteStale
<1>4. QueueInv'
  BY <1>3 DEF CheckpointInv, QueueInv
<1>5. ASSUME NEW t \in Turn, memory[t].git, memory[t].count \notin DOMAIN refs'
      PROVE  memory[t].count \in lost \cup gone
  BY <1>2, <1>5 DEF DeleteStale, CheckpointInv, RefsBackCheckpoints
<1>6. CASE /\ job' = [step |-> "complete", count |-> job.count, stale |-> job.stale]
           /\ UNCHANGED lost
  <2>1. TypeOK'
    BY <1>1, <1>2, <1>3, <1>6 DEF CheckpointInv, TypeOK, world, engine
  <2>2. JobInv'
    BY <1>1, <1>3, <1>5, <1>6 DEF JobInv, engine
  <2>3. RefsBackCheckpoints'
    BY <1>6 DEF RefsBackCheckpoints
  <2> QED
    BY <1>4, <2>1, <2>2, <2>3, StaleStepLeavesDue DEF CheckpointInv, DeleteStale, engine
<1>7. CASE job' = Idle /\ lost' = lost \cup gone
  <2>1. TypeOK'
    BY <1>1, <1>2, <1>3, <1>7 DEF CheckpointInv, TypeOK, world, engine, Idle, Job, NoCheckpoint
  <2>2. JobInv'
    BY <1>7 DEF JobInv, Idle, Job
  <2>3. RefsBackCheckpoints'
    BY <1>3, <1>5, <1>7 DEF RefsBackCheckpoints, engine
  <2> QED
    BY <1>4, <2>1, <2>2, <2>3, StaleStepLeavesDue DEF CheckpointInv, DeleteStale, engine
<1> QED
  BY <1>2, <1>6, <1>7

LEMMA CompleteRevertKeeps == CheckpointInv /\ CompleteRevert => CheckpointInv'
<1> SUFFICES ASSUME CheckpointInv, CompleteRevert PROVE CheckpointInv'
  OBVIOUS
<1>1. /\ job \in [step : {"rollback", "delete", "complete"}, count : Nat, stale : SUBSET Nat]
      /\ \A c \in job.stale : c > job.count
  BY Reverting DEF CompleteRevert
<1>2. /\ memory' \in [Turn -> Checkpoint] /\ table' \in [Turn -> Checkpoint]
      /\ lost \subseteq lost' /\ lost' \subseteq Nat
      /\ \A t \in Turn :
           \/ memory'[t] = NoCheckpoint
           \/ /\ memory'[t] = memory[t]
              /\ memory[t].count <= job.count \/ job.stale \ DOMAIN refs \subseteq lost'
  <2>1. CASE memory' = UpTo(job.count, memory) /\ table' = UpTo(job.count, table)
             /\ UNCHANGED lost
    BY <1>1, <2>1 DEF UpTo, CheckpointInv, TypeOK, Checkpoint
  <2>2. CASE lost' = lost \cup (job.stale \ DOMAIN refs) /\ UNCHANGED <<memory, table>>
    BY <1>1, <2>2 DEF CheckpointInv, TypeOK
  <2> QED
    BY <2>1, <2>2 DEF CompleteRevert
<1>3. TypeOK' /\ QueueInv'
  BY <1>2 DEF CompleteRevert, CheckpointInv, TypeOK, QueueInv, world, Idle, Job, NoCheckpoint
<1>4. JobInv'
  BY DEF CompleteRevert, JobInv, Idle, Job
<1>5. RefsBackCheckpoints'
  <2>1. ASSUME NEW t \in Turn, memory'[t].git, memory'[t].count \notin DOMAIN refs'
        PROVE  memory'[t].count \in lost'
    <3>1. /\ memory'[t] = memory[t] /\ memory[t].count \notin DOMAIN refs
          /\ memory[t].count \in lost \cup job.stale
      BY <1>2, <2>1 DEF CompleteRevert, CheckpointInv, JobInv, NoCheckpoint
    <3>2. CASE memory[t].count <= job.count
      <4>1. memory[t].count \in Nat
        BY DEF CheckpointInv, TypeOK, Checkpoint, NoCheckpoint
      <4>2. memory[t].count \notin job.stale
        BY <1>1, <3>2, <4>1
      <4> QED
        BY <1>2, <3>1, <4>2
    <3>3. CASE job.stale \ DOMAIN refs \subseteq lost'
      BY <1>2, <3>1, <3>3
    <3> QED
      BY <1>2, <2>1, <3>1, <3>2, <3>3 DEF NoCheckpoint
  <2> QED
    BY <2>1 DEF RefsBackCheckpoints
<1>6. PlaceholderIsDue'
  <2>1. ASSUME NEW t \in Turn, memory'[t].status = "missing"
        PROVE  Due(failed', job', domainSub', t)
    <3>1. memory[t].status = "missing"
      BY <1>2, <2>1 DEF NoCheckpoint
    <3> QED
      BY <3>1, WasDue DEF Due, CompleteRevert
  <2> QED
    BY <1>3, <2>1, StillDue DEF QueueInv
<1> QED
  BY <1>3, <1>4, <1>5, <1>6 DEF CheckpointInv

LEMMA CheckpointStutters == CheckpointInv /\ UNCHANGED vars => CheckpointInv'
<1> SUFFICES ASSUME CheckpointInv, UNCHANGED vars PROVE CheckpointInv'
  OBVIOUS
<1>1. TypeOK' /\ QueueInv'
  BY DEF vars, CheckpointInv, TypeOK, QueueInv
<1> QED
  BY <1>1, OthersKeepInv DEF vars

-----------------------------------------------------------------------------
LEMMA CheckpointStep == CheckpointInv /\ [Next]_vars => CheckpointInv'
BY StartTurnKeeps, EditKeeps, EndTurnKeeps, RequestRevertKeeps, IngestLifecycleKeeps,
   IngestDiffKeeps, DispatchPlaceholderKeeps, TakeTurnStartKeeps, CaptureBaselineKeeps,
   TakeTurnCompletedKeeps, TakePlaceholderKeeps, TakeOwnCaptureKeeps, CaptureKeeps,
   ReportKeeps, TakeRevertKeeps, RollbackKeeps, DeleteStaleKeeps, CompleteRevertKeeps,
   CheckpointStutters
   DEF Next, Provider, Ingestion, Reactor

LEMMA CheckpointInvHolds == Spec => []CheckpointInv
<1>1. Init => CheckpointInv
  BY CheckpointStarts
<1>2. CheckpointInv /\ [Next]_vars => CheckpointInv'
  BY CheckpointStep
<1> QED
  BY <1>1, <1>2, PTL DEF Spec

(* Type correctness: no count is 0, and both copies of the checkpoints, the    *)
(* refs and the worker's job keep their shape                                 *)
(* (CheckpointReactor.ts:325-389, ProviderRuntimeIngestion.ts:1179-1211).      *)
THEOREM CheckpointTypes == Spec => []TypeOK
<1>1. CheckpointInv => TypeOK
  BY DEF CheckpointInv
<1> QED
  BY <1>1, CheckpointInvHolds, PTL

(* However turns, placeholders, captures and reverts interleave, a checkpoint  *)
(* of the read model has its git ref, unless a revert that had deleted it then *)
(* failed (CheckpointReactor.ts:193-266, 675-710).                             *)
THEOREM RefsBack == Spec => []RefsBackCheckpoints
<1>1. CheckpointInv => RefsBackCheckpoints
  BY DEF CheckpointInv
<1> QED
  BY <1>1, CheckpointInvHolds, PTL

(* No placeholder is forgotten, whichever event of its turn comes first        *)
(* (CheckpointReactor.ts:732-747).                                            *)
THEOREM PlaceholdersAreDue == Spec => []PlaceholderIsDue
<1>1. CheckpointInv => PlaceholderIsDue
  BY DEF CheckpointInv
<1> QED
  BY <1>1, CheckpointInvHolds, PTL

(* A step that changes a captured checkpoint completes a revert: the ingestion  *)
(* writes placeholders only, and the reactor captures a turn once               *)
(* (projector.ts:522-588, CheckpointReactor.ts:325-407).                        *)
LEMMA CaptureStands ==
    ASSUME CheckpointInv, [Next]_vars, NEW t \in Turn, Captured(t)
    PROVE  memory'[t] = memory[t] \/ job.step = "complete"
<1>1. CASE DispatchPlaceholder
  BY <1>1 DEF DispatchPlaceholder, DiffComplete, Keep, Captured, CheckpointInv, TypeOK
<1>2. CASE Report
  BY <1>2 DEF Report, DiffComplete, Keep, CheckpointInv, JobInv, TypeOK
<1>3. CASE CompleteRevert
  BY <1>3 DEF CompleteRevert
<1>4. CASE UNCHANGED memory
  BY <1>4
<1> QED
  BY <1>1, <1>2, <1>3, <1>4
     DEF Next, vars, engine, Provider, Ingestion, Reactor, StartTurn, Edit, EndTurn,
         RequestRevert, IngestLifecycle, IngestDiff, TakeTurnStart, CaptureBaseline,
         TakeTurnCompleted, TakePlaceholder, TakeOwnCapture, Capture, TakeRevert,
         Rollback, DeleteStale

(* A captured checkpoint stands until a revert removes it, whatever the        *)
(* ingestion wrote from a stale copy (projector.ts:522-558).                   *)
THEOREM CapturedTurnsStand == Spec => CapturesStand
<1>1. CheckpointInv /\ [Next]_vars
        => [\A t \in Turn : Captured(t) => memory'[t] = memory[t] \/ job.step = "complete"]_vars
  BY CaptureStands
<1> QED
  BY <1>1, CheckpointInvHolds, PTL DEF Spec, CapturesStand
=============================================================================
