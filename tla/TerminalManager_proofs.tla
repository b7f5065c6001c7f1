------------------------- MODULE TerminalManager_proofs -------------------------
(***************************************************************************)
(* Theorems about the terminals and the worker that writes their histories, *)
(* for any number of terminals, sessions, shells, fibers and calls.         *)
(***************************************************************************)
EXTENDS TerminalManager, FiniteSetTheorems, SequenceTheorems,
        WellFoundedInduction, TLAPS

(* The worker.  A key is in the queue once at most, and only while it counts   *)
(* as queued; what was enqueued is done, waits, or is being processed.         *)
Items == 1 .. Len(texts)

QueueInv ==
    /\ queue \in Seq(Key) /\ IsInjective(queue)
    /\ \A i \in 1 .. Len(queue) : queue[i] \in queuedKeys /\ queue[i] \notin {taken, requeue}
    /\ queuedKeys \subseteq Key /\ activeKeys \subseteq Key
    /\ taken \in queuedKeys \cup {NoKey} /\ requeue \in queuedKeys \cup {NoKey}
    /\ taken # NoKey => running = Idle /\ requeue = NoKey
    /\ requeue # NoKey => running = Idle

ItemInv ==
    /\ texts \in Seq(SUBSET (1 .. outputs)) /\ outputs \in Nat
    /\ Items \subseteq Item
    /\ sent \in [Key -> SUBSET Items] /\ UNION {sent[k] : k \in Key} = Items
    /\ latestByKey \in [Key -> SUBSET Items] /\ done \subseteq Items
    /\ running = Idle \/ running \in [key : activeKeys, value : (SUBSET Items) \ {{}}]
    /\ \A k \in Key : \A x \in sent[k] :
         x \in done \/ x \in latestByKey[k] \/ (running.key = k /\ x \in running.value)

(* The sessions of the map and those no longer in it.                         *)
SessionSet(n) ==
    [key : Key \cup {NoKey}, status : {"none", "starting", "running", "exited", "error"},
     shell : Process \cup {None}, history : SUBSET (1 .. n), pending : Seq(0 .. n),
     draining : BOOLEAN, lossy : BOOLEAN, stray : BOOLEAN]

SessionInv ==
    /\ sessions \in [Key -> Session \cup {None}]
    /\ session \in [Session -> SessionSet(outputs)]
    /\ \A t \in Key : sessions[t] # None => session[sessions[t]].key = t
    /\ \A s \in Session :
         /\ session[s].status = "none" <=> session[s].key = NoKey
         /\ session[s].status = "running" <=> session[s].shell # None
         /\ session[s].pending # <<>> => session[s].draining

(* A shell and its session name each other until it exits or is killed.        *)
HasExit(q) == \E i \in 1 .. Len(q) : q[i] = Exit
Waits(s) == HasExit(session[s].pending)

ProcessSet ==
    [state : {"unborn", "alive", "dead", "escaped"}, owner : Session \cup {None}, killed : BOOLEAN]

ProcessInv ==
    /\ process \in [Process -> ProcessSet]
    /\ \A p \in Process :
         /\ process[p].owner # None => session[process[p].owner].shell = p
         /\ process[p].state = "unborn" \/ process[p].killed => process[p].owner = None
         /\ process[p].state = "unborn" => ~process[p].killed
         /\ process[p].state = "alive" => process[p].killed \/ process[p].owner # None
    /\ \A s \in Session : session[s].shell # None =>
         /\ process[session[s].shell].owner = s
         /\ sessions[session[s].key] = s \/ session[s].stray
         /\ Waits(s) => process[session[s].shell].state = "dead"

(* A session that has events waiting has a fiber to take them.                *)
Serves(f, s) == fiber[f].session = s /\ fiber[f].shell = session[s].shell

FiberSet == [session : Session, shell : Process, step : {"loop", "publish", "exited"}]

FiberInv ==
    /\ fiber \in [Fiber -> {NoFiber} \cup FiberSet]
    /\ \A f \in Fiber : fiber[f] # NoFiber =>
         /\ process[fiber[f].shell].state # "unborn"
         /\ fiber[f].step = "exited" => process[fiber[f].shell].owner = None
    /\ \A s \in Session : session[s].shell # None /\ ~session[s].lossy =>
         /\ session[s].draining => \E f \in Fiber : Serves(f, s)
         /\ process[session[s].shell].state = "dead" => Waits(s)

(* What a call found under its thread's lock stays so.                        *)
CallSet ==
    [kind : {"open"}, key : Key, session : {None}, step : {"read"}]
    \cup [kind : {"open", "restart"}, key : Key, session : Session, step : {"persist", "spawn"}]
    \cup [kind : {"clear"}, key : Key, session : Session, step : {"persist"}]
    \cup [kind : {"close", "delete"}, key : Key, session : Session \cup {None}, step : {"persist"}]
    \cup [kind : {"delete"}, key : Key, session : Session \cup {None}, step : {"delete"}]

Readers == {h \in Thread : call[h].step = "read"}

CallOK(h) == call[h] # NoCall =>
    /\ ThreadOf[call[h].key] = h
    /\ call[h].session # None =>
         /\ session[call[h].session].key = call[h].key
         /\ call[h].kind # "clear" => session[call[h].session].shell = None
    /\ call[h].step \in {"read", "delete"} => sessions[call[h].key] = None
    /\ call[h].kind \in {"close", "delete"} => sessions[call[h].key] \in {None, call[h].session}

CallInv ==
    /\ call \in [Thread -> {NoCall} \cup CallSet]
    /\ \A h \in Thread : CallOK(h)
    /\ Cardinality(Readers) <= Cardinality(Unused)

(* What a terminal shows is what its file holds, or will hold once the worker  *)
(* has no item of it.                                                         *)
Matches(text, history) == text = history \/ (text = NoFile /\ history = {})
Stray(t) == \E s \in Session : session[s].key = t /\ session[s].stray
Shown(t) == IF sessions[t] # None /\ ~Stray(t) THEN {session[sessions[t]].history} ELSE {}

FileInv ==
    /\ file \in [Key -> {NoFile} \cup SUBSET (1 .. outputs)] /\ broken \subseteq Key
    /\ \A t \in Key : \A history \in Shown(t) :
         IF latestByKey[t] # {} THEN texts[Max(latestByKey[t])] = history
         ELSE IF running.key = t THEN texts[Max(running.value)] = history
         ELSE t \notin broken => Matches(file[t], history)

ShellInv == SessionInv /\ ProcessInv /\ FiberInv
TerminalInv == QueueInv /\ ItemInv /\ ShellInv /\ CallInv /\ FileInv

-----------------------------------------------------------------------------
(* The library.                                                               *)

LEMMA Numbers ==
    /\ Session \subseteq Nat \ {0} /\ Process \subseteq Nat \ {0} /\ Fiber \subseteq Nat \ {0}
    /\ IsFiniteSet(Session) /\ NoKey \notin Key /\ MaxRetained \in Nat \ {0}
    /\ Item = 1 .. Cardinality(Item) /\ Cardinality(Item) \in Nat
<1>1. \A S : IsFiniteSet(S) => Cardinality(S) \in Nat
  BY FS_CardinalityType
<1> QED
  BY <1>1, TerminalAssumption, CallAssumption

LEMMA NatOrder ==
    \E R : IsWellFoundedOn(R, Nat) /\ \A x, y \in Nat : <<x, y>> \in R <=> x < y
<1>1. \A x, y \in Nat : <<x, y>> \in OpToRel(<, Nat) <=> x < y
  BY DEF OpToRel
<1> QED
  BY <1>1, NatLessThanWellFounded, Zenon

LEMMA LeastNumber ==
    ASSUME NEW S \in SUBSET Nat, S # {}
    PROVE  \E m \in S : \A x \in S : m <= x
<1>1. PICK R : IsWellFoundedOn(R, Nat) /\ \A x, y \in Nat : <<x, y>> \in R <=> x < y
  BY NatOrder
<1>2. PICK m \in S : \A x \in S : ~(<<x, m>> \in R)
  <2>1. IsWellFoundedOn(R, Nat) /\ S \subseteq Nat
    BY <1>1
  <2> QED
    BY <2>1, WFMin, Zenon
<1>3. \A x \in S : ~(x < m)
  BY <1>1, <1>2
<1> QED
  BY <1>3

LEMMA MinOf ==
    ASSUME NEW S \in SUBSET Nat, S # {}
    PROVE  Min(S) \in S
BY LeastNumber DEF Min

(* The greatest of some numbers, by the least distance from their bound.      *)
LEMMA MaxOf ==
    ASSUME NEW n \in Nat, NEW S \in SUBSET (1 .. n)
    PROVE  /\ S # {} => Max(S) \in S
           /\ Max(S \cup {n + 1}) = n + 1
<1>1. ASSUME S # {} PROVE Max(S) \in S
  <2> DEFINE D == {n - x : x \in S}
  <2>1. D \in SUBSET Nat /\ D # {}
    BY <1>1
  <2>2. PICK d \in D : \A y \in D : d <= y
    BY <2>1, LeastNumber
  <2>3. PICK m \in S : d = n - m
    BY <2>2
  <2>4. \A x \in S : m >= x
    <3>1. ASSUME NEW x \in S PROVE m >= x
      <4>1. n - m <= n - x
        BY <2>2, <2>3
      <4> QED
        BY <4>1
    <3> QED
      BY <3>1
  <2> QED
    BY <2>4 DEF Max
<1>2. Max(S \cup {n + 1}) = n + 1
  <2>1. n + 1 \in S \cup {n + 1} /\ \A x \in S \cup {n + 1} : n + 1 >= x
    OBVIOUS
  <2>2. \A m \in S \cup {n + 1} : (\A x \in S \cup {n + 1} : m >= x) => m = n + 1
    OBVIOUS
  <2> QED
    BY <2>1, <2>2 DEF Max
<1> QED
  BY <1>1, <1>2

(* A queue whose keys differ.                                                 *)
LEMMA InjectiveTail ==
    ASSUME NEW S, NEW q \in Seq(S), q # <<>>, IsInjective(q)
    PROVE  /\ Head(q) \in S /\ Head(q) = q[1] /\ 1 \in 1 .. Len(q)
           /\ Tail(q) \in Seq(S) /\ IsInjective(Tail(q))
           /\ \A i \in 1 .. Len(Tail(q)) :
                i + 1 \in 1 .. Len(q) /\ Tail(q)[i] = q[i + 1] /\ Tail(q)[i] # Head(q)
<1>1. /\ Len(q) \in Nat \ {0} /\ Tail(q) \in Seq(S) /\ Len(Tail(q)) = Len(q) - 1
      /\ Head(q) = q[1] /\ Head(q) \in S
      /\ \A i \in 1 .. Len(q) - 1 : Tail(q)[i] = q[i + 1]
  BY EmptySeq, HeadTailProperties
<1>2. DOMAIN q = 1 .. Len(q) /\ DOMAIN Tail(q) = 1 .. Len(Tail(q))
  BY <1>1, LenProperties
<1>3. \A i \in 1 .. Len(Tail(q)) : i + 1 \in 1 .. Len(q) /\ i + 1 # 1 /\ Tail(q)[i] = q[i + 1]
  BY <1>1
<1>4. \A i \in 1 .. Len(Tail(q)) : Tail(q)[i] # Head(q)
  BY <1>1, <1>2, <1>3 DEF IsInjective
<1>5. IsInjective(Tail(q))
  <2>1. ASSUME NEW i \in 1 .. Len(Tail(q)), NEW j \in 1 .. Len(Tail(q)), Tail(q)[i] = Tail(q)[j]
        PROVE  i = j
    <3>1. i + 1 = j + 1
      BY <1>2, <1>3, <2>1 DEF IsInjective
    <3> QED
      BY <1>1, <3>1
  <2> QED
    BY <1>2, <2>1 DEF IsInjective
<1> QED
  BY <1>1, <1>3, <1>4, <1>5

LEMMA InjectiveAppend ==
    ASSUME NEW S, NEW q \in Seq(S), IsInjective(q), NEW x \in S,
           \A i \in 1 .. Len(q) : q[i] # x
    PROVE  /\ Append(q, x) \in Seq(S) /\ IsInjective(Append(q, x))
           /\ \A i \in 1 .. Len(Append(q, x)) :
                Append(q, x)[i] = x \/ (i \in 1 .. Len(q) /\ Append(q, x)[i] = q[i])
<1>1. /\ Append(q, x) \in Seq(S) /\ Len(Append(q, x)) = Len(q) + 1 /\ Len(q) \in Nat
      /\ \A i \in 1 .. Len(q) : Append(q, x)[i] = q[i]
      /\ Append(q, x)[Len(q) + 1] = x
  BY AppendProperties, LenProperties
<1>2. DOMAIN q = 1 .. Len(q) /\ DOMAIN Append(q, x) = 1 .. Len(q) + 1
  BY <1>1, LenProperties
<1>3. \A i \in 1 .. Len(q) + 1 : i = Len(q) + 1 \/ i \in 1 .. Len(q)
  BY <1>1
<1>4. IsInjective(Append(q, x))
  BY <1>1, <1>2, <1>3 DEF IsInjective
<1> QED
  BY <1>1, <1>3, <1>4

-----------------------------------------------------------------------------
(* The worker's transactions.                                                 *)

LEMMA ItemNumbers ==
    ASSUME ItemInv
    PROVE  /\ Len(texts) \in Nat /\ NextItem = Len(texts) + 1 /\ outputs \in Nat
           /\ \A S \in SUBSET Items : S # {} => Max(S) \in Items
           /\ \A S \in SUBSET Items : Max(S \cup {Len(texts) + 1}) = Len(texts) + 1
           /\ \A i \in Items : texts[i] \in SUBSET (1 .. outputs)
<1>1. Len(texts) \in Nat /\ \A i \in Items : texts[i] \in SUBSET (1 .. outputs)
  BY LenProperties, ElementOfSeq DEF ItemInv, Items
<1>2. Cardinality(1 .. Len(texts)) = Len(texts)
  BY <1>1, FS_Interval
<1>3. NextItem = Len(texts) + 1
  <2>1. PICK U : U = UNION {sent[k] : k \in Key}
    OBVIOUS
  <2>2. U = 1 .. Len(texts)
    BY <2>1 DEF ItemInv, Items
  <2>3. Cardinality(U) = Len(texts)
    BY <1>2, <2>2
  <2>4. NextItem = 1 + Cardinality(U)
    BY <2>1 DEF NextItem
  <2> QED
    BY <1>1, <2>3, <2>4
<1>4. \A S \in SUBSET Items :
        (S # {} => Max(S) \in Items) /\ Max(S \cup {Len(texts) + 1}) = Len(texts) + 1
  BY <1>1, MaxOf DEF Items
<1> QED
  BY <1>1, <1>3, <1>4 DEF ItemInv

LEMMA PersistKeeps ==
    ASSUME QueueInv, ItemInv, NEW k \in Key, NEW text \in SUBSET (1 .. outputs),
           Persist(k, text), outputs' = outputs
    PROVE  /\ QueueInv' /\ ItemInv'
           /\ texts'[Len(texts) + 1] = text /\ \A i \in Items : texts'[i] = texts[i]
           /\ latestByKey' = [latestByKey EXCEPT ![k] = latestByKey[k] \cup {Len(texts) + 1}]
           /\ running' = running
<1>1. PICK n : n = Len(texts) + 1
  OBVIOUS
<1>2. Len(texts) \in Nat /\ n \in Nat /\ NextItem = n /\ outputs \in Nat
  BY <1>1, ItemNumbers
<1>3. /\ texts' \in Seq(SUBSET (1 .. outputs)) /\ Len(texts') = n
      /\ \A i \in Items : texts'[i] = texts[i]
      /\ texts'[n] = text
  <2>1. /\ Append(texts, text) \in Seq(SUBSET (1 .. outputs))
        /\ Len(Append(texts, text)) = Len(texts) + 1
        /\ \A i \in 1 .. Len(texts) : Append(texts, text)[i] = texts[i]
        /\ Append(texts, text)[Len(texts) + 1] = text
    BY AppendProperties DEF ItemInv
  <2> QED
    BY <1>1, <2>1 DEF Persist, Items
<1>4. Items' = Items \cup {n} /\ n \notin Items
  BY <1>1, <1>2, <1>3 DEF Items
<1>5. Items' \subseteq Item
  <2>1. n \in Item
    BY <1>2 DEF Persist, Enqueue
  <2> QED
    BY <1>4, <2>1 DEF ItemInv
<1>6. /\ latestByKey' = [latestByKey EXCEPT ![k] = latestByKey[k] \cup {n}]
      /\ sent' = [sent EXCEPT ![k] = sent[k] \cup {n}]
      /\ UNCHANGED <<activeKeys, taken, running, requeue, done>>
  BY <1>2 DEF Persist, Enqueue, MergeLatest
<1>7. ItemInv'
  <2>1. latestByKey' \in [Key -> SUBSET Items'] /\ sent' \in [Key -> SUBSET Items']
    BY <1>4, <1>6 DEF ItemInv
  <2>2. UNION {sent'[j] : j \in Key} = Items'
    <3>1. \A j \in Key : sent'[j] = IF j = k THEN sent[k] \cup {n} ELSE sent[j]
      BY <1>6 DEF ItemInv
    <3>2. \A x : (\E j \in Key : x \in sent'[j]) <=> (x = n \/ \E j \in Key : x \in sent[j])
      BY <3>1
    <3>3. \A x : (\E j \in Key : x \in sent[j]) <=> x \in Items
      BY DEF ItemInv
    <3> QED
      BY <1>4, <3>2, <3>3
  <2>3. running' = Idle \/ running' \in [key : activeKeys', value : (SUBSET Items') \ {{}}]
    <3>1. running = Idle \/ running \in [key : activeKeys, value : (SUBSET Items) \ {{}}]
      BY DEF ItemInv
    <3> QED
      BY <1>4, <1>6, <3>1
  <2>4. \A j \in Key : \A x \in sent'[j] :
          x \in done' \/ x \in latestByKey'[j] \/ (running'.key = j /\ x \in running'.value)
    <3>1. ASSUME NEW j \in Key, NEW x \in sent'[j]
          PROVE x \in done \/ x \in latestByKey'[j] \/ (running.key = j /\ x \in running.value)
      <4>1. CASE j = k
        <5>1. sent'[j] = sent[j] \cup {n} /\ latestByKey'[j] = latestByKey[j] \cup {n}
          BY <1>6, <4>1 DEF ItemInv
        <5>2. x = n \/ x \in sent[j]
          BY <3>1, <5>1
        <5> QED
          BY <5>1, <5>2 DEF ItemInv
      <4>2. CASE j # k
        <5>1. sent'[j] = sent[j] /\ latestByKey'[j] = latestByKey[j]
          BY <1>6, <4>2 DEF ItemInv
        <5> QED
          BY <3>1, <5>1 DEF ItemInv
      <4> QED
        BY <4>1, <4>2
    <3> QED
      BY <1>6, <3>1
  <2>5. done' \subseteq Items'
    BY <1>4, <1>6 DEF ItemInv
  <2>6. texts' \in Seq(SUBSET (1 .. outputs')) /\ outputs' \in Nat
    BY <1>2, <1>3
  <2> QED
    BY <1>5, <2>1, <2>2, <2>3, <2>4, <2>5, <2>6 DEF ItemInv, Idle
<1>8. QueueInv'
  <2>1. CASE NeedsOffer(k)
    <3>1. queuedKeys' = queuedKeys \cup {k} /\ queue' = Append(queue, k)
      BY <2>1 DEF Persist, Enqueue
    <3>2. \A i \in 1 .. Len(queue) : queue[i] # k
      BY <2>1 DEF QueueInv, NeedsOffer
    <3>3. /\ queue' \in Seq(Key) /\ IsInjective(queue')
          /\ \A i \in 1 .. Len(queue') :
               queue'[i] = k \/ (i \in 1 .. Len(queue) /\ queue'[i] = queue[i])
      BY <3>1, <3>2, InjectiveAppend DEF QueueInv
    <3>4. k \notin {taken, requeue}
      BY <2>1, Numbers DEF QueueInv, NeedsOffer
    <3> QED
      BY <1>6, <3>1, <3>3, <3>4 DEF QueueInv, Idle
  <2>2. CASE ~NeedsOffer(k)
    <3>1. UNCHANGED <<queue, queuedKeys>>
      BY <2>2 DEF Persist, Enqueue
    <3> QED
      BY <1>6, <3>1 DEF QueueInv, Idle
  <2> QED
    BY <2>1, <2>2
<1> QED
  BY <1>1, <1>3, <1>6, <1>7, <1>8

(* Steps that are not the worker's.                                           *)
LEMMA WorkerStands ==
    ASSUME QueueInv, ItemInv, UNCHANGED <<worker, texts>>, outputs' \in Nat, outputs <= outputs'
    PROVE  QueueInv' /\ ItemInv'
<1>1. /\ queue' = queue /\ latestByKey' = latestByKey /\ queuedKeys' = queuedKeys
      /\ activeKeys' = activeKeys /\ taken' = taken /\ running' = running
      /\ requeue' = requeue /\ sent' = sent /\ done' = done /\ texts' = texts
  BY DEF worker
<1>2. QueueInv'
  BY <1>1 DEF QueueInv, Idle
<1>3. texts \in Seq(SUBSET (1 .. outputs'))
  <2>1. SUBSET (1 .. outputs) \subseteq SUBSET (1 .. outputs')
    BY DEF ItemInv
  <2> QED
    BY <2>1, SeqMonotonic DEF ItemInv
<1>4. ItemInv'
  BY <1>1, <1>3 DEF ItemInv, Idle, Items
<1> QED
  BY <1>2, <1>4

(* The fiber's own transactions: an item is waiting, processed or done.        *)
Dispatches == Take \/ Start \/ Requeue \/ Succeed \/ Fail

LEMMA TakeKeeps == QueueInv /\ Take => QueueInv'
<1> SUFFICES ASSUME QueueInv, Take PROVE QueueInv'
  OBVIOUS
<1>1. /\ queue # <<>> /\ taken' = Head(queue) /\ queue' = Tail(queue)
      /\ taken = NoKey /\ running = Idle /\ requeue = NoKey
      /\ UNCHANGED <<queuedKeys, activeKeys, running, requeue>>
  BY DEF Take, Free, state
<1>2. PICK q : q = queue
  OBVIOUS
<1>3. /\ q[1] = taken' /\ 1 \in 1 .. Len(q) /\ Tail(q) \in Seq(Key) /\ IsInjective(Tail(q))
      /\ \A i \in 1 .. Len(Tail(q)) :
           i + 1 \in 1 .. Len(q) /\ Tail(q)[i] = q[i + 1] /\ Tail(q)[i] # taken'
  BY <1>1, <1>2, InjectiveTail DEF QueueInv
<1>4. \A i \in 1 .. Len(q) : q[i] \in queuedKeys /\ q[i] # requeue
  BY <1>2 DEF QueueInv
<1>5. taken' \in queuedKeys
  BY <1>3, <1>4
<1>6. \A i \in 1 .. Len(queue') : queue'[i] \in queuedKeys' /\ queue'[i] \notin {taken', requeue'}
  BY <1>1, <1>2, <1>3, <1>4
<1> QED
  BY <1>1, <1>2, <1>3, <1>5, <1>6 DEF QueueInv, Idle

LEMMA StartKeeps == QueueInv /\ Start => QueueInv'
<1> SUFFICES ASSUME QueueInv, Start PROVE QueueInv'
  OBVIOUS
<1>1. /\ taken # NoKey /\ taken' = NoKey /\ queuedKeys' = queuedKeys \ {taken}
      /\ UNCHANGED <<queue, requeue>>
      /\ activeKeys' \subseteq activeKeys \cup {taken}
  BY DEF Start
<1>2. taken \in queuedKeys /\ requeue = NoKey /\ running = Idle /\ queuedKeys \subseteq Key
  BY <1>1 DEF QueueInv
<1>3. \A i \in 1 .. Len(queue) : queue[i] \in queuedKeys \ {taken} /\ queue[i] # NoKey
  BY <1>2, Numbers DEF QueueInv
<1> QED
  BY <1>1, <1>2, <1>3 DEF QueueInv

LEMMA RequeueKeeps == QueueInv /\ Requeue => QueueInv'
<1> SUFFICES ASSUME QueueInv, Requeue PROVE QueueInv'
  OBVIOUS
<1>1. /\ requeue # NoKey /\ queue' = Append(queue, requeue) /\ requeue' = NoKey
      /\ UNCHANGED <<queuedKeys, activeKeys, taken, running>>
  BY DEF Requeue, state
<1>2. /\ requeue \in queuedKeys /\ queuedKeys \subseteq Key /\ taken = NoKey
      /\ \A i \in 1 .. Len(queue) : queue[i] # requeue
  BY <1>1 DEF QueueInv
<1>3. PICK q, k : q = queue /\ k = requeue
  OBVIOUS
<1>4. /\ Append(q, k) \in Seq(Key) /\ IsInjective(Append(q, k))
      /\ \A i \in 1 .. Len(Append(q, k)) :
           Append(q, k)[i] = k \/ (i \in 1 .. Len(q) /\ Append(q, k)[i] = q[i])
  BY <1>2, <1>3, InjectiveAppend DEF QueueInv
<1>5. \A i \in 1 .. Len(queue') : queue'[i] \in queuedKeys /\ queue'[i] # NoKey
  BY <1>1, <1>2, <1>3, <1>4, Numbers DEF QueueInv
<1> QED
  BY <1>1, <1>2, <1>3, <1>4, <1>5 DEF QueueInv, Idle

LEMMA EndsKeep == QueueInv /\ ItemInv /\ (Succeed \/ Fail) => QueueInv'
<1> SUFFICES ASSUME QueueInv, ItemInv, Succeed \/ Fail PROVE QueueInv'
  OBVIOUS
<1>1. /\ running # Idle /\ UNCHANGED <<queue, taken>>
      /\ activeKeys' \subseteq activeKeys
  BY DEF Succeed, Fail
<1>2. taken = NoKey /\ requeue = NoKey
  BY <1>1 DEF QueueInv
<1>3. CASE UNCHANGED <<queuedKeys, requeue>>
  BY <1>1, <1>2, <1>3 DEF QueueInv
<1>4. CASE /\ Fail /\ Again(running.key)
           /\ queuedKeys' = queuedKeys \cup {running.key} /\ requeue' = running.key
  <2>1. running.key \in Key /\ running.key \notin queuedKeys
    BY <1>1, <1>4 DEF ItemInv, QueueInv, Again
  <2>2. running' = Idle /\ Idle' = Idle
    BY <1>4 DEF Fail, Idle
  <2>3. \A i \in 1 .. Len(queue) : queue[i] \in queuedKeys' /\ queue[i] \notin {taken, requeue'}
    BY <1>4, <2>1 DEF QueueInv
  <2> QED
    BY <1>1, <1>2, <1>4, <2>1, <2>2, <2>3 DEF QueueInv
<1> QED
  BY <1>3, <1>4 DEF Succeed, Fail

LEMMA DispatchKeepsItems ==
    ASSUME QueueInv, ItemInv, Dispatches, UNCHANGED <<texts, outputs>>
    PROVE  ItemInv'
<1>1. Items' = Items /\ Idle' = Idle
  BY DEF Items, Idle
<1>2. UNCHANGED sent
  BY DEF Dispatches, Take, Start, Requeue, Succeed, Fail
<1>3. SUFFICES
        /\ latestByKey' \in [Key -> SUBSET Items] /\ done' \subseteq Items
        /\ running' = Idle \/ running' \in [key : activeKeys', value : (SUBSET Items) \ {{}}]
        /\ \A k \in Key : \A x \in sent[k] :
             x \in done' \/ x \in latestByKey'[k] \/ (running'.key = k /\ x \in running'.value)
  BY <1>1, <1>2 DEF ItemInv
<1>4. CASE Take \/ Requeue
  BY <1>4 DEF Take, Requeue, state, ItemInv
<1>5. CASE Start
  <2>1. /\ running = Idle /\ taken \in Key /\ done' = done
        /\ latestByKey' = [latestByKey EXCEPT ![taken] = {}]
    BY <1>5 DEF Start, QueueInv
  <2>2. CASE latestByKey[taken] = {}
    <3>1. running' = Idle /\ latestByKey' = latestByKey
      BY <1>5, <2>1, <2>2 DEF Start, ItemInv
    <3> QED
      BY <2>1, <3>1 DEF ItemInv
  <2>3. CASE latestByKey[taken] # {}
    <3>1. PICK r : r = [key |-> taken, value |-> latestByKey[taken]]
      OBVIOUS
    <3>2. running' = r /\ activeKeys' = activeKeys \cup {taken}
      BY <1>5, <2>3, <3>1 DEF Start
    <3>3. r \in [key : activeKeys', value : (SUBSET Items) \ {{}}]
      BY <2>1, <2>3, <3>1, <3>2 DEF ItemInv
    <3>4. ASSUME NEW k \in Key, NEW x \in sent[k]
          PROVE x \in done \/ x \in latestByKey'[k] \/ (r.key = k /\ x \in r.value)
      <4>1. x \in done \/ x \in latestByKey[k]
        BY <2>1, Numbers DEF ItemInv, Idle
      <4> QED
        BY <2>1, <3>1, <4>1 DEF ItemInv
    <3> QED
      BY <2>1, <3>2, <3>3, <3>4 DEF ItemInv
  <2> QED
    BY <2>2, <2>3
<1>6. CASE Succeed
  <2>1. PICK r : r = running
    OBVIOUS
  <2>2. r \in [key : activeKeys, value : (SUBSET Items) \ {{}}] /\ r.key \in Key
    BY <1>6, <2>1 DEF Succeed, ItemInv, QueueInv
  <2>3. done' = done \cup r.value
    BY <1>6, <2>1 DEF Succeed
  <2>4. CASE latestByKey[r.key] = {}
    <3>1. running' = Idle /\ latestByKey' = latestByKey
      BY <1>6, <2>1, <2>4 DEF Succeed
    <3> QED
      BY <2>1, <2>2, <2>3, <3>1 DEF ItemInv
  <2>5. CASE latestByKey[r.key] # {}
    <3>1. PICK q : q = [r EXCEPT !.value = latestByKey[r.key]]
      OBVIOUS
    <3>2. /\ running' = q /\ latestByKey' = [latestByKey EXCEPT ![r.key] = {}]
          /\ activeKeys' = activeKeys
      BY <1>6, <2>1, <2>5, <3>1 DEF Succeed
    <3>3. q \in [key : activeKeys, value : (SUBSET Items) \ {{}}]
          /\ q.key = r.key /\ q.value = latestByKey[r.key]
      BY <2>2, <2>5, <3>1 DEF ItemInv
    <3>4. ASSUME NEW k \in Key, NEW x \in sent[k]
          PROVE x \in done' \/ x \in latestByKey'[k] \/ (q.key = k /\ x \in q.value)
      <4>1. x \in done' \/ x \in latestByKey[k]
        BY <2>1, <2>3 DEF ItemInv
      <4> QED
        BY <2>2, <3>2, <3>3, <4>1 DEF ItemInv
    <3> QED
      BY <2>2, <2>3, <3>2, <3>3, <3>4 DEF ItemInv
  <2> QED
    BY <2>4, <2>5
<1>7. CASE Fail
  <2>1. PICK r : r = running
    OBVIOUS
  <2>2. r \in [key : activeKeys, value : (SUBSET Items) \ {{}}]
    BY <1>7, <2>1 DEF Fail, ItemInv
  <2>3. done' = done \cup r.value /\ running' = Idle /\ latestByKey' = latestByKey
    BY <1>7, <2>1 DEF Fail
  <2> QED
    BY <2>1, <2>2, <2>3 DEF ItemInv
<1> QED
  BY <1>4, <1>5, <1>6, <1>7 DEF Dispatches

LEMMA DispatchKeeps ==
    ASSUME QueueInv, ItemInv, Dispatches, UNCHANGED <<texts, outputs>>
    PROVE  QueueInv' /\ ItemInv'
BY TakeKeeps, StartKeeps, RequeueKeeps, EndsKeep, DispatchKeepsItems DEF Dispatches

-----------------------------------------------------------------------------
(* Histories and files.                                                       *)

(* A history that is persisted is the one the file will hold.                 *)
LEMMA FileOnPersist ==
    ASSUME QueueInv, ItemInv, FileInv, NEW k \in Key, NEW text \in SUBSET (1 .. outputs),
           Persist(k, text), UNCHANGED <<storage, outputs>>,
           \A t \in Key \ {k} : Shown(t)' \subseteq Shown(t),
           Shown(k)' \subseteq {text}
    PROVE  FileInv'
<1>1. PICK n : n = Len(texts) + 1
  OBVIOUS
<1>2. /\ texts'[n] = text /\ \A i \in Items : texts'[i] = texts[i]
      /\ latestByKey' = [latestByKey EXCEPT ![k] = latestByKey[k] \cup {n}]
      /\ running' = running /\ file' = file /\ broken' = broken /\ outputs' = outputs
  BY <1>1, PersistKeeps DEF storage
<1>3. /\ \A S \in SUBSET Items : S # {} => Max(S) \in Items
      /\ \A S \in SUBSET Items : Max(S \cup {n}) = n
  BY <1>1, ItemNumbers
<1>4. ASSUME NEW t \in Key, NEW history, history \in Shown(t)'
      PROVE  IF latestByKey'[t] # {} THEN texts'[Max(latestByKey'[t])] = history
             ELSE IF running'.key = t THEN texts'[Max(running'.value)] = history
             ELSE t \notin broken' => Matches(file'[t], history)
  <2>1. CASE t = k
    <3>1. latestByKey'[t] = latestByKey[t] \cup {n} /\ latestByKey[t] \in SUBSET Items
      BY <1>2, <2>1 DEF ItemInv
    <3>2. Max(latestByKey'[t]) = n
      BY <1>3, <3>1
    <3>3. history = text
      BY <1>4, <2>1
    <3> QED
      BY <1>2, <3>1, <3>2, <3>3
  <2>2. CASE t # k
    <3>1. latestByKey'[t] = latestByKey[t] /\ latestByKey[t] \in SUBSET Items
      BY <1>2, <2>2 DEF ItemInv
    <3>2. IF latestByKey[t] # {} THEN texts[Max(latestByKey[t])] = history
          ELSE IF running.key = t THEN texts[Max(running.value)] = history
          ELSE t \notin broken => Matches(file[t], history)
      BY <1>4, <2>2 DEF FileInv
    <3>3. running.key = t => Max(running.value) \in Items
      BY <1>3, Numbers DEF ItemInv, Idle
    <3>4. latestByKey[t] # {} => Max(latestByKey[t]) \in Items
      BY <1>3, <3>1
    <3> QED
      BY <1>2, <3>1, <3>2, <3>3, <3>4
  <2> QED
    BY <2>1, <2>2
<1> QED
  BY <1>2, <1>4 DEF FileInv

LEMMA FileStands ==
    ASSUME FileInv, UNCHANGED <<worker, texts, storage>>, outputs \in Nat, outputs' \in Nat,
           outputs <= outputs', \A t \in Key : Shown(t)' \subseteq Shown(t)
    PROVE  FileInv'
<1>1. /\ latestByKey' = latestByKey /\ running' = running /\ texts' = texts
      /\ file' = file /\ broken' = broken
  BY DEF worker, storage
<1>2. file' \in [Key -> {NoFile} \cup SUBSET (1 .. outputs')]
  <2>1. SUBSET (1 .. outputs) \subseteq SUBSET (1 .. outputs')
    OBVIOUS
  <2> QED
    BY <1>1, <2>1 DEF FileInv
<1>3. ASSUME NEW t \in Key, NEW history, history \in Shown(t)'
      PROVE  IF latestByKey[t] # {} THEN texts[Max(latestByKey[t])] = history
             ELSE IF running.key = t THEN texts[Max(running.value)] = history
             ELSE t \notin broken => Matches(file[t], history)
  BY <1>3 DEF FileInv
<1> QED
  BY <1>1, <1>2, <1>3 DEF FileInv

(* Taking a key, writing its last item and failing.                            *)
LEMMA FileFollowsWorker ==
    ASSUME QueueInv, ItemInv, FileInv, PersistWorker
    PROVE  FileInv'
<1>1. /\ UNCHANGED <<manager, texts, outputs>>
      /\ Dispatches
  BY DEF PersistWorker, Written, WriteDies, WorkerTurns, Dispatches
<1>2. \A t \in Key : Shown(t)' = Shown(t)
  BY <1>1 DEF manager, Shown, Stray
<1>3. \A t \in Key : latestByKey[t] \in SUBSET Items
  BY DEF ItemInv
<1>4. \A t \in Key : \A history \in Shown(t) :
        IF latestByKey[t] # {} THEN texts[Max(latestByKey[t])] = history
        ELSE IF running.key = t THEN texts[Max(running.value)] = history
        ELSE t \notin broken => Matches(file[t], history)
  BY DEF FileInv
<1>5. CASE WorkerTurns /\ (Take \/ Requeue)
  BY <1>1, <1>2, <1>4, <1>5 DEF WorkerTurns, Take, Requeue, state, storage, FileInv
<1>6. CASE WorkerTurns /\ Start
  <2>1. /\ file' = file /\ broken' = broken /\ running = Idle /\ taken \in Key
        /\ latestByKey' = [latestByKey EXCEPT ![taken] = {}]
    BY <1>6 DEF WorkerTurns, Start, storage, QueueInv
  <2>2. ASSUME NEW t \in Key, NEW history \in Shown(t)
        PROVE  IF latestByKey'[t] # {} THEN texts[Max(latestByKey'[t])] = history
               ELSE IF running'.key = t THEN texts[Max(running'.value)] = history
               ELSE t \notin broken => Matches(file[t], history)
    <3>1. CASE t # taken
      <4>1. latestByKey'[t] = latestByKey[t] /\ running'.key # t /\ running.key # t
        BY <1>6, <2>1, <3>1, Numbers DEF Start, Idle, ItemInv
      <4> QED
        BY <1>4, <4>1
    <3>2. CASE t = taken /\ latestByKey[t] = {}
      <4>1. latestByKey'[t] = {} /\ running' = running
        BY <1>6, <2>1, <3>2 DEF Start, ItemInv
      <4> QED
        BY <1>4, <3>2, <4>1
    <3>3. CASE t = taken /\ latestByKey[t] # {}
      <4>1. latestByKey'[t] = {} /\ running' = [key |-> t, value |-> latestByKey[t]]
        BY <1>6, <2>1, <3>3 DEF Start, ItemInv
      <4> QED
        BY <1>4, <3>3, <4>1
    <3> QED
      BY <3>1, <3>2, <3>3
  <2> QED
    BY <1>1, <1>2, <2>1, <2>2 DEF FileInv
<1>7. PICK r : r = running
  OBVIOUS
<1>8. ASSUME Succeed \/ Fail
      PROVE  /\ r.key \in Key /\ r.value \in SUBSET Items /\ Max(r.value) \in Items
             /\ texts[Max(r.value)] \in SUBSET (1 .. outputs)
  <2>1. r \in [key : activeKeys, value : (SUBSET Items) \ {{}}]
    BY <1>7, <1>8 DEF Succeed, Fail, ItemInv
  <2> QED
    BY <2>1, ItemNumbers DEF QueueInv
<1>9. CASE Written
  <2>1. Succeed
    BY <1>9 DEF Written
  <2>2. /\ file' \in [Key -> {NoFile} \cup SUBSET (1 .. outputs)] /\ broken' \subseteq Key
        /\ \/ file'[r.key] = texts[Max(r.value)]
           \/ r.key \in broken'
        /\ \A t \in Key \ {r.key} : file'[t] = file[t] /\ (t \in broken' <=> t \in broken)
    <3>1. CASE file' = [file EXCEPT ![r.key] = texts[Max(r.value)]] /\ broken' = broken \ {r.key}
      BY <1>8, <2>1, <3>1 DEF FileInv
    <3>2. CASE file' = file /\ broken' = broken \cup {r.key}
      BY <1>8, <2>1, <3>2 DEF FileInv
    <3> QED
      BY <1>7, <1>9, <3>1, <3>2 DEF Written, Merged
  <2>3. ASSUME NEW t \in Key, NEW history \in Shown(t)
        PROVE  IF latestByKey'[t] # {} THEN texts[Max(latestByKey'[t])] = history
               ELSE IF running'.key = t THEN texts[Max(running'.value)] = history
               ELSE t \notin broken' => Matches(file'[t], history)
    <3>1. CASE latestByKey[r.key] = {}
      <4>1. running'.key = NoKey /\ latestByKey' = latestByKey /\ t # NoKey
        BY <1>7, <2>1, <3>1, Numbers DEF Succeed, Idle
      <4>2. CASE t # r.key
        BY <1>4, <1>7, <2>2, <4>1, <4>2
      <4>3. CASE t = r.key
        BY <1>4, <1>7, <2>2, <3>1, <4>1, <4>3 DEF Matches
      <4> QED
        BY <4>2, <4>3
    <3>2. CASE latestByKey[r.key] # {}
      <4>1. PICK q : q = [r EXCEPT !.value = latestByKey[r.key]]
        OBVIOUS
      <4>2. running' = q /\ latestByKey' = [latestByKey EXCEPT ![r.key] = {}]
        BY <1>7, <2>1, <3>2, <4>1 DEF Succeed
      <4>3. q.key = r.key /\ q.value = latestByKey[r.key]
        BY <1>7, <2>1, <4>1 DEF Succeed, ItemInv
      <4>4. CASE t # r.key
        <5>1. latestByKey'[t] = latestByKey[t]
          BY <4>2, <4>4 DEF ItemInv
        <5> QED
          BY <1>4, <1>7, <2>2, <4>2, <4>3, <4>4, <5>1
      <4>5. CASE t = r.key
        <5>1. latestByKey'[t] = {}
          BY <4>2, <4>5 DEF ItemInv
        <5> QED
          BY <1>4, <3>2, <4>2, <4>3, <4>5, <5>1
      <4> QED
        BY <4>4, <4>5
    <3> QED
      BY <3>1, <3>2
  <2> QED
    BY <1>1, <1>2, <2>2, <2>3 DEF FileInv
<1>10. CASE WriteDies
  <2>1. /\ Fail /\ file' = file /\ broken' = broken \cup {r.key} /\ running'.key = NoKey
        /\ latestByKey' = latestByKey
    BY <1>7, <1>10 DEF WriteDies, Fail, Idle
  <2>2. \A t \in Key : t # NoKey
    BY Numbers
  <2>3. broken' \subseteq Key
    BY <1>8, <2>1 DEF FileInv
  <2>4. ASSUME NEW t \in Key, NEW history \in Shown(t)
        PROVE  IF latestByKey'[t] # {} THEN texts[Max(latestByKey'[t])] = history
               ELSE IF running'.key = t THEN texts[Max(running'.value)] = history
               ELSE t \notin broken' => Matches(file'[t], history)
    BY <1>4, <1>7, <2>1, <2>2
  <2> QED
    BY <1>1, <1>2, <2>1, <2>3, <2>4 DEF FileInv
<1> QED
  BY <1>5, <1>6, <1>9, <1>10 DEF PersistWorker, WorkerTurns

-----------------------------------------------------------------------------
(* The map of the sessions, and the calls.                                    *)

LEMMA EvictKeeps ==
    ASSUME NEW m \in [Key -> Session \cup {None}], NEW ss, NEW ord
    PROVE  /\ Evict(m, ss, ord) \in [Key -> Session \cup {None}]
           /\ \A t \in Key : \/ Evict(m, ss, ord)[t] = m[t]
                             \/ Evict(m, ss, ord)[t] = None /\ ss[m[t]].status # "running"
<1> DEFINE inactive == {i \in DOMAIN ord : m[ss[ord[i]].key] = ord[i]
                                           /\ ss[ord[i]].status # "running"}
           gone == {ord[i] : i \in {j \in inactive :
                      Cardinality({n \in inactive : n > j}) >= MaxRetained}}
<1>1. Evict(m, ss, ord) = [t \in Key |-> IF m[t] \in gone THEN None ELSE m[t]]
  BY DEF Evict
<1>2. \A x \in gone : ss[x].status # "running"
  OBVIOUS
<1> HIDE DEF gone, inactive
<1> QED
  BY <1>1, <1>2

(* A terminal shows what it showed, or nothing.                               *)
LEMMA ShowsNoMore ==
    ASSUME NEW u \in Key, sessions'[u] \in {sessions[u], None},
           sessions[u] # None => session'[sessions[u]].history = session[sessions[u]].history,
           \A r \in Session : session[r].stray /\ session[r].key = u =>
             session'[r].stray /\ session'[r].key = u
    PROVE  Shown(u)' \subseteq Shown(u)
<1>1. Stray(u) => Stray(u)'
  BY DEF Stray
<1> QED
  BY <1>1 DEF Shown, None

LEMMA SessionsAreFinite ==
    /\ IsFiniteSet(Readers) /\ IsFiniteSet(Unused)
    /\ Cardinality(Readers) \in Nat /\ Cardinality(Unused) \in Nat
<1>1. IsFiniteSet(Thread)
  <2> DEFINE f == [t \in Key |-> ThreadOf[t]]
  <2>1. f \in Surjection(Key, Thread)
    BY DEF Surjection, Thread
  <2> QED
    BY <2>1, FS_Surjection, TerminalAssumption
<1>2. Readers \in SUBSET Thread /\ Unused \in SUBSET Session
  BY DEF Readers, Unused
<1> QED
  BY <1>1, <1>2, FS_Subset, FS_CardinalityType, Numbers

(* What a step of one call, under its thread's lock, leaves to the others.     *)
LEMMA OtherCalls ==
    ASSUME CallInv, SessionInv, NEW h \in Thread,
           call' \in [Thread -> {NoCall} \cup CallSet],
           \A g \in Thread \ {h} : call'[g] = call[g],
           \A r \in Session : session[r].key # NoKey => session'[r].key = session[r].key,
           \A r \in Session :
             session[r].key \in Key /\ ThreadOf[session[r].key] # h /\ session[r].shell = None =>
               session'[r].shell = None,
           \A u \in Key : ThreadOf[u] # h => sessions'[u] \in {sessions[u], None},
           CallOK(h)', (Cardinality(Readers) <= Cardinality(Unused))'
    PROVE  CallInv'
<1>1. ASSUME NEW g \in Thread, g # h PROVE CallOK(g)'
  <2>1. PICK c : c = call[g]
    OBVIOUS
  <2>2. call'[g] = c /\ c \in {NoCall} \cup CallSet
    BY <1>1, <2>1 DEF CallInv
  <2>3. CASE c = NoCall
    BY <2>2, <2>3 DEF CallOK, NoCall
  <2>4. CASE c # NoCall
    <3>1. c.key \in Key /\ c.session \in Session \cup {None}
      BY <2>2, <2>4 DEF CallSet
    <3>2. /\ ThreadOf[c.key] = g
          /\ c.session # None =>
               /\ session[c.session].key = c.key
               /\ c.kind # "clear" => session[c.session].shell = None
          /\ c.step \in {"read", "delete"} => sessions[c.key] = None
          /\ c.kind \in {"close", "delete"} => sessions[c.key] \in {None, c.session}
      BY <2>1, <2>4 DEF CallInv, CallOK
    <3>3. c.session # None =>
               /\ session'[c.session].key = c.key
               /\ c.kind # "clear" => session'[c.session].shell = None
      BY <1>1, <3>1, <3>2, Numbers
    <3>4. sessions'[c.key] \in {sessions[c.key], None}
      BY <1>1, <3>1, <3>2
    <3>5. (c.step \in {"read", "delete"} => sessions'[c.key] = None)
          /\ (c.kind \in {"close", "delete"} => sessions'[c.key] \in {None, c.session})
      BY <3>2, <3>4
    <3> QED
      BY <2>2, <3>2, <3>3, <3>5 DEF CallOK
  <2> QED
    BY <2>3, <2>4
<1> QED
  BY <1>1 DEF CallInv, CallSet, NoCall

LEMMA CallsStand ==
    ASSUME CallInv, SessionInv, call' = call,
           \A r \in Session : /\ session'[r].key = session[r].key
                              /\ session'[r].status = "none" <=> session[r].status = "none"
                              /\ session[r].shell = None => session'[r].shell = None,
           \A u \in Key : sessions'[u] \in {sessions[u], None}
    PROVE  CallInv'
<1>1. Readers' = Readers /\ Unused' = Unused
  BY DEF Readers, Unused
<1>2. (Cardinality(Readers) <= Cardinality(Unused))'
  BY <1>1 DEF CallInv
<1>3. ASSUME NEW h \in Thread PROVE CallOK(h)'
  <2>1. PICK c : c = call[h]
    OBVIOUS
  <2>2. call'[h] = c /\ c \in {NoCall} \cup CallSet
    BY <2>1 DEF CallInv
  <2>3. CASE c = NoCall
    BY <2>2, <2>3 DEF CallOK, NoCall
  <2>4. CASE c # NoCall
    <3>1. c.key \in Key /\ c.session \in Session \cup {None}
      BY <2>2, <2>4 DEF CallSet
    <3>2. /\ ThreadOf[c.key] = h
          /\ c.session # None =>
               /\ session[c.session].key = c.key
               /\ c.kind # "clear" => session[c.session].shell = None
          /\ c.step \in {"read", "delete"} => sessions[c.key] = None
          /\ c.kind \in {"close", "delete"} => sessions[c.key] \in {None, c.session}
      BY <2>1, <2>4 DEF CallInv, CallOK
    <3>3. sessions'[c.key] \in {sessions[c.key], None}
      BY <3>1
    <3> QED
      BY <2>2, <3>1, <3>2, <3>3 DEF CallOK
  <2> QED
    BY <2>3, <2>4
<1> QED
  BY <1>2, <1>3 DEF CallInv, CallSet, NoCall

-----------------------------------------------------------------------------
(* What the steps do to sessions, shells and fibers.                          *)

(* A session that no call or fiber is about.                                   *)
KeepsPlace(r) ==
    session[r].shell # None /\ sessions[session[r].key] = r => sessions'[session[r].key] = r

(* A session is made or changed; its shell and the events waiting stay, or the *)
(* session is known to have lost events.                                      *)
LEMMA RecordKeeps ==
    ASSUME ShellInv, NEW s \in Session, NEW c \in SessionSet(outputs),
           session' = [session EXCEPT ![s] = c], outputs' = outputs, process' = process,
           \/ c.status # "none" /\ c.key \in Key
           \/ c.status = session[s].status /\ c.key = session[s].key,
           c.status = "running" <=> c.shell # None,
           c.pending # <<>> => c.draining, c.shell = session[s].shell,
           session[s].key # NoKey => c.key = session[s].key,
           c.shell # None => c.stray = session[s].stray,
           c.shell # None /\ HasExit(c.pending) => Waits(s),
           c.shell # None /\ ~c.lossy =>
             /\ ~session[s].lossy /\ (c.draining => session[s].draining)
             /\ Waits(s) => HasExit(c.pending),
           fiber' \in [Fiber -> {NoFiber} \cup FiberSet],
           \A f \in Fiber : \/ fiber'[f] = fiber[f]
                            \/ fiber'[f] = NoFiber /\ fiber[f].session = s /\ ~c.draining
                            \/ /\ fiber[f] # NoFiber /\ fiber'[f].step # "exited"
                               /\ fiber'[f].session = fiber[f].session
                               /\ fiber'[f].shell = fiber[f].shell,
           sessions' \in [Key -> Session \cup {None}],
           \A t \in Key : sessions'[t] # None => session'[sessions'[t]].key = t,
           \A r \in Session : KeepsPlace(r)
    PROVE  ShellInv'
<1>1. session \in [Session -> SessionSet(outputs)]
  BY DEF ShellInv, SessionInv
<1>2. session'[s] = c /\ \A r \in Session : r # s => session'[r] = session[r]
  BY <1>1
<1>3. SessionInv'
  <2>1. session' \in [Session -> SessionSet(outputs')]
    BY <1>1
  <2>2. \A r \in Session :
         /\ session'[r].status = "none" <=> session'[r].key = NoKey
         /\ session'[r].status = "running" <=> session'[r].shell # None
         /\ session'[r].pending # <<>> => session'[r].draining
    BY <1>2, Numbers DEF ShellInv, SessionInv
  <2> QED
    BY <2>1, <2>2 DEF SessionInv
<1>4. ASSUME NEW r \in Session
      PROVE  /\ session'[r].shell = session[r].shell
             /\ session'[r].shell # None =>
                  /\ session'[r].key = session[r].key /\ session[r].key \in Key
                  /\ session'[r].stray = session[r].stray
                  /\ Waits(r)' => Waits(r)
                  /\ ~session'[r].lossy =>
                       /\ ~session[r].lossy
                       /\ session'[r].draining => session[r].draining
                       /\ Waits(r) => Waits(r)'
  <2>1. session[r].shell # None => session[r].key \in Key
    BY <1>1 DEF ShellInv, SessionInv, SessionSet
  <2>2. CASE r = s
    BY <1>2, <2>1, <2>2, Numbers DEF Waits
  <2>3. CASE r # s
    BY <1>2, <2>1, <2>3 DEF Waits
  <2> QED
    BY <2>2, <2>3
<1>5. ProcessInv'
  <2>1. \A p \in Process :
         /\ process[p].owner # None => session'[process[p].owner].shell = p
         /\ process[p].state = "unborn" \/ process[p].killed => process[p].owner = None
         /\ process[p].state = "unborn" => ~process[p].killed
         /\ process[p].state = "alive" => process[p].killed \/ process[p].owner # None
    BY <1>4 DEF ShellInv, ProcessInv
  <2>2. ASSUME NEW r \in Session, session'[r].shell # None
        PROVE  /\ process[session'[r].shell].owner = r
               /\ sessions'[session'[r].key] = r \/ session'[r].stray
               /\ Waits(r)' => process[session'[r].shell].state = "dead"
    BY <1>4, <2>2 DEF ShellInv, ProcessInv, KeepsPlace
  <2> QED
    BY <2>1, <2>2 DEF ShellInv, ProcessInv
<1>6. FiberInv'
  <2>1. ASSUME NEW f \in Fiber, fiber'[f] # NoFiber
        PROVE  /\ process'[fiber'[f].shell].state # "unborn"
               /\ fiber'[f].step = "exited" => process'[fiber'[f].shell].owner = None
    BY <2>1 DEF ShellInv, FiberInv
  <2>2. ASSUME NEW r \in Session, session'[r].shell # None, ~session'[r].lossy
        PROVE  /\ session'[r].draining => \E f \in Fiber : Serves(f, r)'
               /\ process'[session'[r].shell].state = "dead" => Waits(r)'
    <3>1. /\ session[r].shell # None /\ ~session[r].lossy
          /\ session'[r].draining => session[r].draining
          /\ session'[r].shell = session[r].shell /\ (Waits(r) => Waits(r)')
      BY <1>4, <2>2
    <3>2. ASSUME NEW f \in Fiber, Serves(f, r), session'[r].draining PROVE Serves(f, r)'
      BY <1>2, <3>1, <3>2 DEF Serves
    <3> QED
      BY <3>1, <3>2 DEF ShellInv, FiberInv
  <2> QED
    BY <2>1, <2>2 DEF FiberInv, FiberSet, NoFiber
<1> QED
  BY <1>3, <1>5, <1>6 DEF ShellInv

(* A session's shell is gone: killed, dead, or never started.                  *)
LEMMA HaltKeeps ==
    ASSUME ShellInv, NEW s \in Session, NEW c \in SessionSet(outputs),
           session' = [session EXCEPT ![s] = c], outputs' = outputs,
           c.status \in {"exited", "error"}, c.key = session[s].key, c.key \in Key,
           c.shell = None, c.pending = <<>>,
           process' \in [Process -> ProcessSet],
           \A p \in Process : p # session[s].shell => process'[p] = process[p],
           session[s].shell # None =>
             /\ process'[session[s].shell].owner = None
             /\ process'[session[s].shell].state # "unborn"
             /\ \/ process'[session[s].shell].killed
                \/ process'[session[s].shell].state # "alive",
           fiber' \in [Fiber -> {NoFiber} \cup FiberSet],
           \A f \in Fiber : \/ fiber'[f] = fiber[f]
                            \/ /\ fiber[f] # NoFiber /\ fiber'[f].session = s
                               /\ fiber'[f].shell = session[s].shell
                               /\ fiber[f].session = s /\ fiber[f].shell = session[s].shell,
           sessions' \in [Key -> Session \cup {None}],
           \A t \in Key : sessions'[t] # None => session'[sessions'[t]].key = t,
           \A r \in Session \ {s} : KeepsPlace(r)
    PROVE  ShellInv'
<1>1. session \in [Session -> SessionSet(outputs)]
  BY DEF ShellInv, SessionInv
<1>2. session'[s] = c /\ \A r \in Session : r # s => session'[r] = session[r]
  BY <1>1
<1>3. SessionInv'
  <2>1. session' \in [Session -> SessionSet(outputs')]
    BY <1>1
  <2>2. \A r \in Session :
         /\ session'[r].status = "none" <=> session'[r].key = NoKey
         /\ session'[r].status = "running" <=> session'[r].shell # None
         /\ session'[r].pending # <<>> => session'[r].draining
    BY <1>2, Numbers DEF ShellInv, SessionInv
  <2> QED
    BY <2>1, <2>2 DEF SessionInv
<1>4. PICK x : x = session[s].shell
  OBVIOUS
<1>5. x \in Process \cup {None} /\ (x # None => process[x].owner = s /\ process[x].state # "unborn")
  <2>1. x \in Process \cup {None}
    BY <1>1, <1>4 DEF SessionSet
  <2>2. x # None => process[x].owner = s
    BY <1>4 DEF ShellInv, ProcessInv
  <2>3. x # None /\ process[x].state = "unborn" => process[x].owner = None
    BY <2>1 DEF ShellInv, ProcessInv
  <2> QED
    BY <2>1, <2>2, <2>3, Numbers DEF None
<1>6. ProcessInv'
  <2>1. ASSUME NEW p \in Process
        PROVE  /\ process'[p].owner # None => session'[process'[p].owner].shell = p
               /\ process'[p].state = "unborn" \/ process'[p].killed => process'[p].owner = None
               /\ process'[p].state = "unborn" => ~process'[p].killed
               /\ process'[p].state = "alive" => process'[p].killed \/ process'[p].owner # None
    <3>1. CASE p = x
      BY <1>4, <1>5, <3>1, Numbers DEF None
    <3>2. CASE p # x
      <4>1. process'[p] = process[p] /\ process[p].owner # s
        BY <1>4, <3>2, Numbers DEF ShellInv, ProcessInv, None
      <4> QED
        BY <1>2, <4>1 DEF ShellInv, ProcessInv
    <3> QED
      BY <3>1, <3>2
  <2>2. ASSUME NEW r \in Session, session'[r].shell # None
        PROVE  /\ process'[session'[r].shell].owner = r
               /\ sessions'[session'[r].key] = r \/ session'[r].stray
               /\ Waits(r)' => process'[session'[r].shell].state = "dead"
    <3>1. r # s /\ session'[r] = session[r]
      BY <1>2, <2>2
    <3>2. session[r].shell \in Process /\ process[session[r].shell].owner = r
      BY <1>1, <2>2, <3>1 DEF ShellInv, ProcessInv, SessionSet
    <3>3. session[r].shell # x
      BY <1>5, <2>2, <3>1, <3>2
    <3>4. process'[session[r].shell] = process[session[r].shell]
      BY <1>4, <3>2, <3>3
    <3> QED
      BY <2>2, <3>1, <3>2, <3>4 DEF ShellInv, ProcessInv, KeepsPlace, Waits
  <2> QED
    BY <2>1, <2>2 DEF ShellInv, ProcessInv
<1>7. FiberInv'
  <2>1. ASSUME NEW f \in Fiber, fiber'[f] # NoFiber
        PROVE  /\ process'[fiber'[f].shell].state # "unborn"
               /\ fiber'[f].step = "exited" => process'[fiber'[f].shell].owner = None
    <3>1. fiber[f] # NoFiber /\ fiber'[f].shell = fiber[f].shell /\ fiber[f].shell \in Process
      BY <2>1 DEF ShellInv, FiberInv, FiberSet
    <3>2. CASE fiber[f].shell = x
      BY <1>4, <1>5, <3>1, <3>2, Numbers DEF None
    <3>3. CASE fiber[f].shell # x
      <4>1. process'[fiber[f].shell] = process[fiber[f].shell] /\ fiber'[f] = fiber[f]
        BY <1>4, <3>1, <3>3
      <4> QED
        BY <3>1, <4>1 DEF ShellInv, FiberInv
    <3> QED
      BY <3>2, <3>3
  <2>2. ASSUME NEW r \in Session, session'[r].shell # None, ~session'[r].lossy
        PROVE  /\ session'[r].draining => \E f \in Fiber : Serves(f, r)'
               /\ process'[session'[r].shell].state = "dead" => Waits(r)'
    <3>1. r # s /\ session'[r] = session[r]
      BY <1>2, <2>2
    <3>2. session[r].shell \in Process /\ process[session[r].shell].owner = r
      BY <1>1, <2>2, <3>1 DEF ShellInv, ProcessInv, SessionSet
    <3>3. session[r].shell # x
      BY <1>5, <2>2, <3>1, <3>2
    <3>4. process'[session[r].shell] = process[session[r].shell]
      BY <1>4, <3>2, <3>3
    <3>5. \A f \in Fiber : Serves(f, r) => Serves(f, r)'
      BY <3>1 DEF Serves
    <3> QED
      BY <2>2, <3>1, <3>4, <3>5 DEF ShellInv, FiberInv, Waits
  <2> QED
    BY <2>1, <2>2 DEF FiberInv, FiberSet, NoFiber
<1> QED
  BY <1>3, <1>6, <1>7 DEF ShellInv

(* What a step leaves of the sessions for the calls of others.                *)
KeepsSessions ==
    /\ \A r \in Session : /\ session'[r].key = session[r].key
                          /\ session'[r].status = "none" <=> session[r].status = "none"
                          /\ session[r].shell = None => session'[r].shell = None
    /\ \A u \in Key : sessions'[u] \in {sessions[u], None}

(* Evicting from the map, once the sessions' statuses are ss.                  *)
LEMMA EvictStep ==
    ASSUME ShellInv, NEW ss, NEW o, sessions' = Evict(sessions, ss, o), NEW s,
           \A r \in Session \ {s} : ss[r].status = session[r].status,
           \A r \in Session : session'[r].key = session[r].key
    PROVE  /\ sessions' \in [Key -> Session \cup {None}]
           /\ \A t \in Key : sessions'[t] # None => session'[sessions'[t]].key = t
           /\ \A u \in Key : sessions'[u] \in {sessions[u], None}
           /\ \A r \in Session \ {s} : KeepsPlace(r)
<1>1. /\ sessions' \in [Key -> Session \cup {None}]
      /\ \A t \in Key : sessions'[t] = sessions[t]
                        \/ (sessions'[t] = None /\ ss[sessions[t]].status # "running")
  BY EvictKeeps DEF ShellInv, SessionInv
<1>2. ASSUME NEW t \in Key, sessions'[t] # None PROVE session'[sessions'[t]].key = t
  <2>1. sessions'[t] = sessions[t] /\ sessions[t] \in Session
    BY <1>1, <1>2 DEF ShellInv, SessionInv
  <2> QED
    BY <1>2, <2>1 DEF ShellInv, SessionInv
<1>3. ASSUME NEW r \in Session \ {s}, session[r].shell # None, sessions[session[r].key] = r
      PROVE  sessions'[session[r].key] = r
  <2>1. session[r].status = "running" /\ session[r].key \in Key
    BY <1>3 DEF ShellInv, SessionInv, SessionSet
  <2> QED
    BY <1>1, <1>3, <2>1
<1> QED
  BY <1>1, <1>2, <1>3 DEF KeepsPlace

LEMMA StopKeeps ==
    ASSUME QueueInv, ItemInv, ShellInv, FileInv, NEW t \in Key, NEW s \in Session,
           sessions[t] = s, NEW history \in SUBSET (1 .. outputs),
           StopAndPersist(s, history), UNCHANGED <<fiber, storage, outputs>>
    PROVE  /\ QueueInv' /\ ItemInv' /\ ShellInv' /\ FileInv' /\ KeepsSessions
           /\ session'[s].shell = None
<1>1. PICK a, p : a = session[s] /\ p = session[s].shell
  OBVIOUS
<1>2. /\ session \in [Session -> SessionSet(outputs)] /\ a \in SessionSet(outputs)
      /\ a.key = t /\ a.status # "none" /\ (a.status = "running" <=> a.shell # None)
      /\ a.pending # <<>> => a.draining
  BY <1>1, Numbers DEF ShellInv, SessionInv, None
<1>3. PICK e : e = IF p = None THEN a
                   ELSE [a EXCEPT !.status = "exited", !.shell = None,
                                  !.pending = <<>>, !.draining = FALSE]
  OBVIOUS
<1>4. PICK ss : ss = [session EXCEPT ![s] = e]
  OBVIOUS
<1>5. PICK c : c = [e EXCEPT !.history = history]
  OBVIOUS
<1>6. /\ e \in SessionSet(outputs) /\ e.shell = None
      /\ e.key = t /\ e.status # "none" /\ e.status # "running"
      /\ e.pending # <<>> => e.draining
      /\ e.stray = a.stray /\ e.lossy = a.lossy
      /\ p # None => e.status = "exited" /\ e.pending = <<>>
      /\ p = None => e = a
  <2>1. CASE p = None
    BY <1>1, <1>2, <1>3, <2>1
  <2>2. CASE p # None
    <3>1. <<>> \in Seq(0 .. outputs) /\ None \in Process \cup {None}
      BY EmptySeq
    <3> QED
      BY <1>2, <1>3, <2>2, <3>1 DEF SessionSet
  <2> QED
    BY <2>1, <2>2
<1>7. /\ c \in SessionSet(outputs) /\ c.shell = None /\ c.history = history
      /\ c.key = t /\ c.status = e.status /\ c.pending = e.pending /\ c.draining = e.draining
      /\ c.stray = a.stray /\ c.lossy = e.lossy
  BY <1>5, <1>6 DEF SessionSet
<1>8. session' = [session EXCEPT ![s] = c]
  <2>1. (IF p = None THEN session ELSE Halted(s, "exited")) = ss
    <3>1. CASE p = None
      BY <1>1, <1>2, <1>3, <1>4, <3>1
    <3>2. CASE p # None
      BY <1>1, <1>3, <1>4, <3>2 DEF Halted
    <3> QED
      BY <3>1, <3>2
  <2>2. session' = [ss EXCEPT ![s].history = history]
    BY <1>1, <2>1 DEF StopAndPersist
  <2>3. ss[s] = e
    BY <1>2, <1>4
  <2> QED
    BY <1>2, <1>4, <1>5, <2>2, <2>3
<1>9. session'[s] = c /\ \A r \in Session \ {s} : session'[r] = session[r] /\ ss[r] = session[r]
  BY <1>2, <1>4, <1>8
<1>10. Persist(t, history) /\ UNCHANGED <<fiber, storage, outputs>>
  BY <1>1, <1>2 DEF StopAndPersist
<1>11. QueueInv' /\ ItemInv'
  BY <1>10, PersistKeeps
<1>12. /\ sessions' \in [Key -> Session \cup {None}]
       /\ \A u \in Key : sessions'[u] # None => session'[sessions'[u]].key = u
       /\ \A u \in Key : sessions'[u] \in {sessions[u], None}
       /\ \A r \in Session \ {s} : KeepsPlace(r)
  <2>1. \A r \in Session : session'[r].key = session[r].key
    BY <1>1, <1>2, <1>7, <1>9
  <2>2. CASE p = None
    <3>1. sessions' = sessions
      BY <1>1, <2>2 DEF StopAndPersist
    <3> QED
      BY <2>1, <3>1 DEF ShellInv, SessionInv, KeepsPlace
  <2>3. CASE p # None
    <3>1. PICK o : o = order'
      OBVIOUS
    <3>2. ss = Halted(s, "exited")
      BY <1>1, <1>3, <1>4, <2>3 DEF Halted
    <3>3. sessions' = Evict(sessions, ss, o)
      BY <1>1, <2>3, <3>1, <3>2 DEF StopAndPersist
    <3> QED
      BY <1>9, <2>1, <3>3, EvictStep
  <2> QED
    BY <2>2, <2>3
<1>13. fiber' \in [Fiber -> {NoFiber} \cup FiberSet] /\ fiber' = fiber
  BY <1>10 DEF ShellInv, FiberInv, FiberSet
<1>14. ShellInv'
  <2>1. CASE p = None
    <3>1. process' = process
      BY <1>1, <2>1 DEF StopAndPersist
    <3>2. KeepsPlace(s)
      BY <1>1, <2>1 DEF KeepsPlace
    <3> QED
      BY <1>1, <1>2, <1>6, <1>7, <1>8, <1>10, <1>12, <1>13, <2>1, <3>1, <3>2, RecordKeeps
  <2>2. CASE p # None
    <3>1. p \in Process
      BY <1>1, <1>2, <2>2 DEF SessionSet
    <3>2. PICK q : q = process[p]
      OBVIOUS
    <3>3. PICK d \in Kill(q) : process' = [process EXCEPT ![p] = d]
      BY <1>1, <2>2, <3>2 DEF StopAndPersist
    <3>4. q \in ProcessSet /\ q.state # "unborn"
      <4>1. q \in ProcessSet /\ q.owner = s
        BY <1>1, <2>2, <3>1, <3>2 DEF ShellInv, ProcessInv
      <4> QED
        BY <1>1, <3>1, <3>2, <4>1, Numbers DEF ShellInv, ProcessInv, None
    <3>5. d \in ProcessSet /\ d.owner = None /\ d.state # "unborn" /\ (d.killed \/ d.state # "alive")
      <4>1. CASE d = [q EXCEPT !.owner = None, !.killed = TRUE]
        BY <3>4, <4>1 DEF ProcessSet
      <4>2. CASE d = [q EXCEPT !.owner = None, !.state = Escaped(@)]
        BY <3>4, <4>2 DEF ProcessSet, Escaped
      <4> QED
        BY <3>3, <4>1, <4>2 DEF Kill
    <3>6. /\ process' \in [Process -> ProcessSet]
          /\ process'[p] = d /\ \A x \in Process : x # p => process'[x] = process[x]
      BY <3>1, <3>3, <3>5 DEF ShellInv, ProcessInv
    <3>7. /\ \A x \in Process : x # session[s].shell => process'[x] = process[x]
          /\ process'[session[s].shell].owner = None /\ process'[session[s].shell].state # "unborn"
          /\ \/ process'[session[s].shell].killed
             \/ process'[session[s].shell].state # "alive"
      BY <1>1, <3>5, <3>6
    <3>8. /\ c.status \in {"exited", "error"} /\ c.key = session[s].key /\ c.key \in Key
          /\ c.shell = None /\ c.pending = <<>> /\ c \in SessionSet(outputs)
      BY <1>1, <1>2, <1>6, <1>7, <2>2
    <3> QED
      BY <1>8, <1>10, <1>12, <1>13, <3>6, <3>7, <3>8, HaltKeeps
  <2> QED
    BY <2>1, <2>2
<1>15. KeepsSessions
  <2>1. session'[s].status # "none"
    BY <1>6, <1>7, <1>9
  <2> QED
    BY <1>1, <1>2, <1>7, <1>9, <1>12, <2>1 DEF KeepsSessions
<1>16. FileInv'
  <2>1. ASSUME NEW u \in Key \ {t} PROVE Shown(u)' \subseteq Shown(u)
    <3>1. sessions[u] # None => sessions[u] \in Session \ {s}
      BY <1>1, <1>2, <2>1 DEF ShellInv, SessionInv
    <3>2. \A r \in Session : session[r].stray /\ session[r].key = u =>
            session'[r].stray /\ session'[r].key = u
      BY <1>1, <1>2, <1>9, <2>1
    <3> QED
      BY <1>9, <1>12, <2>1, <3>1, <3>2, ShowsNoMore
  <2>2. Shown(t)' \subseteq {history}
    BY <1>7, <1>9, <1>12 DEF Shown
  <2> QED
    BY <1>10, <2>1, <2>2, FileOnPersist
<1> QED
  BY <1>7, <1>9, <1>11, <1>14, <1>15, <1>16

(* A new session takes the terminal's place in the map.                        *)
LEMMA MakeKeeps ==
    ASSUME ShellInv, NEW t \in Key, sessions[t] = None, Unused # {},
           NEW history \in SUBSET (1 .. outputs), outputs \in Nat,
           Make(t, history), UNCHANGED <<process, fiber, outputs>>, NEW n, n = NextSession
    PROVE  /\ ShellInv' /\ n \in Unused /\ Unused' = Unused \ {n}
           /\ session'[n].key = t /\ session'[n].shell = None /\ ~session'[n].stray
           /\ session'[n].history = history
           /\ \A r \in Session \ {n} : session'[r] = session[r]
           /\ session[n].key = NoKey
           /\ sessions'[t] \in {n, None}
           /\ \A u \in Key \ {t} : sessions'[u] \in {sessions[u], None}
<1>1. n \in Unused /\ n \in Session
  <2>1. Unused \in SUBSET Nat
    BY Numbers DEF Unused
  <2> QED
    BY <2>1, MinOf DEF NextSession, Unused
<1>2. /\ session \in [Session -> SessionSet(outputs)] /\ session[n].status = "none"
      /\ session[n].key = NoKey /\ session[n].shell = None
  BY <1>1 DEF Unused, ShellInv, SessionInv
<1>3. PICK v, c : v = Unmade /\ c = [v EXCEPT !.key = t, !.status = "starting", !.history = history]
  OBVIOUS
<1>4. /\ c \in SessionSet(outputs) /\ c.key = t /\ c.status = "starting" /\ c.shell = None
      /\ c.history = history /\ c.pending = <<>> /\ c.stray = FALSE /\ c.lossy = FALSE
      /\ c.draining = FALSE
  <2>1. <<>> \in Seq(0 .. outputs) /\ None \in Process \cup {None}
    BY EmptySeq
  <2>2. /\ v.pending = <<>> /\ v.stray = FALSE /\ v.shell = None /\ v.lossy = FALSE
        /\ v.draining = FALSE /\ v \in SessionSet(outputs)
    BY <1>3, <2>1 DEF Unmade, SessionSet
  <2> QED
    BY <1>3, <2>2 DEF SessionSet
<1>5. session' = [session EXCEPT ![n] = c]
  BY <1>3 DEF Make
<1>6. session'[n] = c /\ \A r \in Session \ {n} : session'[r] = session[r]
  BY <1>1, <1>2, <1>5
<1>7. Unused' = Unused \ {n}
  BY <1>4, <1>6 DEF Unused
<1>8. PICK m, ss, o : m = [sessions EXCEPT ![t] = n] /\ ss = session' /\ o = order'
  OBVIOUS
<1>9. /\ m \in [Key -> Session \cup {None}] /\ m[t] = n
      /\ \A u \in Key \ {t} : m[u] = sessions[u]
  BY <1>1, <1>8 DEF ShellInv, SessionInv
<1>10. sessions' = Evict(m, ss, o)
  BY <1>8 DEF Make
<1>11. /\ sessions' \in [Key -> Session \cup {None}]
       /\ \A u \in Key : sessions'[u] = m[u]
                         \/ (sessions'[u] = None /\ ss[m[u]].status # "running")
  BY <1>9, <1>10, EvictKeeps
<1>12. ASSUME NEW u \in Key, sessions'[u] # None PROVE session'[sessions'[u]].key = u
  <2>1. sessions'[u] = m[u]
    BY <1>11, <1>12
  <2>2. CASE u = t
    BY <1>4, <1>6, <1>9, <2>1, <2>2
  <2>3. CASE u # t
    <3>1. sessions'[u] = sessions[u] /\ sessions[u] \in Session /\ session[sessions[u]].key = u
      BY <1>9, <1>12, <2>1, <2>3 DEF ShellInv, SessionInv
    <3>2. sessions[u] # n
      BY <1>2, <3>1, Numbers
    <3> QED
      BY <1>6, <3>1, <3>2
  <2> QED
    BY <2>2, <2>3
<1>13. ASSUME NEW r \in Session, session[r].shell # None, sessions[session[r].key] = r
       PROVE  sessions'[session[r].key] = r
  <2>1. session[r].status = "running" /\ session[r].key \in Key /\ r # n
    BY <1>2, <1>13 DEF ShellInv, SessionInv, SessionSet
  <2>2. session[r].key # t
    BY <1>13, Numbers DEF None
  <2>3. m[session[r].key] = r /\ ss[r].status = "running"
    BY <1>6, <1>8, <1>9, <1>13, <2>1, <2>2
  <2> QED
    BY <1>11, <2>1, <2>3
<1>14. ShellInv'
  <2>1. \A r \in Session : KeepsPlace(r)
    BY <1>13 DEF KeepsPlace
  <2>2. fiber' \in [Fiber -> {NoFiber} \cup FiberSet] /\ \A f \in Fiber : fiber'[f] = fiber[f]
    BY DEF ShellInv, FiberInv, FiberSet
  <2> QED
    BY <1>1, <1>2, <1>4, <1>5, <1>11, <1>12, <2>1, <2>2, RecordKeeps
<1> QED
  BY <1>1, <1>2, <1>4, <1>6, <1>7, <1>9, <1>11, <1>14

-----------------------------------------------------------------------------
(* The calls.                                                                 *)

(* Every call that still has to make a session finds one.                     *)
Room(h, b) ==
    \/ b.step # "read" /\ Unused' = Unused
    \/ b.step # "read" /\ call[h].step = "read" /\ \E n \in Unused : Unused' = Unused \ {n}
    \/ b.step # "read" /\ SessionIsLeft /\ \E n : Unused' = Unused \ {n}
    \/ b.step = "read" /\ SessionIsLeft /\ Unused' = Unused

LEMMA CallGoes ==
    ASSUME CallInv, SessionInv, NEW h \in Thread, NEW b \in {NoCall} \cup CallSet,
           call' = [call EXCEPT ![h] = b], Room(h, b),
           b # NoCall =>
             /\ ThreadOf[b.key] = h
             /\ b.session # None => /\ session'[b.session].key = b.key
                                    /\ b.kind # "clear" => session'[b.session].shell = None
             /\ b.step \in {"read", "delete"} => sessions'[b.key] = None
             /\ b.kind \in {"close", "delete"} => sessions'[b.key] \in {None, b.session},
           \A r \in Session : session[r].key # NoKey => session'[r].key = session[r].key,
           \A r \in Session :
             session[r].key \in Key /\ ThreadOf[session[r].key] # h /\ session[r].shell = None =>
               session'[r].shell = None,
           \A u \in Key : ThreadOf[u] # h => sessions'[u] \in {sessions[u], None}
    PROVE  CallInv'
<1>1. /\ call' \in [Thread -> {NoCall} \cup CallSet] /\ call'[h] = b
      /\ \A g \in Thread \ {h} : call'[g] = call[g]
  BY DEF CallInv
<1>2. CallOK(h)'
  BY <1>1 DEF CallOK, NoCall
<1>3. PICK R, U, k, m : R = Readers /\ U = Unused /\ k = Cardinality(R) /\ m = Cardinality(U)
  OBVIOUS
<1>4. IsFiniteSet(R) /\ IsFiniteSet(U) /\ k \in Nat /\ m \in Nat /\ k <= m
  BY <1>3, SessionsAreFinite DEF CallInv
<1>5. PICK R2, U2 : R2 = Readers' /\ U2 = Unused'
  OBVIOUS
<1>6. R2 = IF b.step = "read" THEN R \cup {h} ELSE R \ {h}
  BY <1>1, <1>3, <1>5 DEF Readers
<1>7. SessionIsLeft => m > k
  BY <1>3 DEF SessionIsLeft, Readers
<1>8. /\ Cardinality(R \ {h}) = IF h \in R THEN k - 1 ELSE k
      /\ Cardinality(R \cup {h}) <= k + 1
      /\ \A n : Cardinality(U \ {n}) = IF n \in U THEN m - 1 ELSE m
  <2>1. Cardinality(R \ {h}) = IF h \in R THEN k - 1 ELSE k
    BY <1>3, <1>4, FS_RemoveElement
  <2>2. Cardinality(R \cup {h}) = IF h \in R THEN k ELSE k + 1
    BY <1>3, <1>4, FS_AddElement
  <2>3. \A n : Cardinality(U \ {n}) = IF n \in U THEN m - 1 ELSE m
    BY <1>3, <1>4, FS_RemoveElement
  <2> QED
    BY <1>4, <2>1, <2>2, <2>3
<1>9. Cardinality(R2) <= Cardinality(U2)
  <2>1. CASE b.step # "read" /\ U2 = U
    BY <1>3, <1>4, <1>6, <1>8, <2>1
  <2>2. CASE b.step # "read" /\ call[h].step = "read" /\ \E n \in U : U2 = U \ {n}
    <3>1. h \in R
      BY <1>3, <2>2 DEF Readers
    <3>2. PICK n \in U : U2 = U \ {n}
      BY <2>2
    <3>3. Cardinality(U2) = m - 1 /\ Cardinality(R2) = k - 1
      BY <1>6, <1>8, <2>2, <3>1, <3>2
    <3> QED
      BY <1>4, <3>3
  <2>3. CASE b.step # "read" /\ SessionIsLeft /\ \E n : U2 = U \ {n}
    <3>1. Cardinality(R2) \in {k, k - 1} /\ Cardinality(U2) \in {m, m - 1} /\ m > k
      BY <1>6, <1>7, <1>8, <2>3
    <3> QED
      BY <1>4, <3>1
  <2>4. CASE b.step = "read" /\ SessionIsLeft /\ U2 = U
    <3>1. IsFiniteSet(R \cup {h})
      BY <1>4, FS_AddElement
    <3>2. Cardinality(R2) \in Nat /\ Cardinality(R2) <= k + 1 /\ Cardinality(U2) = m /\ m > k
      BY <1>3, <1>6, <1>7, <1>8, <2>4, <3>1, FS_CardinalityType
    <3> QED
      BY <1>4, <3>2
  <2> QED
    BY <1>3, <1>5, <2>1, <2>2, <2>3, <2>4 DEF Room
<1> QED
  BY <1>1, <1>2, <1>5, <1>9, OtherCalls

LEMMA OpenNewKeeps ==
    ASSUME TerminalInv, NEW t \in Key, OpenNew(t)
    PROVE  TerminalInv'
<1>1. PICK h, b : h = ThreadOf[t] /\ b = [kind |-> "open", key |-> t, session |-> None, step |-> "read"]
  OBVIOUS
<1>2. /\ h \in Thread /\ b \in CallSet /\ call' = [call EXCEPT ![h] = b]
      /\ b.key = t /\ b.session = None /\ b.step = "read" /\ b.kind = "open"
  BY <1>1 DEF OpenNew, Begin, Thread, CallSet
<1>3. /\ sessions' = sessions /\ session' = session /\ sessions[t] = None /\ SessionIsLeft
      /\ UNCHANGED <<worker, texts, storage, process, fiber, outputs>>
  BY DEF OpenNew, manager, Exists
<1>4. QueueInv' /\ ItemInv'
  BY <1>3, WorkerStands DEF TerminalInv, ItemInv
<1>5. ShellInv'
  BY <1>3 DEF TerminalInv, ShellInv, SessionInv, ProcessInv, FiberInv, Waits, Serves
<1>6. CallInv'
  <2>1. Room(h, b)
    BY <1>2, <1>3 DEF Room, Unused
  <2> QED
    BY <1>1, <1>2, <1>3, <2>1, CallGoes DEF TerminalInv, ShellInv
<1>7. FileInv'
  <2>1. \A u \in Key : Shown(u)' \subseteq Shown(u)
    BY <1>3 DEF Shown, Stray
  <2> QED
    BY <1>3, <2>1, FileStands DEF TerminalInv, ItemInv
<1> QED
  BY <1>4, <1>5, <1>6, <1>7 DEF TerminalInv

(* What a call that is under way holds.                                       *)
LEMMA Held ==
    ASSUME CallInv, SessionInv, NEW h \in Thread, NEW c, c = call[h], c # NoCall
    PROVE  /\ c \in CallSet /\ c.key \in Key /\ ThreadOf[c.key] = h
           /\ c.session \in Session \cup {None}
           /\ c.session # None =>
                /\ session[c.session].key = c.key /\ session[c.session].status # "none"
                /\ c.kind # "clear" => session[c.session].shell = None
           /\ c.step \in {"read", "delete"} => sessions[c.key] = None
           /\ c.kind \in {"close", "delete"} => sessions[c.key] \in {None, c.session}
           /\ c.kind \in {"open", "restart"} /\ c.step # "read" => c.session \in Session
<1>1. c \in CallSet
  BY DEF CallInv
<1>2. /\ c.key \in Key /\ c.session \in Session \cup {None}
      /\ c.kind \in {"open", "restart"} /\ c.step # "read" => c.session \in Session
  BY <1>1 DEF CallSet
<1>3. CallOK(h)
  BY DEF CallInv
<1>4. c.session # None => session[c.session].key = c.key /\ session[c.session].status # "none"
  BY <1>2, <1>3, Numbers DEF CallOK, SessionInv
<1> QED
  BY <1>1, <1>2, <1>3, <1>4 DEF CallOK

LEMMA ReadHistoryKeeps ==
    ASSUME TerminalInv, NEW h \in Thread, ReadHistory(h)
    PROVE  TerminalInv'
<1>1. PICK c, n : c = call[h] /\ n = NextSession
  OBVIOUS
<1>2. c.step = "read" /\ Drained(c.key) /\ c # NoCall
  BY <1>1 DEF ReadHistory, NoCall
<1>3. /\ c \in CallSet /\ c.key \in Key /\ ThreadOf[c.key] = h /\ sessions[c.key] = None
      /\ c.kind = "open"
  <2>1. /\ c \in CallSet /\ c.key \in Key /\ ThreadOf[c.key] = h
        /\ c.step \in {"read", "delete"} => sessions[c.key] = None
    BY <1>1, <1>2, Held DEF TerminalInv, ShellInv
  <2> QED
    BY <1>2, <2>1 DEF CallSet
<1>4. PICK t : t = c.key
  OBVIOUS
<1>5. PICK text : text = IF file[t] = NoFile THEN {} ELSE file[t]
  OBVIOUS
<1>6. text \in SUBSET (1 .. outputs) /\ Matches(file[t], text) /\ outputs \in Nat
  BY <1>3, <1>4, <1>5 DEF TerminalInv, FileInv, ItemInv, Matches
<1>7. Unused # {}
  <2>1. h \in Readers
    BY <1>1, <1>2 DEF Readers
  <2>2. Cardinality(Readers) # 0
    BY <2>1, SessionsAreFinite, FS_EmptySet
  <2>3. Cardinality(Unused) # 0
    BY <2>2, SessionsAreFinite DEF TerminalInv, CallInv
  <2> QED
    BY <2>3, FS_EmptySet
<1>8. Make(t, text) /\ UNCHANGED <<worker, process, fiber, storage, texts, outputs>>
  BY <1>1, <1>4, <1>5 DEF ReadHistory
<1>9. /\ ShellInv' /\ n \in Unused /\ Unused' = Unused \ {n}
      /\ session'[n].key = t /\ session'[n].shell = None /\ ~session'[n].stray
      /\ session'[n].history = text
      /\ \A r \in Session \ {n} : session'[r] = session[r]
      /\ session[n].key = NoKey
      /\ sessions'[t] \in {n, None}
      /\ \A u \in Key \ {t} : sessions'[u] \in {sessions[u], None}
  BY <1>1, <1>3, <1>4, <1>6, <1>7, <1>8, MakeKeeps DEF TerminalInv
<1>10. QueueInv' /\ ItemInv'
  BY <1>6, <1>8, WorkerStands DEF TerminalInv
<1>11. CallInv'
  <2>1. PICK b : b = [c EXCEPT !.session = n, !.step = "spawn"]
    OBVIOUS
  <2>2. call' = [call EXCEPT ![h] = b]
    BY <1>1, <2>1 DEF ReadHistory, TerminalInv, CallInv
  <2>3. /\ b \in CallSet /\ b.key = t /\ b.session = n /\ b.step = "spawn" /\ b.kind = "open"
    BY <1>3, <1>4, <1>9, <2>1 DEF CallSet, Unused
  <2>4. Room(h, b)
    BY <1>1, <1>2, <1>9, <2>3 DEF Room
  <2>5. \A r \in Session : session[r].key # NoKey => session'[r] = session[r]
    BY <1>9
  <2>6. \A r \in Session : session[r].key \in Key => session'[r] = session[r]
    BY <2>5, Numbers
  <2>7. \A u \in Key : ThreadOf[u] # h => sessions'[u] \in {sessions[u], None}
    BY <1>3, <1>4, <1>9
  <2> QED
    BY <1>3, <1>4, <1>9, <2>2, <2>3, <2>4, <2>5, <2>6, <2>7, CallGoes DEF TerminalInv, ShellInv
<1>12. FileInv'
  <2>1. ASSUME NEW u \in Key \ {t} PROVE Shown(u)' \subseteq Shown(u)
    <3>1. sessions[u] # None => sessions[u] \in Session /\ session[sessions[u]].key = u
      BY <2>1 DEF TerminalInv, ShellInv, SessionInv
    <3>2. \A r \in Session : session[r].key = u => session'[r] = session[r]
      BY <1>9, <2>1, Numbers
    <3> QED
      BY <1>9, <2>1, <3>1, <3>2, ShowsNoMore
  <2>2. Shown(t)' \subseteq {text}
    BY <1>9 DEF Shown
  <2>3. /\ latestByKey' = latestByKey /\ running' = running /\ texts' = texts
        /\ file' = file /\ broken' = broken /\ outputs' = outputs
    BY <1>8 DEF worker, storage
  <2>4. latestByKey[t] = {} /\ running.key # t
    BY <1>2, <1>3, <1>4, Numbers DEF Drained, TerminalInv, ItemInv, Idle
  <2>5. ASSUME NEW u \in Key, NEW history, history \in Shown(u)'
        PROVE  IF latestByKey[u] # {} THEN texts[Max(latestByKey[u])] = history
               ELSE IF running.key = u THEN texts[Max(running.value)] = history
               ELSE u \notin broken => Matches(file[u], history)
    <3>1. CASE u = t
      BY <1>6, <2>2, <2>4, <2>5, <3>1
    <3>2. CASE u # t
      BY <2>1, <2>5, <3>2 DEF TerminalInv, FileInv
    <3> QED
      BY <3>1, <3>2
  <2> QED
    BY <2>3, <2>5 DEF TerminalInv, FileInv
<1> QED
  BY <1>9, <1>10, <1>11, <1>12 DEF TerminalInv

(* A call that stops a session's shell.                                       *)
LEMMA StopCallKeeps ==
    ASSUME TerminalInv, NEW t \in Key, NEW s, s = sessions[t], s # None,
           NEW history \in SUBSET (1 .. outputs), StopAndPersist(s, history),
           UNCHANGED <<fiber, storage, outputs>>,
           NEW h, h = ThreadOf[t], NEW b \in CallSet, call' = [call EXCEPT ![h] = b],
           b.key = t, b.session = s, b.step = "persist"
    PROVE  TerminalInv'
<1>1. s \in Session /\ session[s].key = t /\ h \in Thread
  BY DEF TerminalInv, ShellInv, SessionInv, Thread
<1>2. QueueInv' /\ ItemInv' /\ ShellInv' /\ FileInv' /\ KeepsSessions /\ session'[s].shell = None
  BY <1>1, StopKeeps DEF TerminalInv
<1>3. CallInv'
  <2>1. Unused' = Unused
    BY <1>2 DEF KeepsSessions, Unused
  <2>2. Room(h, b)
    BY <2>1 DEF Room
  <2>3. sessions'[t] \in {s, None}
    BY <1>2 DEF KeepsSessions
  <2> QED
    BY <1>1, <1>2, <2>2, <2>3, CallGoes DEF TerminalInv, ShellInv, KeepsSessions
<1> QED
  BY <1>2, <1>3 DEF TerminalInv

LEMMA OpenExistingKeeps ==
    ASSUME TerminalInv, NEW t \in Key, OpenExisting(t)
    PROVE  TerminalInv'
<1>1. PICK h, s, b : /\ h = ThreadOf[t] /\ s = sessions[t]
                     /\ b = [kind |-> "open", key |-> t, session |-> s, step |-> "persist"]
  OBVIOUS
<1>2. s \in Session /\ s # None
  BY <1>1 DEF OpenExisting, Exists, TerminalInv, ShellInv, SessionInv
<1>3. /\ b \in CallSet /\ call' = [call EXCEPT ![h] = b]
      /\ b.key = t /\ b.session = s /\ b.step = "persist"
  BY <1>1, <1>2 DEF OpenExisting, Begin, CallSet
<1>4. StopAndPersist(s, {}) /\ UNCHANGED <<fiber, storage, outputs>>
  BY <1>1 DEF OpenExisting
<1> QED
  BY <1>1, <1>2, <1>3, <1>4, StopCallKeeps

LEMMA RestartNewKeeps ==
    ASSUME TerminalInv, NEW t \in Key, Restart(t), ~Exists(t)
    PROVE  TerminalInv'
<1>1. PICK h, n, b : /\ h = ThreadOf[t] /\ n = NextSession
                     /\ b = [kind |-> "restart", key |-> t, session |-> n, step |-> "persist"]
  OBVIOUS
<1>2. /\ SessionIsLeft /\ Make(t, {}) /\ Persist(t, {}) /\ call' = [call EXCEPT ![h] = b]
      /\ UNCHANGED <<process, fiber, storage, outputs>> /\ sessions[t] = None /\ h \in Thread
  BY <1>1 DEF Restart, Exists, Begin, Thread
<1>3. {} \in SUBSET (1 .. outputs) /\ outputs \in Nat
  BY DEF TerminalInv, ItemInv
<1>4. Unused # {}
  <2>1. Cardinality(Unused) > Cardinality(Readers)
    BY <1>2 DEF SessionIsLeft, Readers
  <2>2. Cardinality(Unused) # 0
    BY <2>1, SessionsAreFinite
  <2> QED
    BY <2>2, FS_EmptySet
<1>5. /\ ShellInv' /\ n \in Unused /\ Unused' = Unused \ {n}
      /\ session'[n].key = t /\ session'[n].shell = None /\ ~session'[n].stray
      /\ session'[n].history = {}
      /\ \A r \in Session \ {n} : session'[r] = session[r]
      /\ session[n].key = NoKey
      /\ sessions'[t] \in {n, None}
      /\ \A u \in Key \ {t} : sessions'[u] \in {sessions[u], None}
  BY <1>1, <1>2, <1>3, <1>4, MakeKeeps DEF TerminalInv
<1>6. QueueInv' /\ ItemInv'
  BY <1>2, <1>3, PersistKeeps DEF TerminalInv
<1>7. CallInv'
  <2>1. /\ b \in CallSet /\ b.key = t /\ b.session = n /\ b.step = "persist" /\ b.kind = "restart"
    BY <1>1, <1>5 DEF CallSet, Unused
  <2>2. Room(h, b)
    BY <1>2, <1>5, <2>1 DEF Room
  <2>3. \A r \in Session : session[r].key # NoKey => session'[r] = session[r]
    BY <1>5
  <2>4. \A r \in Session : session[r].key \in Key => session'[r] = session[r]
    BY <2>3, Numbers
  <2>5. \A u \in Key : ThreadOf[u] # h => sessions'[u] \in {sessions[u], None}
    BY <1>1, <1>5
  <2> QED
    BY <1>1, <1>2, <1>5, <2>1, <2>2, <2>3, <2>4, <2>5, CallGoes DEF TerminalInv, ShellInv
<1>8. FileInv'
  <2>1. ASSUME NEW u \in Key \ {t} PROVE Shown(u)' \subseteq Shown(u)
    <3>1. sessions[u] # None => sessions[u] \in Session /\ session[sessions[u]].key = u
      BY <2>1 DEF TerminalInv, ShellInv, SessionInv
    <3>2. \A r \in Session : session[r].key = u => session'[r] = session[r]
      BY <1>5, <2>1, Numbers
    <3> QED
      BY <1>5, <2>1, <3>1, <3>2, ShowsNoMore
  <2>2. Shown(t)' \subseteq {{}}
    BY <1>5 DEF Shown
  <2> QED
    BY <1>2, <1>3, <2>1, <2>2, FileOnPersist DEF TerminalInv
<1> QED
  BY <1>5, <1>6, <1>7, <1>8 DEF TerminalInv

LEMMA RestartKeeps ==
    ASSUME TerminalInv, NEW t \in Key, Restart(t)
    PROVE  TerminalInv'
<1>1. CASE Exists(t)
  <2>1. PICK h, s, b : /\ h = ThreadOf[t] /\ s = sessions[t]
                       /\ b = [kind |-> "restart", key |-> t, session |-> s, step |-> "persist"]
    OBVIOUS
  <2>2. s \in Session /\ s # None
    BY <1>1, <2>1 DEF Exists, TerminalInv, ShellInv, SessionInv
  <2>3. /\ b \in CallSet /\ call' = [call EXCEPT ![h] = b]
        /\ b.key = t /\ b.session = s /\ b.step = "persist"
    BY <1>1, <2>1, <2>2 DEF Restart, Begin, CallSet
  <2>4. StopAndPersist(s, {}) /\ UNCHANGED <<fiber, storage, outputs>>
    BY <1>1, <2>1 DEF Restart
  <2> QED
    BY <2>1, <2>2, <2>3, <2>4, StopCallKeeps
<1> QED
  BY <1>1, RestartNewKeeps

LEMMA ClearKeeps ==
    ASSUME TerminalInv, NEW t \in Key, Clear(t)
    PROVE  TerminalInv'
<1>1. PICK h, s, b : /\ h = ThreadOf[t] /\ s = sessions[t]
                     /\ b = [kind |-> "clear", key |-> t, session |-> s, step |-> "persist"]
  OBVIOUS
<1>2. PICK a, c : /\ a = session[s]
                  /\ c = [a EXCEPT !.history = {}, !.pending = <<>>, !.draining = FALSE,
                                   !.lossy = a.lossy \/ a.draining]
  OBVIOUS
<1>3. /\ s \in Session /\ a.key = t /\ a \in SessionSet(outputs)
      /\ session \in [Session -> SessionSet(outputs)]
      /\ a.status # "none" /\ (a.status = "running" <=> a.shell # None)
      /\ a.pending # <<>> => a.draining
  BY <1>1, <1>2, Numbers DEF Clear, Exists, TerminalInv, ShellInv, SessionInv
<1>4. /\ session' = [session EXCEPT ![s] = c] /\ Persist(t, {})
      /\ call' = [call EXCEPT ![h] = b] /\ h \in Thread
      /\ UNCHANGED <<sessions, process, fiber, storage, outputs>>
  <2>1. session' = [session EXCEPT ![s] =
          [session[s] EXCEPT !.history = {}, !.pending = <<>>, !.draining = FALSE,
                             !.lossy = session[s].lossy \/ session[s].draining]]
    BY <1>1 DEF Clear
  <2>2. call' = [call EXCEPT ![h] = b] /\ h \in Thread
    BY <1>1 DEF Clear, Begin, Thread
  <2>3. Persist(t, {}) /\ UNCHANGED <<sessions, process, fiber, storage, outputs>>
    BY DEF Clear
  <2> QED
    BY <1>2, <2>1, <2>2, <2>3
<1>5. /\ c \in SessionSet(outputs) /\ c.key = t /\ c.status = a.status /\ c.shell = a.shell
      /\ c.history = {} /\ c.pending = <<>> /\ c.draining = FALSE
      /\ c.lossy = (a.lossy \/ a.draining) /\ c.stray = a.stray
  <2>1. <<>> \in Seq(0 .. outputs)
    BY EmptySeq
  <2> QED
    BY <1>2, <1>3, <2>1 DEF SessionSet
<1>6. session'[s] = c /\ \A r \in Session \ {s} : session'[r] = session[r]
  BY <1>3, <1>4
<1>7. ShellInv'
  <2>1. ~HasExit(c.pending)
    BY <1>5, EmptySeq DEF HasExit
  <2>2. Waits(s) => a.draining
    BY <1>2, <1>3, EmptySeq DEF Waits, HasExit
  <2>3. /\ fiber' \in [Fiber -> {NoFiber} \cup FiberSet] /\ \A f \in Fiber : fiber'[f] = fiber[f]
        /\ sessions' \in [Key -> Session \cup {None}]
    BY <1>4 DEF TerminalInv, ShellInv, FiberInv, SessionInv
  <2>4. \A r \in Session : session'[r].key = session[r].key
    BY <1>2, <1>3, <1>5, <1>6
  <2>5. \A u \in Key : sessions'[u] # None => session'[sessions'[u]].key = u
    BY <1>4, <2>4 DEF TerminalInv, ShellInv, SessionInv
  <2>6. \A r \in Session : KeepsPlace(r)
    BY <1>4 DEF KeepsPlace
  <2> QED
    BY <1>2, <1>3, <1>4, <1>5, <2>1, <2>2, <2>3, <2>5, <2>6, RecordKeeps DEF TerminalInv
<1>8. QueueInv' /\ ItemInv'
  BY <1>4, PersistKeeps DEF TerminalInv
<1>9. CallInv'
  <2>1. /\ b \in CallSet /\ b.key = t /\ b.session = s /\ b.step = "persist" /\ b.kind = "clear"
    BY <1>1, <1>3 DEF CallSet
  <2>2. Unused' = Unused
    <3>1. \A r \in Session : session'[r].status = session[r].status
      BY <1>2, <1>5, <1>6
    <3> QED
      BY <3>1 DEF Unused
  <2>3. Room(h, b)
    BY <2>1, <2>2 DEF Room
  <2>4. \A r \in Session : session'[r].key = session[r].key /\ session'[r].shell = session[r].shell
    BY <1>2, <1>3, <1>5, <1>6
  <2>5. /\ ThreadOf[b.key] = h /\ session'[b.session].key = b.key /\ b \in {NoCall} \cup CallSet
        /\ \A u \in Key : sessions'[u] \in {sessions[u], None}
    BY <1>1, <1>4, <1>5, <1>6, <2>1
  <2> QED
    BY <1>4, <2>1, <2>3, <2>4, <2>5, CallGoes DEF TerminalInv, ShellInv
<1>10. FileInv'
  <2>1. ASSUME NEW u \in Key \ {t} PROVE Shown(u)' \subseteq Shown(u)
    <3>1. sessions[u] # None => sessions[u] \in Session \ {s}
      BY <1>2, <1>3, <2>1 DEF TerminalInv, ShellInv, SessionInv
    <3>2. \A r \in Session : session[r].stray /\ session[r].key = u =>
            session'[r].stray /\ session'[r].key = u
      BY <1>2, <1>3, <1>6, <2>1
    <3> QED
      BY <1>4, <1>6, <2>1, <3>1, <3>2, ShowsNoMore
  <2>2. Shown(t)' \subseteq {{}}
    BY <1>1, <1>4, <1>5, <1>6 DEF Shown
  <2> QED
    BY <1>4, <2>1, <2>2, FileOnPersist DEF TerminalInv
<1> QED
  BY <1>7, <1>8, <1>9, <1>10 DEF TerminalInv

LEMMA CloseKeeps ==
    ASSUME TerminalInv, NEW t \in Key, Close(t)
    PROVE  TerminalInv'
<1>1. PICK kind \in {"close", "delete"} :
        /\ IF Exists(t)
             THEN /\ StopAndPersist(sessions[t], session[sessions[t]].history)
                  /\ Begin(kind, t, sessions[t], "persist")
             ELSE /\ Begin(kind, t, None, "persist")
                  /\ UNCHANGED <<worker, manager, process, texts>>
        /\ UNCHANGED <<fiber, storage, outputs>>
  BY DEF Close
<1>2. PICK h, s, b : /\ h = ThreadOf[t] /\ s = sessions[t]
                     /\ b = [kind |-> kind, key |-> t, session |-> s, step |-> "persist"]
  OBVIOUS
<1>3. s \in Session \cup {None} /\ session \in [Session -> SessionSet(outputs)]
  BY <1>2 DEF TerminalInv, ShellInv, SessionInv
<1>4. /\ b \in CallSet /\ call' = [call EXCEPT ![h] = b]
      /\ b.key = t /\ b.session = s /\ b.step = "persist"
  BY <1>1, <1>2, <1>3 DEF Exists, Begin, CallSet
<1>5. CASE s # None
  <2>1. PICK history : history = session[s].history
    OBVIOUS
  <2>2. history \in SUBSET (1 .. outputs)
    BY <1>3, <1>5, <2>1 DEF SessionSet
  <2>3. StopAndPersist(s, history)
    BY <1>1, <1>2, <1>5, <2>1 DEF Exists
  <2> QED
    BY <1>1, <1>2, <1>4, <1>5, <2>2, <2>3, StopCallKeeps
<1>6. CASE s = None
  <2>1. /\ sessions' = sessions /\ session' = session
        /\ UNCHANGED <<worker, texts, storage, process, fiber, outputs>>
    BY <1>1, <1>2, <1>6 DEF manager, Exists
  <2>2. QueueInv' /\ ItemInv'
    BY <2>1, WorkerStands DEF TerminalInv, ItemInv
  <2>3. ShellInv'
    BY <2>1 DEF TerminalInv, ShellInv, SessionInv, ProcessInv, FiberInv, Waits, Serves
  <2>4. CallInv'
    <3>1. Room(h, b) /\ h \in Thread
      BY <1>2, <1>4, <2>1 DEF Room, Unused, Thread
    <3> QED
      BY <1>2, <1>4, <1>6, <2>1, <3>1, CallGoes DEF TerminalInv, ShellInv
  <2>5. FileInv'
    <3>1. \A u \in Key : Shown(u)' \subseteq Shown(u)
      BY <2>1 DEF Shown, Stray
    <3> QED
      BY <2>1, <3>1, FileStands DEF TerminalInv, ItemInv
  <2> QED
    BY <2>2, <2>3, <2>4, <2>5 DEF TerminalInv
<1> QED
  BY <1>3, <1>5, <1>6

-----------------------------------------------------------------------------
(* The steps of the calls.                                                    *)

(* Sessions leave the map, and a fiber goes on or is through with its shell.   *)
LEMMA MapKeeps ==
    ASSUME ShellInv, UNCHANGED <<session, process, outputs>>,
           sessions' \in [Key -> Session \cup {None}],
           \A u \in Key : sessions'[u] \in {sessions[u], None},
           \A r \in Session : KeepsPlace(r),
           fiber' \in [Fiber -> {NoFiber} \cup FiberSet],
           \A f \in Fiber : \/ fiber'[f] = fiber[f]
                            \/ fiber[f].step = "exited" /\ fiber'[f] = NoFiber
                            \/ /\ fiber[f] # NoFiber /\ fiber'[f].step # "exited"
                               /\ fiber'[f].session = fiber[f].session
                               /\ fiber'[f].shell = fiber[f].shell
    PROVE  ShellInv'
<1>1. SessionInv'
  BY DEF ShellInv, SessionInv
<1>2. ProcessInv'
  BY DEF ShellInv, ProcessInv, KeepsPlace, Waits, SessionInv
<1>3. FiberInv'
  <2>1. ASSUME NEW f \in Fiber, fiber'[f] # NoFiber
        PROVE  /\ process'[fiber'[f].shell].state # "unborn"
               /\ fiber'[f].step = "exited" => process'[fiber'[f].shell].owner = None
    BY <2>1 DEF ShellInv, FiberInv
  <2>2. ASSUME NEW r \in Session, session[r].shell # None, NEW f \in Fiber, Serves(f, r)
        PROVE  Serves(f, r)'
    <3>1. /\ session[r].shell \in Process /\ process[session[r].shell].owner = r /\ r # None
          /\ fiber[f].shell = session[r].shell
      BY <2>2, Numbers DEF ShellInv, SessionInv, SessionSet, ProcessInv, Serves, None
    <3>2. fiber[f] # NoFiber
      BY <2>2, <3>1 DEF NoFiber
    <3>3. fiber[f].step # "exited"
      BY <3>1, <3>2 DEF ShellInv, FiberInv
    <3> QED
      BY <2>2, <3>3 DEF Serves
  <2>3. ASSUME NEW r \in Session, session'[r].shell # None, ~session'[r].lossy
        PROVE  /\ session'[r].draining => \E f \in Fiber : Serves(f, r)'
               /\ process'[session'[r].shell].state = "dead" => Waits(r)'
    BY <2>2, <2>3 DEF ShellInv, FiberInv, Waits
  <2> QED
    BY <2>1, <2>3 DEF FiberInv, FiberSet, NoFiber
<1> QED
  BY <1>1, <1>2, <1>3 DEF ShellInv

LEMMA StartPersistedKeeps ==
    ASSUME TerminalInv, NEW h \in Thread, Persisted(h), call[h].kind \in {"open", "restart"}
    PROVE  TerminalInv'
<1>1. PICK b, s, a : b = call[h] /\ s = b.session /\ a = session[s]
  OBVIOUS
<1>2. PICK c, d : c = [a EXCEPT !.status = "starting"] /\ d = [b EXCEPT !.step = "spawn"]
  OBVIOUS
<1>3. b.step = "persist" /\ b # NoCall
  BY <1>1 DEF Persisted, NoCall
<1>4. /\ b \in CallSet /\ b.key \in Key /\ ThreadOf[b.key] = h /\ s \in Session
      /\ a.key = b.key /\ a.status # "none" /\ a.shell = None
  <2>1. /\ b \in CallSet /\ b.key \in Key /\ ThreadOf[b.key] = h
        /\ b.session \in Session \cup {None}
        /\ b.session # None =>
             /\ session[b.session].key = b.key /\ session[b.session].status # "none"
             /\ b.kind # "clear" => session[b.session].shell = None
        /\ b.kind \in {"open", "restart"} /\ b.step # "read" => b.session \in Session
    BY <1>1, <1>3, Held DEF TerminalInv, ShellInv
  <2> QED
    BY <1>1, <1>3, <2>1, Numbers DEF None
<1>5. /\ session \in [Session -> SessionSet(outputs)] /\ a \in SessionSet(outputs)
      /\ a.pending # <<>> => a.draining
  BY <1>1, <1>4 DEF TerminalInv, ShellInv, SessionInv
<1>6. /\ c \in SessionSet(outputs) /\ c.key = b.key /\ c.status = "starting" /\ c.shell = None
      /\ c.pending = a.pending /\ c.draining = a.draining /\ c.history = a.history
      /\ c.stray = a.stray
  BY <1>2, <1>4, <1>5 DEF SessionSet
<1>7. /\ d \in CallSet /\ d.key = b.key /\ d.session = s /\ d.step = "spawn" /\ d.kind = b.kind
  BY <1>1, <1>2, <1>3, <1>4 DEF CallSet, Persisted
<1>8. /\ session' = [session EXCEPT ![s] = c] /\ call' = [call EXCEPT ![h] = d]
      /\ UNCHANGED <<sessions, worker, process, fiber, storage, texts, outputs>>
  BY <1>1, <1>2, <1>4, <1>5 DEF Persisted, Step, TerminalInv, CallInv
<1>9. session'[s] = c /\ \A r \in Session \ {s} : session'[r] = session[r]
  BY <1>4, <1>5, <1>8
<1>10. ShellInv'
  <2>1. /\ fiber' \in [Fiber -> {NoFiber} \cup FiberSet] /\ \A f \in Fiber : fiber'[f] = fiber[f]
        /\ sessions' \in [Key -> Session \cup {None}]
    BY <1>8 DEF TerminalInv, ShellInv, FiberInv, SessionInv
  <2>2. \A u \in Key : sessions'[u] # None => session'[sessions'[u]].key = u
    BY <1>1, <1>4, <1>6, <1>8, <1>9 DEF TerminalInv, ShellInv, SessionInv
  <2>3. \A r \in Session : KeepsPlace(r)
    BY <1>8 DEF KeepsPlace
  <2>4. /\ s \in Session /\ c.status # "none" /\ c.key \in Key /\ c.shell = session[s].shell
        /\ c.status = "starting" /\ c.shell = None /\ (session[s].key # NoKey => c.key = session[s].key)
        /\ c.pending # <<>> => c.draining
    BY <1>1, <1>4, <1>5, <1>6
  <2> QED
    BY <1>5, <1>6, <1>8, <2>1, <2>2, <2>3, <2>4, RecordKeeps DEF TerminalInv
<1>11. QueueInv' /\ ItemInv'
  BY <1>8, WorkerStands DEF TerminalInv, ItemInv
<1>12. CallInv'
  <2>1. Unused' = Unused
    <3>1. \A r \in Session : session'[r].status = "none" <=> session[r].status = "none"
      BY <1>1, <1>4, <1>6, <1>9
    <3> QED
      BY <3>1 DEF Unused
  <2>2. Room(h, d)
    BY <1>7, <2>1 DEF Room
  <2>3. \A r \in Session : session'[r].key = session[r].key
    BY <1>1, <1>4, <1>6, <1>9
  <2>4. \A r \in Session : session[r].shell = None => session'[r].shell = None
    BY <1>6, <1>9
  <2>5. /\ session'[d.session].key = d.key /\ session'[d.session].shell = None
        /\ ThreadOf[d.key] = h /\ d.kind \in {"open", "restart"}
    BY <1>1, <1>4, <1>6, <1>7, <1>9
  <2> QED
    BY <1>7, <1>8, <2>2, <2>3, <2>4, <2>5, CallGoes DEF TerminalInv, ShellInv
<1>13. FileInv'
  <2>1. ASSUME NEW u \in Key PROVE Shown(u)' \subseteq Shown(u)
    <3>1. \A r \in Session : /\ session'[r].history = session[r].history
                             /\ session'[r].stray = session[r].stray
                             /\ session'[r].key = session[r].key
      BY <1>1, <1>4, <1>6, <1>9
    <3>2. sessions[u] \in Session \cup {None}
      BY DEF TerminalInv, ShellInv, SessionInv
    <3> QED
      BY <1>8, <3>1, <3>2, ShowsNoMore
  <2> QED
    BY <1>8, <2>1, FileStands DEF TerminalInv, ItemInv
<1> QED
  BY <1>10, <1>11, <1>12, <1>13 DEF TerminalInv

LEMMA ClosePersistedKeeps ==
    ASSUME TerminalInv, NEW h \in Thread, Persisted(h), call[h].kind \in {"close", "delete"}
    PROVE  TerminalInv'
<1>1. PICK b, d : /\ b = call[h]
                  /\ d = IF b.kind = "delete" THEN [b EXCEPT !.step = "delete"] ELSE NoCall
  OBVIOUS
<1>2. b.step = "persist" /\ b # NoCall
  BY <1>1 DEF Persisted, NoCall
<1>3. /\ b \in CallSet /\ b.key \in Key /\ ThreadOf[b.key] = h
      /\ b.session \in Session \cup {None}
      /\ b.session # None => session[b.session].key = b.key /\ session[b.session].shell = None
      /\ sessions[b.key] \in {None, b.session}
  <2>1. /\ b \in CallSet /\ b.key \in Key /\ ThreadOf[b.key] = h
        /\ b.session \in Session \cup {None}
        /\ b.session # None =>
             /\ session[b.session].key = b.key /\ session[b.session].status # "none"
             /\ b.kind # "clear" => session[b.session].shell = None
        /\ b.kind \in {"close", "delete"} => sessions[b.key] \in {None, b.session}
    BY <1>1, <1>2, Held DEF TerminalInv, ShellInv
  <2> QED
    BY <1>1, <2>1
<1>4. /\ sessions' = [sessions EXCEPT ![b.key] = None] /\ session' = session
      /\ UNCHANGED <<worker, process, fiber, storage, texts, outputs>>
      /\ call' = [call EXCEPT ![h] = d]
  BY <1>1 DEF Persisted, Step, Return, TerminalInv, CallInv
<1>5. /\ sessions' \in [Key -> Session \cup {None}] /\ sessions'[b.key] = None
      /\ \A u \in Key : sessions'[u] \in {sessions[u], None}
  BY <1>3, <1>4 DEF TerminalInv, ShellInv, SessionInv
<1>6. ShellInv'
  <2>1. ASSUME NEW r \in Session PROVE KeepsPlace(r)
    <3>1. ASSUME session[r].shell # None, sessions[session[r].key] = r
          PROVE  sessions'[session[r].key] = r
      <4>1. session[r].key # b.key
        BY <1>3, <3>1, Numbers DEF None
      <4> QED
        BY <1>3, <1>4, <3>1, <4>1 DEF TerminalInv, ShellInv, SessionInv, SessionSet
    <3> QED
      BY <3>1 DEF KeepsPlace
  <2>2. fiber' \in [Fiber -> {NoFiber} \cup FiberSet] /\ \A f \in Fiber : fiber'[f] = fiber[f]
    BY <1>4 DEF TerminalInv, ShellInv, FiberInv
  <2> QED
    BY <1>4, <1>5, <2>1, <2>2, MapKeeps DEF TerminalInv
<1>7. QueueInv' /\ ItemInv'
  BY <1>4, WorkerStands DEF TerminalInv, ItemInv
<1>8. CallInv'
  <2>1. /\ d \in {NoCall} \cup CallSet
        /\ d # NoCall => d.key = b.key /\ d.session = b.session /\ d.kind = "delete"
        /\ d.step \in {"delete", "none"}
    BY <1>1, <1>2, <1>3 DEF CallSet, NoCall
  <2>2. Room(h, d)
    BY <1>4, <2>1 DEF Room, Unused
  <2> QED
    BY <1>3, <1>4, <1>5, <2>1, <2>2, CallGoes DEF TerminalInv, ShellInv
<1>9. FileInv'
  <2>1. \A u \in Key : Shown(u)' \subseteq Shown(u)
    BY <1>4, <1>5, ShowsNoMore
  <2> QED
    BY <1>4, <2>1, FileStands DEF TerminalInv, ItemInv
<1> QED
  BY <1>6, <1>7, <1>8, <1>9 DEF TerminalInv

(* A call that gives the lock back and changes no session.                     *)
LEMMA ReturnKeeps ==
    ASSUME CallInv, SessionInv, NEW h \in Thread, Return(h), UNCHANGED manager
    PROVE  CallInv'
<1>1. /\ NoCall \in {NoCall} \cup CallSet /\ call' = [call EXCEPT ![h] = NoCall]
      /\ session' = session /\ sessions' = sessions
  BY DEF Return, manager
<1>2. Room(h, NoCall)
  BY <1>1 DEF Room, NoCall, Unused
<1> QED
  BY <1>1, <1>2, CallGoes

LEMMA PersistedKeeps ==
    ASSUME TerminalInv, NEW h \in Thread, Persisted(h)
    PROVE  TerminalInv'
<1>1. call[h].kind \in {"open", "restart", "close", "delete", "clear"}
  <2>1. call[h] # NoCall
    BY DEF Persisted, NoCall
  <2> QED
    BY <2>1 DEF TerminalInv, CallInv, CallSet
<1>2. CASE call[h].kind = "clear"
  <2>1. /\ Return(h) /\ UNCHANGED manager /\ sessions' = sessions /\ session' = session
        /\ UNCHANGED <<worker, process, fiber, storage, texts, outputs>>
    BY <1>2 DEF Persisted, manager
  <2>2. QueueInv' /\ ItemInv'
    BY <2>1, WorkerStands DEF TerminalInv, ItemInv
  <2>3. ShellInv'
    BY <2>1 DEF TerminalInv, ShellInv, SessionInv, ProcessInv, FiberInv, Waits, Serves
  <2>4. CallInv'
    BY <2>1, ReturnKeeps DEF TerminalInv, ShellInv
  <2>5. FileInv'
    <3>1. \A u \in Key : Shown(u)' \subseteq Shown(u)
      BY <2>1 DEF Shown, Stray
    <3> QED
      BY <2>1, <3>1, FileStands DEF TerminalInv, ItemInv
  <2> QED
    BY <2>2, <2>3, <2>4, <2>5 DEF TerminalInv
<1> QED
  BY <1>1, <1>2, StartPersistedKeeps, ClosePersistedKeeps

LEMMA DeleteHistoryKeeps ==
    ASSUME TerminalInv, NEW h \in Thread, DeleteHistory(h)
    PROVE  TerminalInv'
<1>1. PICK b, t : b = call[h] /\ t = b.key
  OBVIOUS
<1>2. b.step = "delete" /\ b # NoCall
  BY <1>1 DEF DeleteHistory, NoCall
<1>3. t \in Key /\ sessions[t] = None
  <2>1. b.key \in Key /\ (b.step \in {"read", "delete"} => sessions[b.key] = None)
    BY <1>1, <1>2, Held DEF TerminalInv, ShellInv
  <2> QED
    BY <1>1, <1>2, <2>1
<1>4. /\ Return(h) /\ UNCHANGED manager /\ sessions' = sessions /\ session' = session
      /\ UNCHANGED <<worker, process, fiber, broken, texts, outputs>>
      /\ file' = [file EXCEPT ![t] = NoFile]
  BY <1>1 DEF DeleteHistory, manager
<1>5. QueueInv' /\ ItemInv'
  BY <1>4, WorkerStands DEF TerminalInv, ItemInv
<1>6. ShellInv'
  BY <1>4 DEF TerminalInv, ShellInv, SessionInv, ProcessInv, FiberInv, Waits, Serves
<1>7. CallInv'
  BY <1>4, ReturnKeeps DEF TerminalInv, ShellInv
<1>8. FileInv'
  <2>1. Shown(t)' = {} /\ \A u \in Key : Shown(u)' = Shown(u)
    BY <1>3, <1>4 DEF Shown, Stray
  <2>2. /\ latestByKey' = latestByKey /\ running' = running /\ texts' = texts
        /\ broken' = broken /\ outputs' = outputs
        /\ \A u \in Key \ {t} : file'[u] = file[u]
        /\ file' \in [Key -> {NoFile} \cup SUBSET (1 .. outputs)]
    BY <1>3, <1>4 DEF worker, TerminalInv, FileInv
  <2>3. ASSUME NEW u \in Key, NEW history \in Shown(u)'
        PROVE  IF latestByKey[u] # {} THEN texts[Max(latestByKey[u])] = history
               ELSE IF running.key = u THEN texts[Max(running.value)] = history
               ELSE u \notin broken => Matches(file'[u], history)
    <3>1. u # t /\ history \in Shown(u) /\ file'[u] = file[u]
      BY <2>1, <2>2, <2>3
    <3> QED
      BY <3>1 DEF TerminalInv, FileInv
  <2> QED
    BY <2>2, <2>3 DEF TerminalInv, FileInv
<1> QED
  BY <1>5, <1>6, <1>7, <1>8 DEF TerminalInv

LEMMA SpawnFailsKeeps ==
    ASSUME TerminalInv, NEW h \in Thread, SpawnFails(h)
    PROVE  TerminalInv'
<1>1. PICK b, s, a : b = call[h] /\ s = b.session /\ a = session[s]
  OBVIOUS
<1>2. PICK c : c = [a EXCEPT !.status = "error", !.shell = None,
                             !.pending = <<>>, !.draining = FALSE]
  OBVIOUS
<1>3. b.step = "spawn" /\ b # NoCall
  BY <1>1 DEF SpawnFails, NoCall
<1>4. /\ b.key \in Key /\ ThreadOf[b.key] = h /\ s \in Session
      /\ a.key = b.key /\ a.status # "none" /\ a.shell = None
  <2>1. /\ b \in CallSet /\ b.key \in Key /\ ThreadOf[b.key] = h
        /\ b.session # None =>
             /\ session[b.session].key = b.key /\ session[b.session].status # "none"
             /\ b.kind # "clear" => session[b.session].shell = None
        /\ b.kind \in {"open", "restart"} /\ b.step # "read" => b.session \in Session
    BY <1>1, <1>3, Held DEF TerminalInv, ShellInv
  <2>2. b.kind \in {"open", "restart"}
    BY <1>3, <2>1 DEF CallSet
  <2> QED
    BY <1>1, <1>3, <2>1, <2>2, Numbers DEF None
<1>5. session \in [Session -> SessionSet(outputs)] /\ a \in SessionSet(outputs)
  BY <1>1, <1>4 DEF TerminalInv, ShellInv, SessionInv
<1>6. /\ c \in SessionSet(outputs) /\ c.key = a.key /\ c.status = "error" /\ c.shell = None
      /\ c.pending = <<>> /\ c.history = a.history /\ c.stray = a.stray
  <2>1. <<>> \in Seq(0 .. outputs) /\ None \in Process \cup {None}
    BY EmptySeq
  <2> QED
    BY <1>2, <1>5, <2>1 DEF SessionSet
<1>7. /\ session' = [session EXCEPT ![s] = c] /\ call' = [call EXCEPT ![h] = NoCall]
      /\ UNCHANGED <<worker, process, fiber, storage, texts, outputs>>
  BY <1>1, <1>2 DEF SpawnFails, Halted, Return
<1>8. session'[s] = c /\ \A r \in Session \ {s} : session'[r] = session[r]
  BY <1>4, <1>5, <1>7
<1>9. \A r \in Session : /\ session'[r].key = session[r].key
                         /\ session'[r].history = session[r].history
                         /\ session'[r].stray = session[r].stray
                         /\ session'[r].status = "none" <=> session[r].status = "none"
                         /\ session[r].shell = None => session'[r].shell = None
  BY <1>1, <1>4, <1>6, <1>8
<1>10. /\ sessions' \in [Key -> Session \cup {None}]
       /\ \A u \in Key : sessions'[u] # None => session'[sessions'[u]].key = u
       /\ \A u \in Key : sessions'[u] \in {sessions[u], None}
       /\ \A r \in Session \ {s} : KeepsPlace(r)
  <2>1. PICK ss, o : ss = session' /\ o = order'
    OBVIOUS
  <2>2. sessions' = Evict(sessions, ss, o)
    BY <2>1 DEF SpawnFails
  <2>3. \A r \in Session \ {s} : ss[r].status = session[r].status
    BY <1>8, <2>1
  <2> QED
    BY <1>9, <2>2, <2>3, EvictStep DEF TerminalInv
<1>11. ShellInv'
  <2>1. /\ fiber' \in [Fiber -> {NoFiber} \cup FiberSet] /\ \A f \in Fiber : fiber'[f] = fiber[f]
        /\ process' \in [Process -> ProcessSet]
        /\ \A p \in Process : p # session[s].shell => process'[p] = process[p]
    BY <1>7 DEF TerminalInv, ShellInv, FiberInv, ProcessInv
  <2>2. c.key \in Key /\ c.status \in {"exited", "error"} /\ c.key = session[s].key
    BY <1>1, <1>4, <1>6
  <2> QED
    BY <1>1, <1>4, <1>6, <1>7, <1>10, <2>1, <2>2, HaltKeeps DEF TerminalInv
<1>12. QueueInv' /\ ItemInv'
  BY <1>7, WorkerStands DEF TerminalInv, ItemInv
<1>13. CallInv'
  <2>1. Room(h, NoCall)
    BY <1>9 DEF Room, NoCall, Unused
  <2> QED
    BY <1>7, <1>9, <1>10, <2>1, CallGoes DEF TerminalInv, ShellInv
<1>14. FileInv'
  <2>1. ASSUME NEW u \in Key PROVE Shown(u)' \subseteq Shown(u)
    <3>1. sessions[u] \in Session \cup {None}
      BY DEF TerminalInv, ShellInv, SessionInv
    <3> QED
      BY <1>9, <1>10, <3>1, ShowsNoMore
  <2> QED
    BY <1>7, <2>1, FileStands DEF TerminalInv, ItemInv
<1> QED
  BY <1>11, <1>12, <1>13, <1>14 DEF TerminalInv

LEMMA SpawnedKeeps ==
    ASSUME TerminalInv, NEW h \in Thread, Spawned(h)
    PROVE  TerminalInv'
<1>1. PICK b, s, a : b = call[h] /\ s = b.session /\ a = session[s]
  OBVIOUS
<1>2. PICK p \in Process :
        /\ process[p].state = "unborn"
        /\ process' = [process EXCEPT ![p].state = "alive", ![p].owner = s]
        /\ session' = [session EXCEPT ![s] =
             [session[s] EXCEPT !.status = "running", !.shell = p, !.pending = <<>>,
                                !.draining = FALSE, !.lossy = FALSE,
                                !.stray = session[s].stray \/ sessions[session[s].key] # s]]
  BY <1>1 DEF Spawned
<1>3. PICK c : c = [a EXCEPT !.status = "running", !.shell = p, !.pending = <<>>,
                             !.draining = FALSE, !.lossy = FALSE,
                             !.stray = a.stray \/ sessions[a.key] # s]
  OBVIOUS
<1>4. /\ call' = [call EXCEPT ![h] = NoCall] /\ b.step = "spawn" /\ b # NoCall
      /\ UNCHANGED <<sessions, worker, fiber, storage, texts, outputs>>
  BY <1>1 DEF Spawned, Return, NoCall
<1>5. /\ b.key \in Key /\ ThreadOf[b.key] = h /\ s \in Session
      /\ a.key = b.key /\ a.status # "none" /\ a.shell = None
  <2>1. /\ b \in CallSet /\ b.key \in Key /\ ThreadOf[b.key] = h
        /\ b.session # None =>
             /\ session[b.session].key = b.key /\ session[b.session].status # "none"
             /\ b.kind # "clear" => session[b.session].shell = None
        /\ b.kind \in {"open", "restart"} /\ b.step # "read" => b.session \in Session
    BY <1>1, <1>4, Held DEF TerminalInv, ShellInv
  <2>2. b.kind \in {"open", "restart"}
    BY <1>4, <2>1 DEF CallSet
  <2> QED
    BY <1>1, <1>4, <2>1, <2>2, Numbers DEF None
<1>6. session \in [Session -> SessionSet(outputs)] /\ a \in SessionSet(outputs)
  BY <1>1, <1>5 DEF TerminalInv, ShellInv, SessionInv
<1>7. /\ c \in SessionSet(outputs) /\ c.key = a.key /\ c.status = "running" /\ c.shell = p
      /\ c.pending = <<>> /\ c.draining = FALSE /\ c.lossy = FALSE /\ c.history = a.history
      /\ c.stray = (a.stray \/ sessions[a.key] # s)
  <2>1. <<>> \in Seq(0 .. outputs)
    BY EmptySeq
  <2>2. (a.stray \/ sessions[a.key] # s) \in BOOLEAN
    OBVIOUS
  <2> QED
    BY <1>3, <1>6, <2>1, <2>2 DEF SessionSet
<1>8. session' = [session EXCEPT ![s] = c]
  BY <1>1, <1>2, <1>3
<1>9. session'[s] = c /\ \A r \in Session \ {s} : session'[r] = session[r]
  BY <1>5, <1>6, <1>8
<1>10. PICK q, d : q = process[p] /\ d = [q EXCEPT !.state = "alive", !.owner = s]
  OBVIOUS
<1>11. /\ q \in ProcessSet
       /\ q.owner = None /\ ~q.killed /\ q.state = "unborn"
  BY <1>2, <1>10 DEF TerminalInv, ShellInv, ProcessInv
<1>12. /\ process' = [process EXCEPT ![p] = d] /\ d.owner = s /\ ~d.killed /\ d.state = "alive"
       /\ d \in ProcessSet
  BY <1>2, <1>5, <1>10, <1>11 DEF ProcessSet
<1>13. /\ process' \in [Process -> ProcessSet]
       /\ process'[p] = d /\ \A x \in Process \ {p} : process'[x] = process[x]
  BY <1>12 DEF TerminalInv, ShellInv, ProcessInv
<1>14. p # None /\ s # None
  BY <1>5, Numbers DEF None
<1>15. ASSUME NEW r \in Session \ {s}, session[r].shell # None
       PROVE  session[r].shell \in Process \ {p}
  BY <1>6, <1>10, <1>11, <1>15, Numbers DEF TerminalInv, ShellInv, ProcessInv, SessionSet, None
<1>16. SessionInv'
  <2>1. session' \in [Session -> SessionSet(outputs')]
    BY <1>4, <1>6, <1>7, <1>8
  <2>2. \A r \in Session :
         /\ session'[r].status = "none" <=> session'[r].key = NoKey
         /\ session'[r].status = "running" <=> session'[r].shell # None
         /\ session'[r].pending # <<>> => session'[r].draining
    BY <1>5, <1>7, <1>9, <1>14, Numbers DEF TerminalInv, ShellInv, SessionInv
  <2>3. \A u \in Key : sessions'[u] # None => session'[sessions'[u]].key = u
    BY <1>1, <1>4, <1>7, <1>9 DEF TerminalInv, ShellInv, SessionInv
  <2> QED
    BY <1>4, <2>1, <2>2, <2>3 DEF TerminalInv, ShellInv, SessionInv
<1>17. ProcessInv'
  <2>1. ASSUME NEW x \in Process
        PROVE  /\ process'[x].owner # None => session'[process'[x].owner].shell = x
               /\ process'[x].state = "unborn" \/ process'[x].killed => process'[x].owner = None
               /\ process'[x].state = "unborn" => ~process'[x].killed
               /\ process'[x].state = "alive" => process'[x].killed \/ process'[x].owner # None
    <3>1. CASE x = p
      BY <1>7, <1>9, <1>12, <1>13, <1>14, <3>1
    <3>2. CASE x # p
      <4>1. process'[x] = process[x] /\ process[x].owner # s
        BY <1>1, <1>5, <1>13, <3>2, Numbers DEF TerminalInv, ShellInv, ProcessInv, None
      <4> QED
        BY <1>9, <4>1 DEF TerminalInv, ShellInv, ProcessInv, ProcessSet
    <3> QED
      BY <3>1, <3>2
  <2>2. ASSUME NEW r \in Session, session'[r].shell # None
        PROVE  /\ process'[session'[r].shell].owner = r
               /\ sessions'[session'[r].key] = r \/ session'[r].stray
               /\ Waits(r)' => process'[session'[r].shell].state = "dead"
    <3>1. CASE r = s
      <4>1. ~Waits(r)'
        BY <1>7, <1>9, <3>1, EmptySeq DEF Waits, HasExit
      <4> QED
        BY <1>4, <1>7, <1>9, <1>12, <1>13, <3>1, <4>1
    <3>2. CASE r # s
      <4>1. session'[r] = session[r]
        BY <1>9, <3>2
      <4>2. process'[session[r].shell] = process[session[r].shell]
        BY <1>13, <1>15, <2>2, <3>2, <4>1
      <4> QED
        BY <1>4, <2>2, <4>1, <4>2 DEF TerminalInv, ShellInv, ProcessInv, Waits
    <3> QED
      BY <3>1, <3>2
  <2> QED
    BY <1>13, <2>1, <2>2 DEF ProcessInv
<1>18. FiberInv'
  <2>1. ASSUME NEW f \in Fiber, fiber'[f] # NoFiber
        PROVE  /\ process'[fiber'[f].shell].state # "unborn"
               /\ fiber'[f].step = "exited" => process'[fiber'[f].shell].owner = None
    <3>1. fiber'[f] = fiber[f] /\ fiber[f].shell \in Process /\ fiber[f].shell # p
      BY <1>2, <1>4, <2>1 DEF TerminalInv, ShellInv, FiberInv, FiberSet
    <3> QED
      BY <1>13, <2>1, <3>1 DEF TerminalInv, ShellInv, FiberInv
  <2>2. ASSUME NEW r \in Session, session'[r].shell # None, ~session'[r].lossy
        PROVE  /\ session'[r].draining => \E f \in Fiber : Serves(f, r)'
               /\ process'[session'[r].shell].state = "dead" => Waits(r)'
    <3>1. CASE r = s
      BY <1>7, <1>9, <1>12, <1>13, <3>1
    <3>2. CASE r # s
      <4>1. session'[r] = session[r]
        BY <1>9, <3>2
      <4>2. process'[session[r].shell] = process[session[r].shell]
        BY <1>13, <1>15, <2>2, <3>2, <4>1
      <4>3. \A f \in Fiber : Serves(f, r) => Serves(f, r)'
        BY <1>4, <4>1 DEF Serves
      <4> QED
        BY <1>4, <2>2, <4>1, <4>2, <4>3 DEF TerminalInv, ShellInv, FiberInv, Waits
    <3> QED
      BY <3>1, <3>2
  <2> QED
    BY <1>4, <2>1, <2>2 DEF TerminalInv, ShellInv, FiberInv, FiberSet, NoFiber
<1>19. QueueInv' /\ ItemInv'
  BY <1>4, WorkerStands DEF TerminalInv, ItemInv
<1>20. CallInv'
  <2>1. \A r \in Session : /\ session'[r].key = session[r].key
                           /\ session'[r].status = "none" <=> session[r].status = "none"
    BY <1>1, <1>5, <1>7, <1>9
  <2>2. Room(h, NoCall)
    BY <2>1 DEF Room, NoCall, Unused
  <2>3. \A r \in Session :
          session[r].key \in Key /\ ThreadOf[session[r].key] # h /\ session[r].shell = None =>
            session'[r].shell = None
    BY <1>1, <1>5, <1>9
  <2> QED
    BY <1>4, <2>1, <2>2, <2>3, CallGoes DEF TerminalInv, ShellInv
<1>21. FileInv'
  <2>1. ASSUME NEW u \in Key PROVE Shown(u)' \subseteq Shown(u)
    <3>1. \A r \in Session : /\ session'[r].key = session[r].key
                             /\ session'[r].history = session[r].history
                             /\ session[r].stray => session'[r].stray
      BY <1>1, <1>7, <1>9
    <3>2. sessions[u] \in Session \cup {None}
      BY DEF TerminalInv, ShellInv, SessionInv
    <3> QED
      BY <1>4, <3>1, <3>2, ShowsNoMore
  <2> QED
    BY <1>4, <2>1, FileStands DEF TerminalInv, ItemInv
<1> QED
  BY <1>16, <1>17, <1>18, <1>19, <1>20, <1>21 DEF TerminalInv, ShellInv

-----------------------------------------------------------------------------
(* The shells and the fibers that drain their events.                         *)

LEMMA SessionSetGrows ==
    ASSUME NEW m \in Nat, NEW n \in Nat, m <= n
    PROVE  SessionSet(m) \subseteq SessionSet(n)
<1>1. Seq(0 .. m) \subseteq Seq(0 .. n)
  BY SeqMonotonic
<1>2. SUBSET (1 .. m) \subseteq SUBSET (1 .. n)
  OBVIOUS
<1> QED
  BY <1>1, <1>2 DEF SessionSet

LEMMA ExitWaits ==
    ASSUME NEW n \in Nat, NEW q \in Seq(0 .. n), NEW e \in 0 .. n
    PROVE  /\ HasExit(Append(q, e)) <=> HasExit(q) \/ e = Exit
           /\ q # <<>> =>
                /\ Head(q) \in 0 .. n /\ Tail(q) \in Seq(0 .. n)
                /\ Head(q) = Exit => HasExit(q)
                /\ Head(q) # Exit => (HasExit(Tail(q)) <=> HasExit(q))
<1>1. HasExit(Append(q, e)) <=> HasExit(q) \/ e = Exit
  <2>1. /\ Len(Append(q, e)) = Len(q) + 1 /\ Len(q) \in Nat
        /\ \A i \in 1 .. Len(q) : Append(q, e)[i] = q[i]
        /\ Append(q, e)[Len(q) + 1] = e
    BY AppendProperties, LenProperties
  <2>2. 1 .. Len(q) + 1 = (1 .. Len(q)) \cup {Len(q) + 1}
    BY <2>1
  <2> QED
    BY <2>1, <2>2 DEF HasExit
<1>2. ASSUME q # <<>>
      PROVE  /\ Head(q) \in 0 .. n /\ Tail(q) \in Seq(0 .. n)
             /\ Head(q) = Exit => HasExit(q)
             /\ Head(q) # Exit => (HasExit(Tail(q)) <=> HasExit(q))
  <2>1. /\ Len(q) \in Nat \ {0} /\ Tail(q) \in Seq(0 .. n) /\ Len(Tail(q)) = Len(q) - 1
        /\ Head(q) = q[1] /\ Head(q) \in 0 .. n
        /\ \A i \in 1 .. Len(q) - 1 : Tail(q)[i] = q[i + 1]
    BY <1>2, EmptySeq, HeadTailProperties
  <2>2. Head(q) = Exit => HasExit(q)
    BY <2>1 DEF HasExit
  <2>3. ASSUME NEW i \in 1 .. Len(Tail(q)), Tail(q)[i] = Exit PROVE HasExit(q)
    <3>1. i + 1 \in 1 .. Len(q) /\ q[i + 1] = Exit
      BY <2>1, <2>3
    <3> QED
      BY <3>1 DEF HasExit
  <2>4. ASSUME NEW i \in 1 .. Len(q), q[i] = Exit, Head(q) # Exit PROVE HasExit(Tail(q))
    <3>1. i # 1
      BY <2>1, <2>4
    <3>2. i - 1 \in 1 .. Len(Tail(q)) /\ Tail(q)[i - 1] = q[(i - 1) + 1] /\ (i - 1) + 1 = i
      BY <2>1, <3>1
    <3> QED
      BY <2>4, <3>2 DEF HasExit
  <2> QED
    BY <2>1, <2>2, <2>3, <2>4 DEF HasExit
<1> QED
  BY <1>1, <1>2

(* A shell that has a session calls back: the event waits, a fiber is there.   *)
LEMMA CallbackKeeps ==
    ASSUME TerminalInv, NEW p \in Process, process[p].state = "alive", process[p].owner # None,
           outputs' \in Nat, outputs <= outputs', NEW event \in 0 .. outputs', Callback(p, event),
           UNCHANGED <<worker, sessions, call, storage, texts>>,
           \/ event # Exit /\ process' = process
           \/ event = Exit /\ process' = [process EXCEPT ![p].state = "dead"]
    PROVE  TerminalInv'
<1>1. PICK s, a : s = process[p].owner /\ a = session[s]
  OBVIOUS
<1>2. PICK c : c = [a EXCEPT !.pending = Append(a.pending, event), !.draining = TRUE]
  OBVIOUS
<1>3. PICK d : d = FreeFiber
  OBVIOUS
<1>4. PICK w : w = [session |-> s, shell |-> p, step |-> "loop"]
  OBVIOUS
<1>5. /\ s \in Session /\ a.shell = p /\ p # None /\ s # None
      /\ session \in [Session -> SessionSet(outputs)] /\ a \in SessionSet(outputs)
      /\ outputs \in Nat /\ a.status = "running" /\ a.key # NoKey
  BY <1>1, Numbers DEF TerminalInv, ShellInv, ProcessInv, ProcessSet, SessionInv, ItemInv, None
<1>6. a \in SessionSet(outputs') /\ session \in [Session -> SessionSet(outputs')]
  BY <1>5, SessionSetGrows
<1>7. /\ session' = [session EXCEPT ![s] = c]
      /\ fiber' = IF a.draining THEN fiber ELSE [fiber EXCEPT ![d] = w]
      /\ \E f \in Fiber : fiber[f] = NoFiber
  BY <1>1, <1>2, <1>3, <1>4 DEF Callback, MustFork, NoFiberLeft
<1>8. /\ c \in SessionSet(outputs') /\ c.key = a.key /\ c.status = a.status /\ c.shell = p
      /\ c.pending = Append(a.pending, event) /\ c.draining = TRUE /\ c.history = a.history
      /\ c.stray = a.stray /\ c.lossy = a.lossy
  <2>1. Append(a.pending, event) \in Seq(0 .. outputs')
    BY <1>6, AppendProperties DEF SessionSet
  <2> QED
    BY <1>2, <1>5, <1>6, <2>1 DEF SessionSet
<1>9. session'[s] = c /\ \A r \in Session \ {s} : session'[r] = session[r]
  BY <1>5, <1>7
<1>10. HasExit(c.pending) <=> HasExit(a.pending) \/ event = Exit
  <2>1. a.pending \in Seq(0 .. outputs')
    BY <1>6 DEF SessionSet
  <2> QED
    BY <1>8, <2>1, ExitWaits
<1>11. d \in Fiber /\ fiber[d] = NoFiber
  <2> DEFINE F == {f \in Fiber : fiber[f] = NoFiber}
  <2>1. F \in SUBSET Nat /\ F # {}
    BY <1>7, Numbers
  <2>2. d = Min(F)
    BY <1>3 DEF FreeFiber
  <2>3. d \in F
    BY <2>1, <2>2, MinOf
  <2> QED
    BY <2>3
<1>12. /\ w \in FiberSet /\ fiber' \in [Fiber -> {NoFiber} \cup FiberSet]
       /\ \A f \in Fiber : fiber'[f] = fiber[f] \/ (f = d /\ fiber'[f] = w)
       /\ a.draining \/ fiber'[d] = w
       /\ w.session = s /\ w.shell = p /\ w.step = "loop"
  <2>1. w \in FiberSet
    BY <1>4, <1>5 DEF FiberSet
  <2>2. fiber \in [Fiber -> {NoFiber} \cup FiberSet]
    BY DEF TerminalInv, ShellInv, FiberInv
  <2>3. fiber' \in [Fiber -> {NoFiber} \cup FiberSet]
        /\ (a.draining \/ fiber'[d] = w)
        /\ \A f \in Fiber : fiber'[f] = fiber[f] \/ (f = d /\ fiber'[f] = w)
    BY <1>7, <1>11, <2>1, <2>2
  <2> QED
    BY <1>4, <2>1, <2>3
<1>13. /\ process' \in [Process -> ProcessSet]
       /\ \A x \in Process \ {p} : process'[x] = process[x]
       /\ process'[p].owner = s /\ process'[p].killed = process[p].killed
       /\ process'[p].state = IF event = Exit THEN "dead" ELSE "alive"
  <2>1. PICK q, e : q = process[p] /\ e = [q EXCEPT !.state = "dead"]
    OBVIOUS
  <2>2. q \in ProcessSet
    BY <2>1 DEF TerminalInv, ShellInv, ProcessInv
  <2>3. /\ e \in ProcessSet
        /\ e.state = "dead" /\ e.owner = q.owner /\ e.killed = q.killed
    BY <2>1, <2>2 DEF ProcessSet
  <2>4. CASE event # Exit /\ process' = process
    BY <1>1, <2>4 DEF TerminalInv, ShellInv, ProcessInv
  <2>5. CASE event = Exit /\ process' = [process EXCEPT ![p] = e]
    BY <1>1, <2>1, <2>3, <2>5 DEF TerminalInv, ShellInv, ProcessInv
  <2> QED
    BY <2>1, <2>4, <2>5
<1>14. ASSUME NEW r \in Session \ {s}, session[r].shell # None
       PROVE  /\ session[r].shell \in Process \ {p}
              /\ process'[session[r].shell] = process[session[r].shell]
  <2>1. session[r].shell \in Process \ {p}
    BY <1>1, <1>5, <1>14 DEF TerminalInv, ShellInv, ProcessInv, SessionSet
  <2> QED
    BY <1>13, <2>1
<1>15. \A r \in Session : /\ session'[r].key = session[r].key
                          /\ session'[r].status = session[r].status
                          /\ session'[r].shell = session[r].shell
                          /\ session'[r].history = session[r].history
                          /\ session'[r].stray = session[r].stray
                          /\ session'[r].lossy = session[r].lossy
  BY <1>1, <1>5, <1>8, <1>9
<1>16. SessionInv'
  <2>1. session' \in [Session -> SessionSet(outputs')]
    BY <1>6, <1>7, <1>8
  <2>2. \A r \in Session : session'[r].pending # <<>> => session'[r].draining
    BY <1>8, <1>9 DEF TerminalInv, ShellInv, SessionInv
  <2> QED
    BY <1>15, <2>1, <2>2 DEF TerminalInv, ShellInv, SessionInv
<1>17. ProcessInv'
  <2>1. ASSUME NEW x \in Process
        PROVE  /\ process'[x].owner # None => session'[process'[x].owner].shell = x
               /\ process'[x].state = "unborn" \/ process'[x].killed => process'[x].owner = None
               /\ process'[x].state = "unborn" => ~process'[x].killed
               /\ process'[x].state = "alive" => process'[x].killed \/ process'[x].owner # None
    <3>1. CASE x = p
      <4>1. ~process[p].killed
        BY DEF TerminalInv, ShellInv, ProcessInv
      <4> QED
        BY <1>5, <1>8, <1>9, <1>13, <3>1, <4>1
    <3>2. CASE x # p
      BY <1>13, <1>15, <3>2 DEF TerminalInv, ShellInv, ProcessInv, ProcessSet
    <3> QED
      BY <3>1, <3>2
  <2>2. ASSUME NEW r \in Session, session'[r].shell # None
        PROVE  /\ process'[session'[r].shell].owner = r
               /\ sessions'[session'[r].key] = r \/ session'[r].stray
               /\ Waits(r)' => process'[session'[r].shell].state = "dead"
    <3>1. sessions'[session'[r].key] = r \/ session'[r].stray
      BY <1>15, <2>2 DEF TerminalInv, ShellInv, ProcessInv
    <3>2. CASE r = s
      <4>1. ~Waits(s)
        BY <1>1, <1>5 DEF TerminalInv, ShellInv, ProcessInv
      <4>2. ~HasExit(a.pending)
        BY <1>1, <4>1 DEF Waits
      <4>3. Waits(r)' => event = Exit
        BY <1>9, <1>10, <3>2, <4>2 DEF Waits
      <4> QED
        BY <1>8, <1>9, <1>13, <3>1, <3>2, <4>3
    <3>3. CASE r # s
      <4>1. session'[r] = session[r] /\ (Waits(r)' <=> Waits(r))
        BY <1>9, <3>3 DEF Waits
      <4> QED
        BY <1>14, <2>2, <3>1, <3>3, <4>1 DEF TerminalInv, ShellInv, ProcessInv
    <3> QED
      BY <3>2, <3>3
  <2> QED
    BY <1>13, <2>1, <2>2 DEF ProcessInv
<1>18. FiberInv'
  <2>1. ASSUME NEW f \in Fiber, fiber'[f] # NoFiber
        PROVE  /\ process'[fiber'[f].shell].state # "unborn"
               /\ fiber'[f].step = "exited" => process'[fiber'[f].shell].owner = None
    <3>1. CASE fiber'[f] = w
      BY <1>12, <1>13, <3>1
    <3>2. CASE fiber'[f] = fiber[f]
      <4>1. fiber[f].shell \in Process
        BY <2>1, <3>2 DEF TerminalInv, ShellInv, FiberInv, FiberSet
      <4>2. CASE fiber[f].shell = p
        BY <1>13, <2>1, <3>2, <4>2 DEF TerminalInv, ShellInv, FiberInv
      <4>3. CASE fiber[f].shell # p
        BY <1>13, <2>1, <3>2, <4>1, <4>3 DEF TerminalInv, ShellInv, FiberInv
      <4> QED
        BY <4>2, <4>3
    <3> QED
      BY <1>12, <3>1, <3>2
  <2>2. ASSUME NEW r \in Session, session'[r].shell # None, ~session'[r].lossy
        PROVE  /\ session'[r].draining => \E f \in Fiber : Serves(f, r)'
               /\ process'[session'[r].shell].state = "dead" => Waits(r)'
    <3>1. ASSUME NEW f \in Fiber, Serves(f, r) PROVE Serves(f, r)'
      <4>1. f # d
        BY <1>11, <3>1, Numbers DEF Serves, NoFiber, None
      <4> QED
        BY <1>12, <1>15, <3>1, <4>1 DEF Serves
    <3>2. CASE r = s
      <4>1. CASE a.draining
        <5>1. \E f \in Fiber : Serves(f, r)
          BY <1>1, <1>15, <2>2, <3>2, <4>1 DEF TerminalInv, ShellInv, FiberInv
        <5>2. \E f \in Fiber : Serves(f, r)'
          BY <3>1, <5>1
        <5>3. process'[session'[r].shell].state = "dead" => Waits(r)'
          BY <1>8, <1>9, <1>10, <1>13, <3>2 DEF Waits
        <5> QED
          BY <5>2, <5>3
      <4>2. CASE ~a.draining
        <5>1. Serves(d, r)'
          BY <1>8, <1>9, <1>12, <3>2, <4>2 DEF Serves
        <5>2. process'[session'[r].shell].state = "dead" => Waits(r)'
          BY <1>8, <1>9, <1>10, <1>13, <3>2 DEF Waits
        <5> QED
          BY <1>11, <5>1, <5>2
      <4> QED
        BY <4>1, <4>2
    <3>3. CASE r # s
      <4>1. session'[r] = session[r] /\ (Waits(r)' <=> Waits(r))
        BY <1>9, <3>3 DEF Waits
      <4>2. process'[session[r].shell] = process[session[r].shell]
        BY <1>14, <2>2, <3>3, <4>1
      <4> QED
        BY <2>2, <3>1, <4>1, <4>2 DEF TerminalInv, ShellInv, FiberInv
    <3> QED
      BY <3>2, <3>3
  <2> QED
    BY <1>12, <2>1, <2>2 DEF FiberInv, FiberSet, NoFiber
<1>19. QueueInv' /\ ItemInv'
  BY WorkerStands DEF TerminalInv
<1>20. CallInv'
  BY <1>15, CallsStand DEF TerminalInv, ShellInv
<1>21. FileInv'
  <2>1. ASSUME NEW u \in Key PROVE Shown(u)' \subseteq Shown(u)
    <3>1. sessions[u] \in Session \cup {None}
      BY DEF TerminalInv, ShellInv, SessionInv
    <3> QED
      BY <1>15, <3>1, ShowsNoMore
  <2> QED
    BY <1>5, <2>1, FileStands DEF TerminalInv
<1> QED
  BY <1>16, <1>17, <1>18, <1>19, <1>20, <1>21 DEF TerminalInv, ShellInv

LEMMA ShellKeeps ==
    ASSUME TerminalInv, NEW p \in Process, Output(p) \/ ShellExits(p)
    PROVE  TerminalInv'
<1>1. CASE Output(p)
  <2>1. PICK e : e = outputs'
    OBVIOUS
  <2>2. e = outputs + 1 /\ outputs \in Nat
    BY <1>1, <2>1 DEF Output, TerminalInv, ItemInv
  <2>3. /\ Callback(p, e) /\ process' = process /\ process[p].state = "alive"
        /\ process[p].owner # None /\ UNCHANGED <<worker, sessions, call, storage, texts>>
    BY <1>1, <2>1 DEF Output
  <2>4. e \in 0 .. outputs' /\ e # Exit /\ outputs' \in Nat /\ outputs <= outputs'
    BY <2>1, <2>2 DEF Exit
  <2> QED
    BY <2>3, <2>4, CallbackKeeps
<1>2. CASE ShellExits(p)
  <2>1. /\ Callback(p, Exit) /\ process' = [process EXCEPT ![p].state = "dead"]
        /\ process[p].state = "alive" /\ process[p].owner # None
        /\ UNCHANGED <<worker, sessions, call, storage, texts, outputs>>
    BY <1>2 DEF ShellExits
  <2>2. Exit \in 0 .. outputs' /\ outputs' \in Nat /\ outputs <= outputs'
    BY <2>1 DEF Exit, TerminalInv, ItemInv
  <2> QED
    BY <2>1, <2>2, CallbackKeeps
<1> QED
  BY <1>1, <1>2

LEMMA KillTimerKeeps ==
    ASSUME TerminalInv, NEW p \in Process, KillTimer(p)
    PROVE  TerminalInv'
<1>1. PICK q, d, st : /\ q = process[p] /\ d = [q EXCEPT !.killed = FALSE, !.state = st]
                      /\ st \in {"dead", Escaped(q.state)} /\ q.killed
                      /\ process' = [process EXCEPT ![p].killed = FALSE, ![p].state = st]
  BY DEF KillTimer
<1>2. /\ process' = [process EXCEPT ![p] = d] /\ q.killed
      /\ sessions' = sessions /\ session' = session
      /\ UNCHANGED <<worker, fiber, call, storage, texts, outputs>>
  BY <1>1 DEF KillTimer, manager
<1>3. q \in ProcessSet /\ q.owner = None /\ q.state # "unborn"
  BY <1>1, <1>2 DEF TerminalInv, ShellInv, ProcessInv
<1>4. /\ d \in ProcessSet
      /\ d.owner = None /\ d.state \notin {"unborn", "alive"} /\ ~d.killed
  BY <1>1, <1>3 DEF ProcessSet, Escaped
<1>5. /\ process' \in [Process -> ProcessSet]
      /\ process'[p] = d /\ \A x \in Process \ {p} : process'[x] = process[x]
  BY <1>2, <1>4 DEF TerminalInv, ShellInv, ProcessInv
<1>6. ASSUME NEW r \in Session, session[r].shell # None
      PROVE  process'[session[r].shell] = process[session[r].shell]
  <2>1. session[r].shell \in Process /\ process[session[r].shell].owner = r
    BY <1>6 DEF TerminalInv, ShellInv, ProcessInv, SessionInv, SessionSet
  <2>2. session[r].shell # p
    BY <1>1, <1>3, <2>1, Numbers DEF None
  <2> QED
    BY <1>5, <2>1, <2>2
<1>7. ProcessInv'
  <2>1. ASSUME NEW x \in Process
        PROVE  /\ process'[x].owner # None => session'[process'[x].owner].shell = x
               /\ process'[x].state = "unborn" \/ process'[x].killed => process'[x].owner = None
               /\ process'[x].state = "unborn" => ~process'[x].killed
               /\ process'[x].state = "alive" => process'[x].killed \/ process'[x].owner # None
    <3>1. CASE x = p
      BY <1>4, <1>5, <3>1
    <3>2. CASE x # p
      BY <1>2, <1>5, <3>2 DEF TerminalInv, ShellInv, ProcessInv
    <3> QED
      BY <3>1, <3>2
  <2>2. ASSUME NEW r \in Session, session'[r].shell # None
        PROVE  /\ process'[session'[r].shell].owner = r
               /\ sessions'[session'[r].key] = r \/ session'[r].stray
               /\ Waits(r)' => process'[session'[r].shell].state = "dead"
    BY <1>2, <1>6, <2>2 DEF TerminalInv, ShellInv, ProcessInv, Waits
  <2> QED
    BY <1>5, <2>1, <2>2 DEF ProcessInv
<1>8. FiberInv'
  <2>1. ASSUME NEW f \in Fiber, fiber'[f] # NoFiber
        PROVE  /\ process'[fiber'[f].shell].state # "unborn"
               /\ fiber'[f].step = "exited" => process'[fiber'[f].shell].owner = None
    <3>1. fiber'[f] = fiber[f] /\ fiber[f].shell \in Process
      BY <1>2, <2>1 DEF TerminalInv, ShellInv, FiberInv, FiberSet
    <3>2. CASE fiber[f].shell = p
      BY <1>4, <1>5, <3>1, <3>2
    <3>3. CASE fiber[f].shell # p
      BY <1>5, <2>1, <3>1, <3>3 DEF TerminalInv, ShellInv, FiberInv
    <3> QED
      BY <3>2, <3>3
  <2>2. ASSUME NEW r \in Session, session'[r].shell # None, ~session'[r].lossy
        PROVE  /\ session'[r].draining => \E f \in Fiber : Serves(f, r)'
               /\ process'[session'[r].shell].state = "dead" => Waits(r)'
    BY <1>2, <1>6, <2>2 DEF TerminalInv, ShellInv, FiberInv, Waits, Serves
  <2> QED
    BY <1>2, <2>1, <2>2 DEF TerminalInv, ShellInv, FiberInv, FiberSet, NoFiber
<1>9. SessionInv'
  BY <1>2 DEF TerminalInv, ShellInv, SessionInv
<1>10. QueueInv' /\ ItemInv'
  BY <1>2, WorkerStands DEF TerminalInv, ItemInv
<1>11. CallInv'
  BY <1>2, CallsStand DEF TerminalInv, ShellInv
<1>12. FileInv'
  <2>1. \A u \in Key : Shown(u)' \subseteq Shown(u)
    BY <1>2 DEF Shown, Stray
  <2> QED
    BY <1>2, <2>1, FileStands DEF TerminalInv, ItemInv
<1> QED
  BY <1>7, <1>8, <1>9, <1>10, <1>11, <1>12 DEF TerminalInv, ShellInv

LEMMA DrainIdleKeeps ==
    ASSUME TerminalInv, NEW f \in Fiber, DrainIdle(f)
    PROVE  TerminalInv'
<1>1. PICK s, a : s = fiber[f].session /\ a = session[s]
  OBVIOUS
<1>2. PICK stale \in BOOLEAN : stale = (a.shell # fiber[f].shell)
  OBVIOUS
<1>3. PICK c : c = [a EXCEPT !.pending = <<>>, !.draining = FALSE,
                             !.lossy = a.lossy \/ (stale /\ a.draining)]
  OBVIOUS
<1>4. /\ fiber[f].step = "loop" /\ (stale \/ a.pending = <<>>)
      /\ session' = [session EXCEPT ![s] = c]
      /\ fiber' = [fiber EXCEPT ![f] = NoFiber]
      /\ UNCHANGED <<worker, sessions, process, call, storage, texts, outputs>>
  BY <1>1, <1>2, <1>3 DEF DrainIdle
<1>5. fiber \in [Fiber -> {NoFiber} \cup FiberSet] /\ fiber[f] \in FiberSet /\ s \in Session
  <2>1. fiber \in [Fiber -> {NoFiber} \cup FiberSet] /\ fiber[f] # NoFiber
    BY <1>4 DEF TerminalInv, ShellInv, FiberInv, NoFiber
  <2> QED
    BY <1>1, <2>1 DEF FiberSet
<1>6. /\ session \in [Session -> SessionSet(outputs)] /\ a \in SessionSet(outputs)
      /\ a.status = "running" <=> a.shell # None
      /\ a.pending # <<>> => a.draining
  BY <1>1, <1>5 DEF TerminalInv, ShellInv, SessionInv
<1>7. /\ c \in SessionSet(outputs) /\ c.key = a.key /\ c.status = a.status /\ c.shell = a.shell
      /\ c.pending = <<>> /\ ~c.draining /\ c.lossy = (a.lossy \/ (stale /\ a.draining))
      /\ c.history = a.history /\ c.stray = a.stray
  <2>1. <<>> \in Seq(0 .. outputs)
    BY EmptySeq
  <2>2. (a.lossy \/ (stale /\ a.draining)) \in BOOLEAN
    OBVIOUS
  <2> QED
    BY <1>3, <1>6, <2>1, <2>2 DEF SessionSet
<1>8. session'[s] = c /\ \A r \in Session \ {s} : session'[r] = session[r]
  BY <1>4, <1>5, <1>6
<1>9. \A r \in Session : /\ session'[r].key = session[r].key
                         /\ session'[r].status = session[r].status
                         /\ session'[r].shell = session[r].shell
                         /\ session'[r].history = session[r].history
                         /\ session'[r].stray = session[r].stray
  BY <1>1, <1>7, <1>8
<1>10. ShellInv'
  <2>1. ~HasExit(c.pending)
    BY <1>7, EmptySeq DEF HasExit
  <2>2. c.shell # None /\ ~c.lossy => ~session[s].lossy /\ ~Waits(s)
    <3>1. ~c.lossy => ~a.lossy /\ a.pending = <<>>
      BY <1>4, <1>6, <1>7
    <3>2. a.pending = <<>> => ~Waits(s)
      BY <1>1, EmptySeq DEF Waits, HasExit
    <3> QED
      BY <1>1, <3>1, <3>2
  <2>3. /\ fiber' \in [Fiber -> {NoFiber} \cup FiberSet]
        /\ \A g \in Fiber : \/ fiber'[g] = fiber[g]
                            \/ fiber'[g] = NoFiber /\ fiber[g].session = s /\ ~c.draining
    BY <1>1, <1>4, <1>5, <1>7
  <2>4. /\ sessions' \in [Key -> Session \cup {None}]
        /\ \A u \in Key : sessions'[u] # None => session'[sessions'[u]].key = u
    BY <1>4, <1>9 DEF TerminalInv, ShellInv, SessionInv
  <2>5. \A r \in Session : KeepsPlace(r)
    BY <1>4 DEF KeepsPlace
  <2>6. /\ c.status = session[s].status /\ c.key = session[s].key /\ c.shell = session[s].shell
        /\ c.status = "running" <=> c.shell # None
        /\ c.stray = session[s].stray /\ c.pending = <<>>
    BY <1>1, <1>6, <1>7
  <2> QED
    BY <1>4, <1>5, <1>7, <2>1, <2>2, <2>3, <2>4, <2>5, <2>6, RecordKeeps DEF TerminalInv
<1>11. QueueInv' /\ ItemInv'
  BY <1>4, WorkerStands DEF TerminalInv, ItemInv
<1>12. CallInv'
  BY <1>4, <1>9, CallsStand DEF TerminalInv, ShellInv
<1>13. FileInv'
  <2>1. ASSUME NEW u \in Key PROVE Shown(u)' \subseteq Shown(u)
    <3>1. sessions[u] \in Session \cup {None}
      BY DEF TerminalInv, ShellInv, SessionInv
    <3> QED
      BY <1>4, <1>9, <3>1, ShowsNoMore
  <2> QED
    BY <1>4, <2>1, FileStands DEF TerminalInv, ItemInv
<1> QED
  BY <1>10, <1>11, <1>12, <1>13 DEF TerminalInv

(* What a fiber has that takes an event.                                      *)
LEMMA DrainingHolds ==
    ASSUME TerminalInv, NEW f \in Fiber, Draining(f), NEW s, s = fiber[f].session,
           NEW a, a = session[s]
    PROVE  /\ fiber \in [Fiber -> {NoFiber} \cup FiberSet]
           /\ fiber[f] \in FiberSet /\ fiber[f] # NoFiber /\ s \in Session /\ s # None
           /\ session \in [Session -> SessionSet(outputs)] /\ a \in SessionSet(outputs)
           /\ a.shell = fiber[f].shell /\ a.shell \in Process /\ a.shell # None
           /\ a.key \in Key /\ a.status = "running" /\ a.draining
           /\ a.pending \in Seq(0 .. outputs) /\ a.pending # <<>>
           /\ process[a.shell].owner = s /\ outputs \in Nat
<1>1. /\ fiber \in [Fiber -> {NoFiber} \cup FiberSet] /\ fiber[f] # NoFiber
      /\ a.shell = fiber[f].shell /\ a.pending # <<>>
  BY DEF Draining, TerminalInv, ShellInv, FiberInv, NoFiber
<1>2. fiber[f] \in FiberSet /\ s \in Session /\ a.shell \in Process /\ s # None /\ a.shell # None
  BY <1>1, Numbers DEF FiberSet, None
<1>3. /\ session \in [Session -> SessionSet(outputs)] /\ a \in SessionSet(outputs)
      /\ a.status = "running" /\ a.key # NoKey /\ a.draining
  BY <1>1, <1>2 DEF TerminalInv, ShellInv, SessionInv
<1>4. a.key \in Key /\ a.pending \in Seq(0 .. outputs)
  BY <1>3 DEF SessionSet
<1>5. process[a.shell].owner = s /\ outputs \in Nat
  BY <1>2 DEF TerminalInv, ShellInv, ProcessInv, ItemInv
<1> QED
  BY <1>1, <1>2, <1>3, <1>4, <1>5

LEMMA DrainOutputKeeps ==
    ASSUME TerminalInv, NEW f \in Fiber, DrainOutput(f)
    PROVE  TerminalInv'
<1>1. PICK s, a, v : s = fiber[f].session /\ a = session[s] /\ v = fiber[f]
  OBVIOUS
<1>2. PICK e, history, t : e = Head(a.pending) /\ history = a.history \cup {e} /\ t = a.key
  OBVIOUS
<1>3. PICK c, w : /\ c = [a EXCEPT !.history = history, !.pending = Tail(a.pending)]
                  /\ w = [v EXCEPT !.step = "publish"]
  OBVIOUS
<1>4. /\ fiber \in [Fiber -> {NoFiber} \cup FiberSet]
      /\ v \in FiberSet /\ v # NoFiber /\ s \in Session /\ s # None
      /\ session \in [Session -> SessionSet(outputs)] /\ a \in SessionSet(outputs)
      /\ a.shell # None /\ t \in Key /\ a.status = "running" /\ a.draining
      /\ a.pending \in Seq(0 .. outputs) /\ a.pending # <<>> /\ outputs \in Nat
  BY <1>1, <1>2, DrainingHolds DEF DrainOutput
<1>5. /\ session' = [session EXCEPT ![s] = c] /\ fiber' = [fiber EXCEPT ![f] = w]
      /\ Persist(t, history) /\ e # Exit
      /\ UNCHANGED <<sessions, process, call, storage, outputs>>
  BY <1>1, <1>2, <1>3 DEF DrainOutput, Event, KeepRest
<1>6. /\ e \in 0 .. outputs /\ Tail(a.pending) \in Seq(0 .. outputs)
      /\ HasExit(Tail(a.pending)) <=> HasExit(a.pending)
  <2>1. Exit \in 0 .. outputs
    BY <1>4 DEF Exit
  <2>2. /\ Head(a.pending) \in 0 .. outputs /\ Tail(a.pending) \in Seq(0 .. outputs)
        /\ Head(a.pending) # Exit => (HasExit(Tail(a.pending)) <=> HasExit(a.pending))
    BY <1>4, <2>1, ExitWaits
  <2> QED
    BY <1>2, <1>5, <2>2
<1>7. history \in SUBSET (1 .. outputs)
  <2>1. e \in 1 .. outputs
    BY <1>4, <1>5, <1>6 DEF Exit
  <2> QED
    BY <1>2, <1>4, <2>1 DEF SessionSet
<1>8. /\ c \in SessionSet(outputs) /\ c.key = t /\ c.status = "running" /\ c.shell = a.shell
      /\ c.pending = Tail(a.pending) /\ c.draining /\ c.lossy = a.lossy
      /\ c.history = history /\ c.stray = a.stray
  BY <1>2, <1>3, <1>4, <1>6, <1>7 DEF SessionSet
<1>9. session'[s] = c /\ \A r \in Session \ {s} : session'[r] = session[r]
  BY <1>4, <1>5
<1>10. /\ fiber' \in [Fiber -> {NoFiber} \cup FiberSet]
       /\ \A g \in Fiber : \/ fiber'[g] = fiber[g]
                           \/ /\ fiber[g] # NoFiber /\ fiber'[g].step # "exited"
                              /\ fiber'[g].session = fiber[g].session
                              /\ fiber'[g].shell = fiber[g].shell
  <2>1. /\ w \in FiberSet /\ w.step = "publish" /\ w.session = v.session /\ w.shell = v.shell
    BY <1>3, <1>4 DEF FiberSet
  <2> QED
    BY <1>1, <1>4, <1>5, <2>1
<1>11. \A r \in Session : /\ session'[r].key = session[r].key
                          /\ session'[r].status = session[r].status
                          /\ session'[r].shell = session[r].shell
                          /\ session'[r].stray = session[r].stray
  BY <1>1, <1>2, <1>4, <1>8, <1>9
<1>12. ShellInv'
  <2>1. HasExit(c.pending) <=> Waits(s)
    BY <1>1, <1>6, <1>8 DEF Waits
  <2>2. /\ sessions' \in [Key -> Session \cup {None}]
        /\ \A u \in Key : sessions'[u] # None => session'[sessions'[u]].key = u
    BY <1>5, <1>11 DEF TerminalInv, ShellInv, SessionInv
  <2>3. \A r \in Session : KeepsPlace(r)
    BY <1>5 DEF KeepsPlace
  <2>4. /\ c.status # "none" /\ c.key \in Key /\ c.shell = session[s].shell
        /\ c.status = "running" /\ c.shell # None /\ c.key = session[s].key
        /\ c.stray = session[s].stray /\ session[s].draining /\ c.lossy = session[s].lossy
    BY <1>1, <1>2, <1>4, <1>8
  <2> QED
    BY <1>4, <1>5, <1>8, <1>10, <2>1, <2>2, <2>3, <2>4, RecordKeeps DEF TerminalInv
<1>13. QueueInv' /\ ItemInv'
  BY <1>4, <1>5, <1>7, PersistKeeps DEF TerminalInv
<1>14. CallInv'
  BY <1>5, <1>11, CallsStand DEF TerminalInv, ShellInv
<1>15. FileInv'
  <2>1. ASSUME NEW u \in Key \ {t} PROVE Shown(u)' \subseteq Shown(u)
    <3>1. sessions[u] # None => sessions[u] \in Session \ {s}
      BY <1>1, <1>2, <2>1 DEF TerminalInv, ShellInv, SessionInv
    <3> QED
      BY <1>5, <1>9, <1>11, <2>1, <3>1, ShowsNoMore
  <2>2. Shown(t)' \subseteq {history}
    <3>1. sessions[t] = s \/ a.stray
      BY <1>1, <1>2, <1>4 DEF TerminalInv, ShellInv, ProcessInv
    <3>2. CASE sessions[t] = s
      BY <1>5, <1>8, <1>9, <3>2 DEF Shown
    <3>3. CASE a.stray
      <4>1. Stray(t)'
        BY <1>4, <1>8, <1>9, <3>3 DEF Stray
      <4> QED
        BY <4>1 DEF Shown
    <3> QED
      BY <3>1, <3>2, <3>3
  <2> QED
    BY <1>4, <1>5, <1>7, <2>1, <2>2, FileOnPersist DEF TerminalInv
<1> QED
  BY <1>12, <1>13, <1>14, <1>15 DEF TerminalInv

LEMMA DrainExitKeeps ==
    ASSUME TerminalInv, NEW f \in Fiber, DrainExit(f)
    PROVE  TerminalInv'
<1>1. PICK s, a, v, p : s = fiber[f].session /\ a = session[s] /\ v = fiber[f] /\ p = fiber[f].shell
  OBVIOUS
<1>2. PICK c, w : /\ c = [a EXCEPT !.status = "exited", !.shell = None,
                                   !.pending = <<>>, !.draining = FALSE]
                  /\ w = [v EXCEPT !.step = "exited"]
  OBVIOUS
<1>3. PICK q, d : q = process[p] /\ d = [q EXCEPT !.owner = None]
  OBVIOUS
<1>4. /\ fiber \in [Fiber -> {NoFiber} \cup FiberSet]
      /\ v \in FiberSet /\ v # NoFiber /\ s \in Session
      /\ session \in [Session -> SessionSet(outputs)] /\ a \in SessionSet(outputs)
      /\ a.shell = p /\ p \in Process /\ p # None /\ a.key \in Key /\ a.status = "running"
      /\ a.pending \in Seq(0 .. outputs) /\ a.pending # <<>> /\ outputs \in Nat
  BY <1>1, DrainingHolds DEF DrainExit
<1>5. /\ session' = [session EXCEPT ![s] = c] /\ fiber' = [fiber EXCEPT ![f] = w]
      /\ process' = [process EXCEPT ![p] = d] /\ Head(a.pending) = Exit
      /\ UNCHANGED <<worker, sessions, call, storage, texts, outputs>>
  BY <1>1, <1>2, <1>3 DEF DrainExit, Halted, Event
<1>6. q.state = "dead"
  <2>1. Exit \in 0 .. outputs
    BY <1>4 DEF Exit
  <2>2. HasExit(a.pending)
    BY <1>4, <1>5, <2>1, ExitWaits
  <2> QED
    BY <1>1, <1>3, <1>4, <2>2 DEF TerminalInv, ShellInv, ProcessInv, Waits
<1>7. /\ c \in SessionSet(outputs) /\ c.key = a.key /\ c.status = "exited" /\ c.shell = None
      /\ c.pending = <<>> /\ c.history = a.history /\ c.stray = a.stray
  <2>1. <<>> \in Seq(0 .. outputs) /\ None \in Process \cup {None}
    BY EmptySeq
  <2> QED
    BY <1>2, <1>4, <2>1 DEF SessionSet
<1>8. session'[s] = c /\ \A r \in Session \ {s} : session'[r] = session[r]
  BY <1>4, <1>5
<1>9. /\ fiber' \in [Fiber -> {NoFiber} \cup FiberSet]
      /\ \A g \in Fiber : \/ fiber'[g] = fiber[g]
                          \/ /\ fiber[g] # NoFiber /\ fiber'[g].session = s
                             /\ fiber'[g].shell = session[s].shell
                             /\ fiber[g].session = s /\ fiber[g].shell = session[s].shell
  <2>1. /\ w \in FiberSet /\ w.session = v.session /\ w.shell = v.shell
    BY <1>2, <1>4 DEF FiberSet
  <2> QED
    BY <1>1, <1>4, <1>5, <2>1
<1>10. /\ process' \in [Process -> ProcessSet]
       /\ process'[p].owner = None /\ process'[p].state = q.state
       /\ \A x \in Process : x # p => process'[x] = process[x]
  <2>1. q \in ProcessSet
    BY <1>3, <1>4 DEF TerminalInv, ShellInv, ProcessInv
  <2>2. /\ d \in ProcessSet
        /\ d.owner = None /\ d.state = q.state
    BY <1>3, <2>1 DEF ProcessSet
  <2> QED
    BY <1>4, <1>5, <2>2 DEF TerminalInv, ShellInv, ProcessInv
<1>11. \A r \in Session : /\ session'[r].key = session[r].key
                          /\ session'[r].status = "none" <=> session[r].status = "none"
                          /\ session[r].shell = None => session'[r].shell = None
                          /\ session'[r].history = session[r].history
                          /\ session'[r].stray = session[r].stray
  BY <1>1, <1>4, <1>7, <1>8
<1>12. ShellInv'
  <2>1. /\ sessions' \in [Key -> Session \cup {None}]
        /\ \A u \in Key : sessions'[u] # None => session'[sessions'[u]].key = u
    BY <1>5, <1>11 DEF TerminalInv, ShellInv, SessionInv
  <2>2. \A r \in Session : KeepsPlace(r)
    BY <1>5 DEF KeepsPlace
  <2>3. /\ \A x \in Process : x # session[s].shell => process'[x] = process[x]
        /\ process'[session[s].shell].owner = None
        /\ process'[session[s].shell].state = process[session[s].shell].state
        /\ process[session[s].shell].state = "dead"
    BY <1>1, <1>3, <1>4, <1>6, <1>10
  <2>4. c.status \in {"exited", "error"} /\ c.key = session[s].key /\ c.key \in Key
    BY <1>1, <1>4, <1>7
  <2> QED
    BY <1>4, <1>5, <1>7, <1>9, <1>10, <2>1, <2>2, <2>3, <2>4, HaltKeeps DEF TerminalInv
<1>13. QueueInv' /\ ItemInv'
  BY <1>5, WorkerStands DEF TerminalInv, ItemInv
<1>14. CallInv'
  BY <1>5, <1>11, CallsStand DEF TerminalInv, ShellInv
<1>15. FileInv'
  <2>1. ASSUME NEW u \in Key PROVE Shown(u)' \subseteq Shown(u)
    <3>1. sessions[u] \in Session \cup {None}
      BY DEF TerminalInv, ShellInv, SessionInv
    <3> QED
      BY <1>5, <1>11, <3>1, ShowsNoMore
  <2> QED
    BY <1>5, <2>1, FileStands DEF TerminalInv, ItemInv
<1> QED
  BY <1>12, <1>13, <1>14, <1>15 DEF TerminalInv

LEMMA PublishedKeeps ==
    ASSUME TerminalInv, NEW f \in Fiber, Published(f)
    PROVE  TerminalInv'
<1>1. PICK v, w : v = fiber[f] /\ w = [v EXCEPT !.step = "loop"]
  OBVIOUS
<1>2. /\ session' = session /\ UNCHANGED <<worker, process, call, storage, texts, outputs>>
      /\ v \in FiberSet /\ v # NoFiber /\ fiber \in [Fiber -> {NoFiber} \cup FiberSet]
      /\ sessions \in [Key -> Session \cup {None}]
  BY <1>1 DEF Published, NoFiber, TerminalInv, ShellInv, FiberInv, SessionInv
<1>3. /\ fiber' \in [Fiber -> {NoFiber} \cup FiberSet]
      /\ \A g \in Fiber : \/ fiber'[g] = fiber[g]
                          \/ fiber[g].step = "exited" /\ fiber'[g] = NoFiber
                          \/ /\ fiber[g] # NoFiber /\ fiber'[g].step # "exited"
                             /\ fiber'[g].session = fiber[g].session
                             /\ fiber'[g].shell = fiber[g].shell
  <2>1. w \in FiberSet /\ w.step = "loop" /\ w.session = v.session /\ w.shell = v.shell
    BY <1>1, <1>2 DEF FiberSet
  <2>2. CASE fiber' = [fiber EXCEPT ![f] = w]
    BY <1>1, <1>2, <2>1, <2>2
  <2>3. CASE v.step = "exited" /\ fiber' = [fiber EXCEPT ![f] = NoFiber]
    BY <1>1, <1>2, <2>3
  <2> QED
    BY <1>1, <2>2, <2>3 DEF Published
<1>4. /\ sessions' \in [Key -> Session \cup {None}]
      /\ \A u \in Key : sessions'[u] \in {sessions[u], None}
      /\ \A r \in Session : KeepsPlace(r)
  <2>1. CASE sessions' = sessions
    BY <1>2, <2>1 DEF KeepsPlace
  <2>2. CASE sessions' = Evict(sessions, session, order)
    <3>1. PICK ss, o, x : ss = session /\ o = order /\ x = None
      OBVIOUS
    <3>2. sessions' = Evict(sessions, ss, o)
      BY <2>2, <3>1
    <3>3. /\ \A r \in Session \ {x} : ss[r].status = session[r].status
          /\ \A r \in Session : session'[r].key = session[r].key
      BY <1>2, <3>1
    <3>4. /\ sessions' \in [Key -> Session \cup {None}]
          /\ \A u \in Key : sessions'[u] \in {sessions[u], None}
          /\ \A r \in Session \ {x} : KeepsPlace(r)
      BY <3>2, <3>3, EvictStep DEF TerminalInv
    <3> QED
      BY <3>1, <3>4, Numbers DEF None
  <2> QED
    BY <2>1, <2>2 DEF Published
<1>5. ShellInv'
  BY <1>2, <1>3, <1>4, MapKeeps DEF TerminalInv
<1>6. QueueInv' /\ ItemInv'
  BY <1>2, WorkerStands DEF TerminalInv, ItemInv
<1>7. CallInv'
  BY <1>2, <1>4, CallsStand DEF TerminalInv, ShellInv
<1>8. FileInv'
  <2>1. \A u \in Key : Shown(u)' \subseteq Shown(u)
    BY <1>2, <1>4, ShowsNoMore
  <2> QED
    BY <1>2, <2>1, FileStands DEF TerminalInv, ItemInv
<1> QED
  BY <1>5, <1>6, <1>7, <1>8 DEF TerminalInv

LEMMA WriterKeeps == TerminalInv /\ PersistWorker => TerminalInv'
<1> SUFFICES ASSUME TerminalInv, PersistWorker PROVE TerminalInv'
  OBVIOUS
<1>1. /\ Dispatches /\ UNCHANGED <<manager, process, fiber, call, texts, outputs>>
      /\ sessions' = sessions /\ session' = session
  BY DEF PersistWorker, Written, WriteDies, WorkerTurns, Dispatches, manager
<1>2. QueueInv' /\ ItemInv'
  BY <1>1, DispatchKeeps DEF TerminalInv
<1>3. ShellInv'
  BY <1>1 DEF TerminalInv, ShellInv, SessionInv, ProcessInv, FiberInv, Waits, Serves
<1>4. CallInv'
  BY <1>1, CallsStand DEF TerminalInv, ShellInv
<1>5. FileInv'
  BY FileFollowsWorker DEF TerminalInv
<1> QED
  BY <1>2, <1>3, <1>4, <1>5 DEF TerminalInv

LEMMA TerminalSteps == TerminalInv /\ [Next]_terminals => TerminalInv'
<1> SUFFICES ASSUME TerminalInv, [Next]_terminals PROVE TerminalInv'
  OBVIOUS
<1>1. ASSUME NEW t \in Key, OpenNew(t) \/ OpenExisting(t) \/ Restart(t) \/ Clear(t) \/ Close(t)
      PROVE  TerminalInv'
  BY <1>1, OpenNewKeeps, OpenExistingKeeps, RestartKeeps, ClearKeeps, CloseKeeps
<1>2. ASSUME NEW h \in Thread,
             ReadHistory(h) \/ Persisted(h) \/ DeleteHistory(h) \/ Spawned(h) \/ SpawnFails(h)
      PROVE  TerminalInv'
  BY <1>2, ReadHistoryKeeps, PersistedKeeps, DeleteHistoryKeeps, SpawnedKeeps, SpawnFailsKeeps
<1>3. ASSUME NEW p \in Process, Output(p) \/ ShellExits(p) \/ KillTimer(p) PROVE TerminalInv'
  BY <1>3, ShellKeeps, KillTimerKeeps
<1>4. ASSUME NEW f \in Fiber, DrainIdle(f) \/ DrainOutput(f) \/ DrainExit(f) \/ Published(f)
      PROVE  TerminalInv'
  BY <1>4, DrainIdleKeeps, DrainOutputKeeps, DrainExitKeeps, PublishedKeeps
<1>5. CASE UNCHANGED terminals
  <2>1. /\ sessions' = sessions /\ session' = session
        /\ UNCHANGED <<worker, process, fiber, call, storage, texts, outputs>>
    BY <1>5 DEF terminals, manager
  <2>2. QueueInv' /\ ItemInv'
    BY <2>1, WorkerStands DEF TerminalInv, ItemInv
  <2>3. ShellInv'
    BY <2>1 DEF TerminalInv, ShellInv, SessionInv, ProcessInv, FiberInv, Waits, Serves
  <2>4. CallInv'
    BY <2>1, CallsStand DEF TerminalInv, ShellInv
  <2>5. FileInv'
    <3>1. \A u \in Key : Shown(u)' \subseteq Shown(u)
      BY <2>1 DEF Shown, Stray
    <3> QED
      BY <2>1, <3>1, FileStands DEF TerminalInv, ItemInv
  <2> QED
    BY <2>2, <2>3, <2>4, <2>5 DEF TerminalInv
<1> QED
  BY <1>1, <1>2, <1>3, <1>4, <1>5, WriterKeeps DEF Next, Calls, CallSteps, Shells, Drains

-----------------------------------------------------------------------------
(* The start: some terminals may run already.                                  *)

LEMMA MapAtStart ==
    ASSUME NEW opened \in Opened, NEW t \in Key, NEW m,
           m = Max({None} \cup {s \in DOMAIN opened : opened[s] = t})
    PROVE  /\ m \in Session \cup {None}
           /\ m # None => m \in DOMAIN opened /\ opened[m] = t
           /\ \A s \in DOMAIN opened : opened[s] = t => m = s
<1> DEFINE M == {s \in DOMAIN opened : opened[s] = t}
           S == {None} \cup M
<1>1. DOMAIN opened \subseteq Session /\ IsInjective(opened) /\ Session \subseteq Nat \ {0}
  BY OpenedAssumption, Numbers
<1>2. \A s \in M, r \in M : s = r
  BY <1>1 DEF IsInjective
<1>3. \E x \in S : \A y \in S : x >= y
  <2>1. CASE M = {}
    BY <2>1 DEF None
  <2>2. CASE M # {}
    <3>1. PICK x : x \in M
      BY <2>2
    <3>2. x \in Nat /\ \A y \in S : y = x \/ y = 0
      BY <1>1, <1>2, <3>1 DEF None
    <3> QED
      BY <3>1, <3>2
  <2> QED
    BY <2>1, <2>2
<1>4. m \in S /\ \A y \in S : m >= y
  BY <1>3 DEF Max
<1>5. \A s \in M : m = s
  <2>1. ASSUME NEW s \in M PROVE m = s
    <3>1. m >= s /\ s \in Nat \ {0}
      BY <1>1, <1>4
    <3>2. m # None
      BY <3>1 DEF None
    <3> QED
      BY <1>2, <1>4, <3>2
  <2> QED
    BY <2>1
<1> QED
  BY <1>1, <1>4, <1>5

LEMMA TerminalStarts == Init => TerminalInv
<1> SUFFICES ASSUME Init PROVE TerminalInv
  OBVIOUS
<1>1. PICK opened \in Opened :
         /\ sessions = [t \in Key |-> Max({None} \cup {s \in DOMAIN opened : opened[s] = t})]
         /\ session = [s \in Session |-> IF s \notin DOMAIN opened THEN Unmade ELSE
              [Unmade EXCEPT !.key = opened[s], !.status = "running", !.shell = s]]
         /\ process = [p \in Process |->
              IF p \notin DOMAIN opened THEN [state |-> "unborn", owner |-> None, killed |-> FALSE]
              ELSE [state |-> "alive", owner |-> p, killed |-> FALSE]]
  BY DEF Init
<1>2. /\ opened \in Seq(Key) /\ DOMAIN opened \subseteq Session /\ DOMAIN opened \subseteq Process
      /\ \A s \in DOMAIN opened : opened[s] \in Key
      /\ Session \subseteq Nat \ {0} /\ Process \subseteq Nat \ {0}
  <2>1. DOMAIN opened = 1 .. Len(opened) /\ opened \in Seq(Key)
    BY OpenedAssumption, LenProperties
  <2> QED
    BY <2>1, ElementOfSeq, OpenedAssumption, Numbers
<1>3. /\ queue = <<>> /\ latestByKey = [k \in Key |-> {}]
      /\ queuedKeys = {} /\ activeKeys = {} /\ taken = NoKey /\ running = Idle /\ requeue = NoKey
      /\ sent = [k \in Key |-> {}] /\ done = {}
      /\ fiber = [f \in Fiber |-> NoFiber] /\ call = [h \in Thread |-> NoCall]
      /\ file = [t \in Key |-> NoFile] /\ texts = <<>> /\ broken = {} /\ outputs = 0
  BY DEF Init, WorkerInit
<1>4. QueueInv
  <2>1. queue \in Seq(Key) /\ IsInjective(queue) /\ Len(queue) = 0
    BY <1>3, EmptySeq DEF IsInjective
  <2> QED
    BY <1>3, <2>1 DEF QueueInv
<1>5. Items = {}
  BY <1>3, EmptySeq DEF Items
<1>6. ItemInv
  <2>1. texts \in Seq(SUBSET (1 .. outputs)) /\ outputs \in Nat
    BY <1>3, EmptySeq
  <2>2. /\ sent \in [Key -> SUBSET Items] /\ latestByKey \in [Key -> SUBSET Items]
        /\ UNION {sent[k] : k \in Key} = {}
    BY <1>3
  <2> QED
    BY <1>3, <1>5, <2>1, <2>2 DEF ItemInv
<1>7. \A t \in Key :
        /\ sessions[t] \in Session \cup {None}
        /\ sessions[t] # None => sessions[t] \in DOMAIN opened /\ opened[sessions[t]] = t
        /\ \A s \in DOMAIN opened : opened[s] = t => sessions[t] = s
  BY <1>1, MapAtStart
<1>8. ASSUME NEW s \in Session
      PROVE  /\ session[s] \in SessionSet(outputs)
             /\ s \in DOMAIN opened => /\ session[s].key = opened[s] /\ session[s].shell = s
                                       /\ session[s].status = "running"
             /\ s \notin DOMAIN opened => /\ session[s].key = NoKey /\ session[s].shell = None
                                          /\ session[s].status = "none"
             /\ session[s].pending = <<>> /\ session[s].draining = FALSE
             /\ session[s].history = {} /\ session[s].stray = FALSE
  <2>1. PICK u, v : u = Unmade /\ v = [u EXCEPT !.key = opened[s], !.status = "running", !.shell = s]
    OBVIOUS
  <2>2. <<>> \in Seq(0 .. outputs) /\ None \in Process \cup {None}
    BY EmptySeq
  <2>3. /\ u \in SessionSet(outputs) /\ u.key = NoKey /\ u.shell = None /\ u.status = "none"
        /\ u.pending = <<>> /\ u.draining = FALSE /\ u.history = {} /\ u.stray = FALSE
    BY <2>1, <2>2 DEF Unmade, SessionSet
  <2>4. CASE s \notin DOMAIN opened
    BY <1>1, <2>1, <2>3, <2>4
  <2>5. CASE s \in DOMAIN opened
    <3>1. session[s] = v
      BY <1>1, <2>1, <2>5
    <3>2. /\ v \in SessionSet(outputs) /\ v.key = opened[s] /\ v.shell = s
          /\ v.status = "running" /\ v.pending = <<>> /\ v.draining = FALSE
          /\ v.history = {} /\ v.stray = FALSE
      BY <1>2, <2>1, <2>3, <2>5 DEF SessionSet
    <3> QED
      BY <2>5, <3>1, <3>2
  <2> QED
    BY <2>4, <2>5
<1>9. ASSUME NEW p \in Process
      PROVE  /\ process[p] \in ProcessSet
             /\ ~process[p].killed
             /\ p \in DOMAIN opened => process[p].state = "alive" /\ process[p].owner = p
             /\ p \notin DOMAIN opened => process[p].state = "unborn" /\ process[p].owner = None
  BY <1>1, <1>2 DEF ProcessSet
<1>10. SessionInv
  <2>1. sessions \in [Key -> Session \cup {None}] /\ session \in [Session -> SessionSet(outputs)]
    BY <1>1, <1>7, <1>8
  <2>2. \A t \in Key : sessions[t] # None => session[sessions[t]].key = t
    BY <1>2, <1>7, <1>8
  <2>3. \A s \in Session :
         /\ session[s].status = "none" <=> session[s].key = NoKey
         /\ session[s].status = "running" <=> session[s].shell # None
         /\ session[s].pending # <<>> => session[s].draining
    <3>1. ASSUME NEW s \in Session
          PROVE  /\ session[s].status = "none" <=> session[s].key = NoKey
                 /\ session[s].status = "running" <=> session[s].shell # None
                 /\ session[s].pending # <<>> => session[s].draining
      <4>1. CASE s \in DOMAIN opened
        <5>1. /\ session[s].status = "running" /\ session[s].key = opened[s]
              /\ session[s].shell = s /\ session[s].pending = <<>>
          BY <1>8, <4>1
        <5>2. opened[s] # NoKey /\ s # None
          BY <1>2, <4>1, Numbers DEF None
        <5> QED
          BY <5>1, <5>2
      <4>2. CASE s \notin DOMAIN opened
        BY <1>8, <4>2
      <4> QED
        BY <4>1, <4>2
    <3> QED
      BY <3>1
  <2> QED
    BY <2>1, <2>2, <2>3 DEF SessionInv
<1>11. ProcessInv
  <2>1. process \in [Process -> ProcessSet]
    BY <1>1, <1>9
  <2>2. \A p \in Process :
         /\ process[p].owner # None => session[process[p].owner].shell = p
         /\ process[p].state = "unborn" \/ process[p].killed => process[p].owner = None
         /\ process[p].state = "unborn" => ~process[p].killed
         /\ process[p].state = "alive" => process[p].killed \/ process[p].owner # None
    <3>1. ASSUME NEW p \in Process
          PROVE  /\ process[p].owner # None => session[process[p].owner].shell = p
                 /\ process[p].state = "unborn" \/ process[p].killed => process[p].owner = None
                 /\ process[p].state = "unborn" => ~process[p].killed
                 /\ process[p].state = "alive" => process[p].killed \/ process[p].owner # None
      <4>1. CASE p \in DOMAIN opened
        <5>1. p \in Session /\ p # None
          BY <1>2, <4>1 DEF None
        <5>2. session[p].shell = p
          BY <1>8, <4>1, <5>1
        <5> QED
          BY <1>9, <4>1, <5>1, <5>2
      <4>2. CASE p \notin DOMAIN opened
        BY <1>9, <4>2
      <4> QED
        BY <4>1, <4>2
    <3> QED
      BY <3>1
  <2>3. ASSUME NEW s \in Session, session[s].shell # None
        PROVE  /\ process[session[s].shell].owner = s
               /\ sessions[session[s].key] = s \/ session[s].stray
               /\ Waits(s) => process[session[s].shell].state = "dead"
    <3>1. s \in DOMAIN opened /\ session[s].shell = s /\ session[s].key = opened[s]
      BY <1>8, <2>3
    <3>2. ~Waits(s)
      <4>1. session[s].pending = <<>>
        BY <1>8
      <4> QED
        BY <4>1, EmptySeq DEF Waits, HasExit
    <3> QED
      BY <1>2, <1>7, <1>9, <3>1, <3>2
  <2> QED
    BY <2>1, <2>2, <2>3 DEF ProcessInv
<1>12. FiberInv
  <2>1. ASSUME NEW s \in Session, session[s].shell # None
        PROVE  ~session[s].draining /\ process[session[s].shell].state # "dead"
    <3>1. s \in DOMAIN opened /\ session[s].shell = s /\ session[s].draining = FALSE
      BY <1>8, <2>1
    <3>2. process[s].state = "alive"
      BY <1>2, <1>9, <3>1
    <3> QED
      BY <3>1, <3>2
  <2> QED
    BY <1>3, <2>1 DEF FiberInv
<1>13. CallInv
  <2>1. Readers = {}
    BY <1>3 DEF Readers, NoCall
  <2>2. Cardinality(Readers) <= Cardinality(Unused)
    BY <2>1, SessionsAreFinite, FS_EmptySet
  <2> QED
    BY <1>3, <2>2 DEF CallInv, CallOK
<1>14. FileInv
  <2>1. file \in [Key -> {NoFile} \cup SUBSET (1 .. outputs)] /\ broken \subseteq Key
    BY <1>3
  <2>2. ASSUME NEW t \in Key, NEW history \in Shown(t) PROVE Matches(file[t], history)
    <3>1. history = {}
      BY <1>7, <1>8, <2>2 DEF Shown
    <3> QED
      BY <1>3, <3>1 DEF Matches
  <2>3. \A t \in Key : latestByKey[t] = {} /\ running.key # t
    BY <1>3, Numbers DEF Idle
  <2> QED
    BY <2>1, <2>2, <2>3 DEF FileInv
<1> QED
  BY <1>4, <1>6, <1>10, <1>11, <1>12, <1>13, <1>14 DEF TerminalInv, ShellInv

THEOREM TerminalInvHolds == Spec => []TerminalInv
BY TerminalStarts, TerminalSteps, PTL DEF Spec

-----------------------------------------------------------------------------
(* The types of the state, with one place in the queue for each key and one    *)
(* history for each item (KeyedCoalescingWorker.ts:36-137,                     *)
(* Manager.ts:854-914).                                                        *)
THEOREM TerminalTypes == Spec => []TypeOK
<1>1. TerminalInv => TypeOK
  <2> SUFFICES ASSUME TerminalInv PROVE TypeOK
    OBVIOUS
  <2>1. WorkerTypeOK
    <3>1. Cardinality(ToSet(queue)) = Len(queue)
      <4>1. Len(queue) \in Nat /\ DOMAIN queue = 1 .. Len(queue)
        BY LenProperties DEF TerminalInv, QueueInv
      <4>2. queue \in [1 .. Len(queue) -> ToSet(queue)]
        BY <4>1, LenProperties DEF ToSet, TerminalInv, QueueInv
      <4>3. queue \in Bijection(1 .. Len(queue), ToSet(queue))
        BY <4>1, <4>2 DEF Bijection, Injection, Surjection, ToSet, TerminalInv, QueueInv, IsInjective
      <4> QED
        BY <4>1, <4>3, FS_CountingElements DEF ExistsBijection
    <3>2. \A S : S \in SUBSET Items => S \in SUBSET Item
      BY DEF TerminalInv, ItemInv
    <3>3. latestByKey \in [Key -> SUBSET Item] /\ sent \in [Key -> SUBSET Item] /\ done \subseteq Item
      BY <3>2 DEF TerminalInv, ItemInv
    <3>4. running \in [key : Key \cup {NoKey}, value : SUBSET Item]
      BY <3>2 DEF TerminalInv, ItemInv, QueueInv, Idle
    <3> QED
      BY <3>1, <3>3, <3>4 DEF WorkerTypeOK, TerminalInv, QueueInv
  <2>2. \A s \in Session :
         /\ session[s].status \in {"none", "starting", "running", "exited", "error"}
         /\ (session[s].status = "running") = (session[s].shell # None)
         /\ session[s].pending # <<>> => session[s].draining
    BY DEF TerminalInv, ShellInv, SessionInv, SessionSet
  <2>3. ASSUME NEW s \in Session, NEW i \in DOMAIN session[s].pending
        PROVE  session[s].pending[i] \in 0 .. outputs
    <3>1. session[s].pending \in Seq(0 .. outputs)
      BY DEF TerminalInv, ShellInv, SessionInv, SessionSet
    <3> QED
      BY <2>3, <3>1, ElementOfSeq, LenProperties
  <2>4. \A p \in Process : process[p].owner # None => session[process[p].owner].shell = p
    BY DEF TerminalInv, ShellInv, ProcessInv
  <2>5. /\ \A t \in Key : file[t] = NoFile \/ file[t] \subseteq 1 .. outputs
        /\ broken \subseteq Key
    BY DEF TerminalInv, FileInv
  <2>6. Len(texts) = NextItem - 1
    BY ItemNumbers DEF TerminalInv
  <2> QED
    BY <2>1, <2>2, <2>3, <2>4, <2>5, <2>6 DEF TypeOK, TerminalInv, ShellInv, SessionInv
<1> QED
  BY <1>1, TerminalInvHolds, PTL

(* drainKey resolves only when every item of the key has been processed: the   *)
(* item an enqueue merges while the key is queued, taken, processed or failed  *)
(* is never lost between the transactions (KeyedCoalescingWorker.ts:36-137).   *)
THEOREM DrainsAreHonest == Spec => []DrainIsHonest
<1>1. TerminalInv => DrainIsHonest
  <2> SUFFICES ASSUME TerminalInv, NEW k \in Key, Drained(k), NEW x \in sent[k] PROVE x \in done
    BY DEF DrainIsHonest
  <2>1. latestByKey[k] = {} /\ k \notin activeKeys
    BY DEF Drained
  <2>2. running.key # k
    BY <2>1, Numbers DEF TerminalInv, ItemInv, Idle
  <2> QED
    BY <2>1, <2>2 DEF TerminalInv, ItemInv
<1> QED
  BY <1>1, TerminalInvHolds, PTL

(* The file of a drained terminal holds what the terminal shows, for any       *)
(* number of terminals, calls and outputs (Manager.ts:854-914), unless a write *)
(* failed or an evicted session still runs.                                    *)
THEOREM FilesFollowHistories == Spec => []FileFollowsHistory
<1>1. TerminalInv => FileFollowsHistory
  <2> SUFFICES ASSUME TerminalInv, NEW t \in Key, Exists(t), Drained(t), t \notin broken,
                      \A s \in Session : session[s].key = t => ~session[s].stray
               PROVE  \/ file[t] = session[sessions[t]].history
                      \/ file[t] = NoFile /\ session[sessions[t]].history = {}
    BY DEF FileFollowsHistory
  <2>1. session[sessions[t]].history \in Shown(t)
    BY DEF Shown, Stray, Exists
  <2>2. latestByKey[t] = {} /\ running.key # t
    BY Numbers DEF Drained, TerminalInv, ItemInv, Idle
  <2>3. Matches(file[t], session[sessions[t]].history)
    BY <2>1, <2>2 DEF TerminalInv, FileInv
  <2> QED
    BY <2>3 DEF Matches
<1> QED
  BY <1>1, TerminalInvHolds, PTL

(* Every living shell is killed or has the session its terminal shows, but for *)
(* a session evicted while it was starting (Manager.ts:1060-1104, 1217-1240,   *)
(* 1299-1379).                                                                 *)
THEOREM ShellsAreNotLost == Spec => []NoShellIsLost
<1>1. TerminalInv => NoShellIsLost
  <2> SUFFICES ASSUME TerminalInv, NEW p \in Process, ~process[p].killed,
                      process[p].state \in {"alive", "escaped"}, process[p].state # "escaped"
               PROVE  /\ process[p].owner # None
                      /\ \/ sessions[session[process[p].owner].key] = process[p].owner
                         \/ session[process[p].owner].stray
    BY DEF NoShellIsLost
  <2>1. process[p].owner \in Session /\ process[p].owner # None
    BY DEF TerminalInv, ShellInv, ProcessInv, ProcessSet
  <2>2. session[process[p].owner].shell = p /\ p # None
    BY <2>1, Numbers DEF TerminalInv, ShellInv, ProcessInv, None
  <2> QED
    BY <2>1, <2>2 DEF TerminalInv, ShellInv, ProcessInv
<1> QED
  BY <1>1, TerminalInvHolds, PTL

(* The exit of a shell whose session says running waits, and a fiber is there  *)
(* that will take it, unless a clear or an old fiber dropped the events        *)
(* (Manager.ts:1106-1215).                                                     *)
THEOREM ExitsAreNoticed == Spec => []ExitIsNoticed
<1>1. TerminalInv => ExitIsNoticed
  <2> SUFFICES ASSUME TerminalInv, NEW s \in Session, session[s].status = "running",
                      ~session[s].lossy, process[session[s].shell].state = "dead"
               PROVE  /\ Exit \in ToSet(session[s].pending)
                      /\ \E f \in Fiber : fiber[f].session = s /\ fiber[f].shell = session[s].shell
    BY DEF ExitIsNoticed
  <2>1. session[s].shell # None /\ session[s].pending \in Seq(0 .. outputs)
    BY DEF TerminalInv, ShellInv, SessionInv, SessionSet
  <2>2. HasExit(session[s].pending)
    BY <2>1 DEF TerminalInv, ShellInv, FiberInv, Waits
  <2>3. Exit \in ToSet(session[s].pending)
    BY <2>1, <2>2, LenProperties DEF HasExit, ToSet
  <2>4. session[s].draining
    BY <2>2, EmptySeq DEF HasExit, TerminalInv, ShellInv, SessionInv
  <2> QED
    BY <2>1, <2>3, <2>4 DEF TerminalInv, ShellInv, FiberInv, Serves
<1> QED
  BY <1>1, TerminalInvHolds, PTL
=============================================================================
