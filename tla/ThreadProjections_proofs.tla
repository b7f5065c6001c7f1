----------------------- MODULE ThreadProjections_proofs -----------------------
(***************************************************************************)
(* Theorems about the projection pipeline and the rows of one thread.  For *)
(* any projectors, history and page size, when one read of the store       *)
(* covers its events, startup catches up and no crash or replay makes a    *)
(* projector repeat or skip an event; and then, for any number of turns,   *)
(* the tables keep every turn's message, and memory forgets what the       *)
(* tables forget.                                                          *)
(***************************************************************************)
EXTENDS ThreadProjections, SequenceTheorems, FiniteSetTheorems, NaturalsInduction, TLAPS

Upto(n) == [i \in 1 .. n |-> i]

(* The events up to n and the next are the events up to n + 1.               *)
LEMMA AppendNext == \A n \in Nat : Append(Upto(n), n + 1) = Upto(n + 1)
<1> TAKE n \in Nat
<1>1. /\ Upto(n) \in Seq(Nat) /\ Len(Upto(n)) = n
      /\ Upto(n + 1) \in Seq(Nat) /\ Len(Upto(n + 1)) = n + 1
  BY DEF Upto
<1>2. \A i \in 1 .. n + 1 : Append(Upto(n), n + 1)[i] = Upto(n + 1)[i]
  BY <1>1 DEF Upto
<1> QED
  BY <1>1, <1>2, SeqEqual

\* seq is a page of at most `remaining` sequences right after the given one.
PageAfter(seq, after, remaining) ==
    /\ seq \in Seq(Nat) /\ Len(seq) \in Nat
    /\ after + Len(seq) <= head /\ Len(seq) <= remaining
    /\ \A i \in 1 .. Len(seq) : seq[i] = after + i
    /\ Len(seq) = 0 => after = head \/ remaining = 0

(* Reading the store returns such a page.                                    *)
LEMMA PageIsNext ==
  ASSUME NEW after \in Nat, NEW remaining \in Nat, head \in Nat, after <= head
  PROVE  PageAfter(ReadPage(after, remaining), after, remaining)
<1> DEFINE n == Least(remaining, Least(PageSize, head - after))
<1>1. /\ n \in Nat /\ n <= remaining /\ after + n <= head
      /\ n = 0 => after = head \/ remaining = 0
  BY LimitAssumption DEF Least
<1> HIDE DEF n
<1>2. [i \in 1 .. n |-> after + i] \in Seq(Nat) /\ Len([i \in 1 .. n |-> after + i]) = n
  BY <1>1
<1> QED
  BY <1>1, <1>2 DEF PageAfter, ReadPage, n
-----------------------------------------------------------------------------
Position == Projectors[at]

PipelineShape ==
    /\ head \in Nat /\ head <= MaxLog
    /\ DOMAIN rows = Projector /\ cursor \in [Projector -> 0 .. head]
    /\ pc \in {"down", "boot", "up"} /\ at \in 1 .. Len(Projectors) /\ quota \in Nat

\* What was read for the projector at work begins right after its cursor.
PageFollows ==
    pc = "boot" =>
        /\ page \in Seq(Nat) /\ cursor[Position] + Len(page) <= head
        /\ \A i \in 1 .. Len(page) : page[i] = cursor[Position] + i

RowsInv == PipelineShape /\ PageFollows /\ AppliedInOrder

\* The page and what may still be read reach the end of the store, and the
\* projectors before the one at work are done.
ReachesHead ==
    /\ pc = "boot" =>
         /\ cursor[Position] + Len(page) + quota >= head
         /\ Len(page) = 0 => cursor[Position] = head
         /\ \A i \in 1 .. at - 1 : cursor[Projectors[i]] = head
    /\ BootstrapCatchesUp

(* Some projector is required, so the first position exists.                 *)
LEMMA FirstPosition ==
  /\ Len(Projectors) \in Nat /\ 1 \in 1 .. Len(Projectors)
  /\ \A i \in 1 .. Len(Projectors) : Projectors[i] \in Projector
  /\ \A p \in Projector : \E i \in 1 .. Len(Projectors) : p = Projectors[i]
<1>1. DOMAIN Projectors = 1 .. Len(Projectors) /\ Len(Projectors) \in Nat
  BY NamesAssumption
<1>2. PICK p \in Projector : TRUE
  BY NamesAssumption
<1> QED
  BY <1>1, <1>2 DEF Projector

(* The tables an earlier version left hold what their cursors say.           *)
LEMMA RowsInitially == Init => RowsInv /\ ReachesHead
<1> SUFFICES ASSUME Init PROVE RowsInv /\ ReachesHead
  OBVIOUS
<1>1. PICK n \in 0 .. MaxBacklog, new \in Missing :
        /\ head = n /\ pc = "down" /\ at = 1 /\ quota = 0
        /\ rows = [p \in Projector |-> IF p \in new THEN <<>> ELSE [i \in 1 .. n |-> i]]
        /\ cursor = [p \in Projector |-> IF p \in new THEN 0 ELSE n]
  BY DEF Init
<1>2. <<>> = [i \in 1 .. 0 |-> i]
  OBVIOUS
<1>3. AppliedInOrder
  BY <1>1, <1>2 DEF AppliedInOrder
<1> QED
  BY <1>1, <1>3, FirstPosition, LimitAssumption
  DEF RowsInv, PipelineShape, PageFollows, ReachesHead, BootstrapCatchesUp

(* A projector starts on the page after its cursor.                          *)
LEMMA StartsRight ==
  ASSUME PipelineShape, NEW i \in 1 .. Len(Projectors), StartProjector(i),
         UNCHANGED <<head, rows, cursor>>, pc' = "boot"
  PROVE  /\ PipelineShape' /\ PageFollows'
         /\ ReadLimit >= MaxLog =>
              /\ cursor'[Position'] + Len(page') + quota' >= head'
              /\ Len(page') = 0 => cursor'[Position'] = head'
<1> DEFINE c == cursor[Projectors[i]]
<1>1. c \in Nat /\ c <= head /\ head \in Nat
  BY FirstPosition DEF PipelineShape
<1>2. ReadLimit \in Nat /\ ReadLimit # 0 /\ MaxLog \in Nat
  BY LimitAssumption
<1>3. /\ page' = ReadPage(c, ReadLimit) /\ quota' = ReadLimit - Len(page')
      /\ at' = i /\ cursor'[Position'] = c
  BY DEF StartProjector, Position
<1>4. /\ page' \in Seq(Nat) /\ c + Len(page') <= head
      /\ Len(page') <= ReadLimit /\ Len(page') \in Nat
      /\ \A j \in 1 .. Len(page') : page'[j] = c + j
      /\ Len(page') = 0 => c = head
  <2>1. PageAfter(page', c, ReadLimit)
    BY <1>1, <1>2, <1>3, PageIsNext
  <2> QED
    BY <1>2, <2>1 DEF PageAfter
<1>5. quota' \in Nat /\ Len(page') + quota' = ReadLimit
  BY <1>2, <1>3, <1>4
<1>6. PipelineShape'
  BY <1>3, <1>5 DEF PipelineShape
<1>7. PageFollows'
  BY <1>3, <1>4 DEF PageFollows
<1>8. ReadLimit >= MaxLog => c + Len(page') + quota' >= head
  BY <1>1, <1>2, <1>4, <1>5 DEF PipelineShape
<1> QED
  BY <1>3, <1>4, <1>6, <1>7, <1>8

(* The next event of the page is applied to the rows and the cursor at once, *)
(* and the page that follows is read after it.                               *)
LEMMA AppliesNext ==
  ASSUME RowsInv, BootApply
  PROVE  /\ RowsInv'
         /\ ReachesHead => ReachesHead'
<1> DEFINE c == cursor[Position]
<1>1. /\ pc = "boot" /\ pc' = "boot" /\ page # <<>> /\ Position' = Position
      /\ UNCHANGED <<head, pc, at, snapSeq>>
  BY DEF BootApply, Position
<1>2. Position \in Projector
  BY FirstPosition DEF RowsInv, PipelineShape, Position
<1>3. c \in Nat /\ head \in Nat /\ quota \in Nat /\ rows[Position] = Upto(c)
  BY <1>2 DEF RowsInv, PipelineShape, AppliedInOrder, Upto
<1>4. /\ page \in Seq(Nat) /\ Len(page) \in Nat /\ Len(page) >= 1 /\ c + Len(page) <= head
      /\ \A i \in 1 .. Len(page) : page[i] = c + i
      /\ Head(page) = c + 1
  BY <1>1 DEF RowsInv, PageFollows
<1>5. /\ rows' = [rows EXCEPT ![Position] = Append(@, c + 1)]
      /\ cursor' = [cursor EXCEPT ![Position] = c + 1]
  BY <1>4 DEF BootApply, Applied, Position
<1>6. /\ cursor' \in [Projector -> 0 .. head] /\ cursor'[Position] = c + 1
      /\ \A p \in Projector : p # Position => cursor'[p] = cursor[p]
  BY <1>2, <1>3, <1>4, <1>5 DEF RowsInv, PipelineShape
<1>7. AppliedInOrder'
  <2>1. rows'[Position] = Upto(c + 1)
    BY <1>2, <1>3, <1>5, AppendNext DEF RowsInv, PipelineShape
  <2>2. \A p \in Projector : p # Position => rows'[p] = rows[p]
    BY <1>5 DEF RowsInv, PipelineShape
  <2> QED
    BY <1>6, <2>1, <2>2 DEF RowsInv, AppliedInOrder, Upto
<1>8. /\ page' \in Seq(Nat) /\ c + 1 + Len(page') <= head
      /\ quota' \in Nat /\ Len(page') \in Nat
      /\ \A i \in 1 .. Len(page') : page'[i] = c + 1 + i
      /\ Len(page) + quota = 1 + Len(page') + quota'
      /\ Len(page') = 0 => c + 1 = head \/ (quota = 0 /\ Len(page) = 1)
  <2>1. CASE Len(page) = 1
    <3>1. page' = ReadPage(c + 1, quota) /\ quota' = quota - Len(page')
      BY <1>4, <2>1 DEF BootApply
    <3>2. c + 1 \in Nat /\ c + 1 <= head
      BY <1>3, <1>4
    <3>3. /\ page' \in Seq(Nat) /\ c + 1 + Len(page') <= head /\ Len(page') <= quota
          /\ \A i \in 1 .. Len(page') : page'[i] = c + 1 + i
          /\ Len(page') = 0 => c + 1 = head \/ quota = 0
      <4>1. PageAfter(page', c + 1, quota)
        BY <1>3, <3>1, <3>2, PageIsNext
      <4> QED
        BY <4>1 DEF PageAfter
    <3> QED
      BY <1>3, <2>1, <3>1, <3>3
  <2>2. CASE Len(page) # 1
    <3>1. page' = Tail(page) /\ quota' = quota
      BY <2>2 DEF BootApply
    <3>2. /\ page' \in Seq(Nat) /\ Len(page') = Len(page) - 1
          /\ \A i \in 1 .. Len(page') : page'[i] = page[i + 1]
      BY <1>1, <1>4, <3>1
    <3>3. ASSUME NEW i \in 1 .. Len(page') PROVE page'[i] = c + 1 + i
      <4>1. i + 1 \in 1 .. Len(page) /\ page'[i] = page[i + 1]
        BY <1>4, <3>2
      <4>2. page[i + 1] = c + (i + 1)
        BY <1>4, <4>1
      <4> QED
        BY <1>3, <4>1, <4>2
    <3>4. Len(page') \in Nat /\ Len(page') # 0 /\ Len(page) = 1 + Len(page')
      BY <1>4, <2>2, <3>2
    <3>5. c + 1 + Len(page') <= head /\ Len(page) + quota = 1 + Len(page') + quota'
      BY <1>3, <1>4, <3>1, <3>4
    <3> QED
      BY <1>3, <3>1, <3>2, <3>3, <3>4, <3>5
  <2> QED
    BY <2>1, <2>2
<1>9. RowsInv'
  <2>1. DOMAIN rows' = Projector
    BY <1>5 DEF RowsInv, PipelineShape
  <2>2. PipelineShape'
    BY <1>1, <1>6, <1>8, <2>1 DEF RowsInv, PipelineShape
  <2>3. PageFollows'
    BY <1>1, <1>6, <1>8 DEF PageFollows
  <2> QED
    BY <1>7, <2>2, <2>3 DEF RowsInv
<1>10. ASSUME ReachesHead PROVE ReachesHead'
  <2>1. c + Len(page) + quota >= head /\ \A i \in 1 .. at - 1 : cursor[Projectors[i]] = head
    BY <1>1, <1>10 DEF ReachesHead
  <2>2. c + 1 + Len(page') + quota' >= head
    BY <1>3, <1>4, <1>8, <2>1
  <2>3. ASSUME Len(page') = 0 PROVE c + 1 = head
    <3>1. CASE quota = 0 /\ Len(page) = 1
      BY <1>3, <1>8, <2>1, <2>3, <3>1
    <3> QED
      BY <1>8, <2>3, <3>1
  <2>4. \A i \in 1 .. at - 1 : cursor'[Projectors[i]] = head
    <3>1. \A i \in 1 .. at - 1 : Projectors[i] \in Projector /\ Projectors[i] # Position
      BY <1>3, <1>4, <2>1, FirstPosition DEF RowsInv, PipelineShape
    <3> QED
      BY <1>6, <2>1, <3>1
  <2> QED
    BY <1>1, <1>6, <2>2, <2>3, <2>4 DEF ReachesHead, BootstrapCatchesUp
<1> QED
  BY <1>9, <1>10

(* A live event is appended to every projector at once.                      *)
LEMMA LiveAppends ==
  ASSUME RowsInv, ReachesHead, Live
  PROVE  RowsInv' /\ ReachesHead'
<1>1. /\ pc = "up" /\ pc' = "up" /\ head' = head + 1 /\ snapSeq' = head'
      /\ rows' = [p \in Projector |-> Append(rows[p], head')]
      /\ cursor' = [p \in Projector |-> head']
      /\ head < MaxLog /\ UNCHANGED <<at, page, quota>>
  BY DEF Live
<1>2. head \in Nat /\ head' \in Nat /\ MaxLog \in Nat /\ head' <= MaxLog
  BY <1>1, LimitAssumption DEF RowsInv, PipelineShape
<1>3. ASSUME NEW p \in Projector PROVE rows'[p] = Upto(head + 1) /\ cursor'[p] = head + 1
  <2>1. rows[p] = Upto(head)
    BY <1>1, <1>3 DEF ReachesHead, BootstrapCatchesUp, RowsInv, AppliedInOrder, Upto
  <2> QED
    BY <1>1, <1>2, <1>3, <2>1, AppendNext
<1>4. AppliedInOrder'
  BY <1>3 DEF AppliedInOrder, Upto
<1>5. PipelineShape'
  <2>1. cursor' \in [Projector -> 0 .. head']
    BY <1>1, <1>2
  <2> QED
    BY <1>1, <1>2, <2>1 DEF RowsInv, PipelineShape
<1> QED
  BY <1>1, <1>3, <1>4, <1>5 DEF RowsInv, PageFollows, ReachesHead, BootstrapCatchesUp

(* The server comes up when the last projector is done, and all are.         *)
LEMMA UpIsCaughtUp ==
  ASSUME RowsInv, ReachesHead, BootDone
  PROVE  ReachesHead'
<1>1. /\ pc = "boot" /\ pc' = "up" /\ page = <<>> /\ at = Len(Projectors)
      /\ snapSeq' = SnapshotSequence /\ UNCHANGED <<head, cursor>>
  BY DEF BootDone
<1>2. \A i \in 1 .. Len(Projectors) : cursor[Projectors[i]] = head
  <2> TAKE i \in 1 .. Len(Projectors)
  <2>1. i = at \/ i \in 1 .. at - 1
    BY <1>1, FirstPosition
  <2> QED
    BY <1>1, <2>1 DEF ReachesHead, Position
<1>3. \A p \in Projector : cursor[p] = head
  BY <1>2, FirstPosition
<1>4. {cursor[p] : p \in Required} = {head}
  BY <1>3, NamesAssumption
<1>5. Min({head}) = head
  BY DEF RowsInv, PipelineShape, Min
<1> QED
  BY <1>1, <1>3, <1>4, <1>5 DEF ReachesHead, BootstrapCatchesUp, SnapshotSequence

(* Every step keeps the rows in order and the catch-up within reach, when    *)
(* one read can cover the log.                                               *)
LEMMA PipelineStep ==
  ASSUME ReadLimit >= MaxLog, RowsInv, ReachesHead, [Next]_vars
  PROVE  RowsInv' /\ ReachesHead'
<1>1. CASE Boot
  <2>1. /\ StartProjector(1) /\ pc' = "boot" /\ at' = 1
        /\ UNCHANGED <<head, rows, cursor, snapSeq>>
    BY <1>1 DEF Boot, StartProjector
  <2>2. /\ PipelineShape' /\ PageFollows'
        /\ cursor'[Position'] + Len(page') + quota' >= head'
        /\ Len(page') = 0 => cursor'[Position'] = head'
    BY <2>1, StartsRight, FirstPosition DEF RowsInv
  <2> QED
    BY <2>1, <2>2 DEF RowsInv, AppliedInOrder, ReachesHead, BootstrapCatchesUp
<1>2. CASE BootApply
  BY <1>2, AppliesNext
<1>3. CASE BootNext
  <2>1. /\ StartProjector(at + 1) /\ pc = "boot" /\ pc' = "boot" /\ at' = at + 1
        /\ page = <<>> /\ at \in 1 .. Len(Projectors) /\ at + 1 \in 1 .. Len(Projectors)
        /\ UNCHANGED <<head, rows, cursor, snapSeq>>
    BY <1>3, FirstPosition DEF BootNext, StartProjector, RowsInv, PipelineShape
  <2>2. /\ PipelineShape' /\ PageFollows'
        /\ cursor'[Position'] + Len(page') + quota' >= head'
        /\ Len(page') = 0 => cursor'[Position'] = head'
    BY <2>1, StartsRight DEF RowsInv
  <2>3. ASSUME NEW i \in 1 .. at' - 1 PROVE cursor'[Projectors[i]] = head'
    <3>1. i = at \/ i \in 1 .. at - 1
      BY <2>1
    <3> QED
      BY <2>1, <3>1 DEF ReachesHead, Position
  <2> QED
    BY <2>1, <2>2, <2>3 DEF RowsInv, AppliedInOrder, ReachesHead, BootstrapCatchesUp
<1>4. CASE BootDone
  <2>1. RowsInv'
    BY <1>4 DEF BootDone, RowsInv, PipelineShape, PageFollows, AppliedInOrder
  <2> QED
    BY <1>4, <2>1, UpIsCaughtUp
<1>5. CASE Live
  BY <1>5, LiveAppends
<1>6. CASE Crash
  BY <1>6, FirstPosition DEF Crash, RowsInv, PipelineShape, PageFollows, AppliedInOrder,
     ReachesHead, BootstrapCatchesUp
<1>7. CASE UNCHANGED vars
  BY <1>7 DEF vars, RowsInv, PipelineShape, PageFollows, AppliedInOrder, ReachesHead,
     BootstrapCatchesUp, Position
<1> QED
  BY <1>1, <1>2, <1>3, <1>4, <1>5, <1>6, <1>7 DEF Next
-----------------------------------------------------------------------------
(* As long as one read of the store covers its events, no crash, replay or   *)
(* live event makes a projector skip or repeat one                           *)
(* (ProjectionPipeline.ts:1252-1299).  Without the condition a live event    *)
(* would be applied past the events the bootstrap left behind.               *)
THEOREM AppliedOnce == ReadLimit >= MaxLog => (Spec => []AppliedInOrder)
<1> SUFFICES ASSUME ReadLimit >= MaxLog PROVE Spec => []AppliedInOrder
  OBVIOUS
<1>1. RowsInv /\ ReachesHead /\ [Next]_vars => (RowsInv /\ ReachesHead)'
  BY PipelineStep
<1>2. RowsInv => AppliedInOrder
  BY DEF RowsInv
<1> QED
  BY RowsInitially, <1>1, <1>2, PTL DEF Spec

(* Under the same condition a server that is up has no event behind a        *)
(* cursor, and its read model starts at the head of the store                *)
(* (ProjectionPipeline.ts:1285-1331, ProjectionSnapshotQuery.ts:143-166).    *)
THEOREM BootCatchesUp == ReadLimit >= MaxLog => (Spec => []BootstrapCatchesUp)
<1> SUFFICES ASSUME ReadLimit >= MaxLog PROVE Spec => []BootstrapCatchesUp
  OBVIOUS
<1>1. RowsInv /\ ReachesHead /\ [Next]_vars => (RowsInv /\ ReachesHead)'
  BY PipelineStep
<1>2. ReachesHead => BootstrapCatchesUp
  BY DEF ReachesHead
<1> QED
  BY RowsInitially, <1>1, <1>2, PTL DEF Spec

-----------------------------------------------------------------------------
(* A thread's steps are the pipeline's.                                      *)
LEMMA ThreadIsPipeline ==
  /\ ThreadInit => Init
  /\ [ThreadNext]_threadVars => [Next]_vars
<1>1. ThreadInit => Init
  BY DEF ThreadInit
<1>2. ThreadNext => Next
  BY DEF ThreadNext, ThreadBoot, ThreadBootApply, ThreadBootDone, ThreadLive, ThreadCrash, Next
<1>3. UNCHANGED threadVars => UNCHANGED vars
  BY DEF threadVars, vars
<1> QED
  BY <1>1, <1>2, <1>3

(* The pipeline with the rows of a thread implements the pipeline, so that   *)
(* the theorems above hold of it (ProjectionPipeline.ts:1252-1331).          *)
THEOREM ThreadImplementsPipeline == ThreadSpec => Spec
BY ThreadIsPipeline, PTL DEF ThreadSpec, Spec

-----------------------------------------------------------------------------
(* What the first n events of evs asked for and replied to.                  *)
Asked(evs, n, k) == \E i \in 1 .. n : evs[i].type = "turn-start" /\ evs[i].turn = k
Replied(evs, n, k) == \E i \in 1 .. n : evs[i].type = "assistant" /\ evs[i].turn = k

TablesShape(tb) ==
    tb \in [messages : SUBSET Message, turns : [Turn -> TurnRow], pending : Turn \cup {None}]

\* At its n-th event the turns projector has given out only messages that were
\* sent, none of them twice, and the pending one to nobody.
PendingAsked(tb, evs, n) ==
    /\ tb.pending # None => Asked(evs, n, tb.pending)
    /\ \A x \in Turn : LET k == tb.turns[x].pendingMessage
                       IN k # None => Asked(evs, n, k) /\ k # tb.pending
    /\ \A x, y \in Turn : tb.turns[x].pendingMessage = tb.turns[y].pendingMessage
                           /\ tb.turns[x].pendingMessage # None => x = y

\* Until a revert a projector has noted everything it has met.
Noted(tb, evs, m, t) ==
    Unreverted(evs) =>
        /\ \A k \in Turn : Asked(evs, m, k) => User(k) \in tb.messages
        /\ \A k \in Turn : Replied(evs, t, k) => tb.turns[k].turn

TablesInv(tb, evs, m, t) ==
    /\ TablesShape(tb)
    /\ PendingAsked(tb, evs, t)
    /\ \A k \in Turn : Assistant(k) \in tb.messages => Replied(evs, m, k)
    /\ Noted(tb, evs, m, t)

\* Messages and turns at the same event belong together.
Together(tb) ==
    /\ tb.pending # None => User(tb.pending) \in tb.messages
    /\ \A x \in Turn : LET k == tb.turns[x].pendingMessage
                       IN k # None => User(k) \in tb.messages
    /\ \A m \in tb.messages : m.role = "assistant" => tb.turns[m.turn].turn

CaughtUp == cursor["messages"] = head /\ cursor["turns"] = head

ThreadInv ==
    /\ events \in Seq(Event) /\ Len(events) = head /\ AskedOnce(events)
    /\ TablesInv(tables, events, cursor["messages"], cursor["turns"])
    /\ CaughtUp => Together(tables)
    /\ ~CaughtUp => Unreverted(events)

(* The messages and rows are what they say.                                  *)
LEMMA Shapes ==
  /\ None \notin Turn /\ NoRow \in TurnRow /\ None \in Count /\ IsFiniteSet(Turn)
  /\ \A k \in Turn : User(k) \in Message /\ Assistant(k) \in Message
  /\ \A k, j : User(k) # Assistant(j)
  /\ \A k : User(k).role = "user" /\ User(k).turn = k
  /\ \A k : Assistant(k).role = "assistant" /\ Assistant(k).turn = k
  /\ \A m \in Message : m.turn \in Turn /\ (m = User(m.turn) \/ m = Assistant(m.turn))
  /\ \A m \in Message : /\ m.role = "user" => m = User(m.turn)
                        /\ m.role = "assistant" => m = Assistant(m.turn)
<1>1. Cardinality(Turn) \in Nat /\ Turn = 1 .. Cardinality(Turn) /\ IsFiniteSet(Turn)
  BY TurnAssumption, FS_CardinalityType
<1>2. None \notin Turn /\ None \in Count
  BY <1>1 DEF None, Count
<1> QED
  BY <1>1, <1>2 DEF NoRow, TurnRow, User, Assistant, Message

(* What holds of a log's first events holds of another with the same.        *)
LEMMA SameEvents ==
  ASSUME NEW evs \in Seq(Event), NEW more \in Seq(Event), NEW n \in Nat,
         \A i \in 1 .. n : more[i] = evs[i], NEW m \in 0 .. n, NEW t \in 0 .. n,
         Unreverted(more) => Unreverted(evs), NEW tb, TablesInv(tb, evs, m, t)
  PROVE  TablesInv(tb, more, m, t)
<1>1. ASSUME NEW j \in 0 .. n, NEW k
      PROVE  /\ Asked(more, j, k) <=> Asked(evs, j, k)
             /\ Replied(more, j, k) <=> Replied(evs, j, k)
  <2>1. \A i \in 1 .. j : more[i] = evs[i]
    OBVIOUS
  <2> QED
    BY <2>1 DEF Asked, Replied
<1>2. PendingAsked(tb, more, t)
  BY <1>1 DEF TablesInv, PendingAsked
<1>3. Noted(tb, more, m, t)
  BY <1>1 DEF TablesInv, Noted
<1> QED
  BY <1>1, <1>2, <1>3 DEF TablesInv

(* One more event asks for its turn, or replies to it.                       *)
LEMMA OneMore ==
  ASSUME NEW evs, NEW n \in Nat, NEW k
  PROVE  /\ Asked(evs, n + 1, k) <=>
              Asked(evs, n, k) \/ (evs[n + 1].type = "turn-start" /\ evs[n + 1].turn = k)
         /\ Replied(evs, n + 1, k) <=>
              Replied(evs, n, k) \/ (evs[n + 1].type = "assistant" /\ evs[n + 1].turn = k)
<1>1. \A i : i \in 1 .. n + 1 <=> i \in 1 .. n \/ i = n + 1
  OBVIOUS
<1> QED
  BY <1>1 DEF Asked, Replied

-----------------------------------------------------------------------------
(* A revert keeps what the tables know, and some of the rest.                *)
LEMMA RetainKeeps ==
  ASSUME NEW messages, NEW turns, NEW n
  PROVE  LET known == KnownToTables(messages, turns, n)
         IN known \subseteq Retain(messages, known, n) /\ Retain(messages, known, n) \subseteq messages
BY DEF Retain, StandIns, Users, KnownToTables

(* What the messages projector makes of an event.                            *)
LEMMA MessagesAfter ==
  ASSUME NEW tb, TablesShape(tb), NEW e \in Event
  PROVE  LET new == ApplyMessages(tb, e)
             made == Project("messages", tb, e)
         IN /\ TablesShape(made) /\ made.messages = new
            /\ made.turns = tb.turns /\ made.pending = tb.pending
            /\ e.type = "turn-start" => new = tb.messages \cup {User(e.turn)}
            /\ e.type = "assistant" => new = tb.messages \cup {Assistant(e.turn)}
            /\ e.type \in {"running", "diff"} => new = tb.messages
            /\ e.type = "reverted" =>
                 /\ new \subseteq tb.messages
                 /\ KnownToTables(tb.messages, tb.turns, e.count) \subseteq new
<1> DEFINE new == ApplyMessages(tb, e)
<1>1. /\ e.type = "turn-start" => new = tb.messages \cup {User(e.turn)}
      /\ e.type = "assistant" => new = tb.messages \cup {Assistant(e.turn)}
      /\ e.type \in {"running", "diff"} => new = tb.messages
  BY DEF ApplyMessages, Upsert
<1>2. e.type = "reverted" =>
        /\ new \subseteq tb.messages
        /\ KnownToTables(tb.messages, tb.turns, e.count) \subseteq new
  BY RetainKeeps DEF ApplyMessages
<1>3. /\ e.type \in {"turn-start", "running", "assistant", "diff", "reverted"}
      /\ e.type # "reverted" => e.turn \in Turn
  BY DEF Event
<1>4. new \in SUBSET Message
  BY <1>1, <1>2, <1>3, Shapes DEF TablesShape
<1>5. Project("messages", tb, e) = [tb EXCEPT !.messages = new]
  BY DEF Project
<1> HIDE DEF new
<1> QED
  BY <1>1, <1>2, <1>4, <1>5 DEF TablesShape, new

(* The messages projector keeps the invariant.                               *)
LEMMA MessagesProjected ==
  ASSUME NEW evs \in Seq(Event), NEW n \in Nat, n + 1 \in 1 .. Len(evs), NEW t \in 0 .. Len(evs),
         NEW tb, TablesInv(tb, evs, n, t)
  PROVE  TablesInv(Project("messages", tb, evs[n + 1]), evs, n + 1, t)
<1> DEFINE e == evs[n + 1]
           made == Project("messages", tb, e)
<1>1. e \in Event /\ TablesShape(tb)
  BY DEF TablesInv
<1>2. /\ e.type \in {"turn-start", "running", "assistant", "diff", "reverted"}
      /\ e.type # "reverted" => e.turn \in Turn
  BY <1>1 DEF Event
<1> HIDE DEF e
<1>3. /\ TablesShape(made) /\ made.turns = tb.turns /\ made.pending = tb.pending
      /\ e.type = "turn-start" => made.messages = tb.messages \cup {User(e.turn)}
      /\ e.type = "assistant" => made.messages = tb.messages \cup {Assistant(e.turn)}
      /\ e.type \in {"running", "diff"} => made.messages = tb.messages
      /\ e.type = "reverted" => made.messages \subseteq tb.messages
  <2> DEFINE new == ApplyMessages(tb, e)
  <2>1. /\ TablesShape(made) /\ made.messages = new
        /\ made.turns = tb.turns /\ made.pending = tb.pending
    BY <1>1, MessagesAfter
  <2>2. /\ e.type = "turn-start" => new = tb.messages \cup {User(e.turn)}
        /\ e.type = "assistant" => new = tb.messages \cup {Assistant(e.turn)}
        /\ e.type \in {"running", "diff"} => new = tb.messages
        /\ e.type = "reverted" => new \subseteq tb.messages
    BY <1>1, MessagesAfter
  <2> HIDE DEF made, new
  <2> QED
    BY <2>1, <2>2
<1> HIDE DEF made
<1>4. PendingAsked(made, evs, t)
  BY <1>3 DEF TablesInv, PendingAsked
<1>5. ASSUME NEW k \in Turn, Assistant(k) \in made.messages PROVE Replied(evs, n + 1, k)
  <2>1. CASE Assistant(k) \in tb.messages
    BY <2>1, OneMore DEF TablesInv
  <2>2. CASE Assistant(k) \notin tb.messages
    <3>1. e.type = "assistant" /\ e.turn = k
      BY <1>2, <1>3, <1>5, <2>2, Shapes
    <3> QED
      BY <3>1, OneMore DEF e
  <2> QED
    BY <2>1, <2>2
<1>6. ASSUME Unreverted(evs), NEW k \in Turn, Asked(evs, n + 1, k) PROVE User(k) \in made.messages
  <2>1. e.type # "reverted"
    BY <1>6 DEF Unreverted, e
  <2>2. Asked(evs, n, k) => User(k) \in tb.messages
    BY <1>6 DEF TablesInv, Noted
  <2>3. Asked(evs, n, k) \/ (e.type = "turn-start" /\ e.turn = k)
    BY <1>6, OneMore DEF e
  <2> QED
    BY <1>2, <1>3, <2>1, <2>2, <2>3
<1>7. Noted(made, evs, n + 1, t)
  BY <1>3, <1>6 DEF TablesInv, Noted
<1> QED
  BY <1>3, <1>4, <1>5, <1>7 DEF TablesInv, made, e

(* What the turns projector makes of an event.                               *)
LEMMA TurnsAfter ==
  ASSUME NEW tb, TablesShape(tb), NEW e \in Event
  PROVE  LET new == ApplyTurns(tb, e)
             made == Project("turns", tb, e)
         IN /\ TablesShape(made) /\ made.turns = new
            /\ made.messages = tb.messages /\ made.pending = ApplyPending(tb, e)
            /\ e.type # "reverted" => \A x \in Turn : tb.turns[x].turn => new[x].turn
            /\ e.type = "assistant" => new[e.turn].turn
            /\ e.type \in {"turn-start", "assistant", "diff"} =>
                 \A x \in Turn : new[x].pendingMessage = tb.turns[x].pendingMessage
            /\ e.type = "running" =>
                 \A x \in Turn : \/ new[x].pendingMessage = tb.turns[x].pendingMessage
                                 \/ x = e.turn /\ new[x].pendingMessage = tb.pending
            /\ e.type = "reverted" =>
                 \A x \in Turn : \/ new[x] = NoRow
                                 \/ new[x] = tb.turns[x] /\ x \in Kept(CountsOf(tb.turns), e.count)
<1> DEFINE new == ApplyTurns(tb, e)
<1>1. /\ tb.turns \in [Turn -> TurnRow] /\ tb.pending \in Turn \cup {None}
      /\ e.type \in {"turn-start", "running", "assistant", "diff", "reverted"}
      /\ e.type # "reverted" => e.turn \in Turn
      /\ e.count \in Count
  BY DEF TablesShape, Event
<1>2. ApplyPending(tb, e) \in Turn \cup {None}
  BY <1>1 DEF ApplyPending
<1>3. ASSUME new \in [Turn -> TurnRow]
      PROVE  LET made == Project("turns", tb, e)
             IN /\ TablesShape(made) /\ made.turns = new
                /\ made.messages = tb.messages /\ made.pending = ApplyPending(tb, e)
  <2> DEFINE made == Project("turns", tb, e)
             pending == ApplyPending(tb, e)
  <2>1. made = [tb EXCEPT !.turns = new, !.pending = pending]
    BY DEF Project
  <2> HIDE DEF new, made, pending
  <2> QED
    BY <1>2, <1>3, <2>1 DEF TablesShape, made, pending
<1>4. CASE e.type = "turn-start"
  <2>1. new = tb.turns
    BY <1>4 DEF ApplyTurns
  <2> QED
    BY <1>1, <1>3, <1>4, <2>1
<1>5. CASE e.type = "running"
  <2> DEFINE row == RunningRow(tb.turns[e.turn], tb.pending)
  <2>1. new = [tb.turns EXCEPT ![e.turn] = row]
    BY <1>5 DEF ApplyTurns
  <2>2. /\ row \in TurnRow /\ row.turn
        /\ row.pendingMessage \in {tb.turns[e.turn].pendingMessage, tb.pending}
    BY <1>1, <1>5 DEF RunningRow, TurnRow
  <2> HIDE DEF row, new
  <2>3. /\ new \in [Turn -> TurnRow]
        /\ \A x \in Turn : new[x] = tb.turns[x] \/ (x = e.turn /\ new[x] = row)
    BY <1>1, <1>5, <2>1, <2>2
  <2>4. \A x \in Turn : /\ tb.turns[x].turn => new[x].turn
                        /\ \/ new[x].pendingMessage = tb.turns[x].pendingMessage
                           \/ x = e.turn /\ new[x].pendingMessage = tb.pending
    BY <2>2, <2>3
  <2> QED
    BY <1>3, <1>5, <2>3, <2>4 DEF new
<1>6. CASE e.type = "assistant"
  <2>1. new = [tb.turns EXCEPT ![e.turn].turn = TRUE]
    BY <1>6 DEF ApplyTurns
  <2>2. ASSUME NEW x \in Turn
        PROVE  /\ new[x] \in TurnRow
               /\ new[x].pendingMessage = tb.turns[x].pendingMessage
               /\ tb.turns[x].turn => new[x].turn
               /\ x = e.turn => new[x].turn
    <3> DEFINE row == tb.turns[x]
    <3>1. row \in TurnRow
      BY <1>1
    <3>2. new[x] = IF x = e.turn THEN [row EXCEPT !.turn = TRUE] ELSE row
      BY <1>1, <1>6, <2>1
    <3> HIDE DEF row, new
    <3> QED
      BY <3>1, <3>2 DEF TurnRow, row
  <2>3. new \in [Turn -> TurnRow]
    <3>1. new = [x \in Turn |-> new[x]]
      BY <1>1, <2>1
    <3> HIDE DEF new
    <3> QED
      BY <2>2, <3>1
  <2> QED
    BY <1>1, <1>3, <1>6, <2>2, <2>3
<1>7. CASE e.type = "diff"
  <2>1. new = Checkpointed(tb.turns, e)
    BY <1>7 DEF ApplyTurns
  <2>2. ASSUME NEW x \in Turn
        PROVE  /\ new[x] \in TurnRow
               /\ new[x].pendingMessage = tb.turns[x].pendingMessage
               /\ tb.turns[x].turn => new[x].turn
    <3> DEFINE row == tb.turns[x]
    <3>1. row \in TurnRow /\ None \in Count
      BY <1>1, Shapes
    <3>2. new[x] = IF x = e.turn THEN [row EXCEPT !.turn = TRUE, !.count = e.count]
                   ELSE IF row.count = e.count THEN [row EXCEPT !.count = None]
                   ELSE row
      BY <2>1 DEF Checkpointed
    <3> HIDE DEF row, new
    <3> QED
      BY <1>1, <3>1, <3>2 DEF TurnRow, row
  <2>3. new \in [Turn -> TurnRow]
    <3>1. new = [x \in Turn |-> new[x]]
      BY <2>1 DEF Checkpointed
    <3> HIDE DEF new
    <3> QED
      BY <2>2, <3>1
  <2> QED
    BY <1>3, <1>7, <2>2, <2>3
<1>8. CASE e.type = "reverted"
  <2> DEFINE kept == Kept(CountsOf(tb.turns), e.count)
  <2>1. new = [t \in Turn |-> IF t \in kept THEN tb.turns[t] ELSE NoRow]
    BY <1>8 DEF ApplyTurns
  <2> HIDE DEF kept, new
  <2>2. new \in [Turn -> TurnRow]
    BY <1>1, <2>1, Shapes
  <2>3. \A x \in Turn : new[x] = NoRow \/ (new[x] = tb.turns[x] /\ x \in kept)
    BY <2>1
  <2>4. \A x \in Turn : \/ new[x] = NoRow
                        \/ new[x] = tb.turns[x] /\ x \in Kept(CountsOf(tb.turns), e.count)
    BY <2>3 DEF kept
  <2> QED
    BY <1>3, <1>8, <2>2, <2>4 DEF new
<1> QED
  BY <1>1, <1>4, <1>5, <1>6, <1>7, <1>8

(* The turns projector keeps the invariant: a message it gives to a turn was *)
(* sent before and nobody has it.                                            *)
LEMMA TurnsProjected ==
  ASSUME NEW evs \in Seq(Event), AskedOnce(evs), NEW n \in Nat, n + 1 \in 1 .. Len(evs),
         NEW m \in 0 .. Len(evs), NEW tb, TablesInv(tb, evs, m, n)
  PROVE  TablesInv(Project("turns", tb, evs[n + 1]), evs, m, n + 1)
<1> DEFINE e == evs[n + 1]
           made == Project("turns", tb, e)
           new == ApplyTurns(tb, e)
<1>1. e \in Event /\ TablesShape(tb) /\ PendingAsked(tb, evs, n)
  BY DEF TablesInv
<1>2. /\ e.type \in {"turn-start", "running", "assistant", "diff", "reverted"}
      /\ e.type # "reverted" => e.turn \in Turn
  BY <1>1 DEF Event
<1>3. \A k : Asked(evs, n, k) => Asked(evs, n + 1, k)
  BY OneMore
<1>4. e.type = "turn-start" => ~Asked(evs, n, e.turn) /\ Asked(evs, n + 1, e.turn)
  <2>1. ASSUME e.type = "turn-start", NEW i \in 1 .. n, evs[i].type = "turn-start", evs[i].turn = e.turn
        PROVE  FALSE
    <3>1. i \in 1 .. Len(evs) /\ i # n + 1
      OBVIOUS
    <3> QED
      BY <2>1, <3>1 DEF AskedOnce
  <2> QED
    BY <2>1, OneMore DEF Asked
<1> HIDE DEF e
<1>5. /\ TablesShape(made) /\ made.turns = new
      /\ made.messages = tb.messages /\ made.pending = ApplyPending(tb, e)
  BY <1>1, TurnsAfter
<1>6. PendingAsked(made, evs, n + 1)
  <2> HIDE DEF made, new
  <2>1. CASE e.type = "turn-start"
    <3>1. \A x \in Turn : new[x].pendingMessage = tb.turns[x].pendingMessage
      BY <1>1, <2>1, TurnsAfter DEF new
    <3>2. made.pending = e.turn
      BY <1>5, <2>1 DEF ApplyPending
    <3> QED
      BY <1>1, <1>3, <1>4, <1>5, <2>1, <3>1, <3>2 DEF PendingAsked
  <2>2. CASE e.type = "running"
    <3>1. \A x \in Turn : \/ new[x].pendingMessage = tb.turns[x].pendingMessage
                          \/ x = e.turn /\ new[x].pendingMessage = tb.pending
      BY <1>1, <2>2, TurnsAfter DEF new
    <3>2. made.pending = None
      BY <1>5, <2>2 DEF ApplyPending
    <3> QED
      BY <1>1, <1>3, <1>5, <3>1, <3>2 DEF PendingAsked
  <2>3. CASE e.type \in {"assistant", "diff"}
    <3>1. \A x \in Turn : new[x].pendingMessage = tb.turns[x].pendingMessage
      BY <1>1, <2>3, TurnsAfter DEF new
    <3>2. made.pending = tb.pending
      BY <1>5, <2>3 DEF ApplyPending
    <3> QED
      BY <1>1, <1>3, <1>5, <3>1, <3>2 DEF PendingAsked
  <2>4. CASE e.type = "reverted"
    <3>1. \A x \in Turn : new[x] = NoRow \/ new[x] = tb.turns[x]
      BY <1>1, <2>4, TurnsAfter DEF new
    <3>2. made.pending = None /\ NoRow.pendingMessage = None
      BY <1>5, <2>4 DEF ApplyPending, NoRow
    <3> QED
      BY <1>1, <1>3, <1>5, <3>1, <3>2 DEF PendingAsked
  <2> QED
    BY <1>2, <2>1, <2>2, <2>3, <2>4
<1>7. ASSUME Unreverted(evs), NEW k \in Turn, Replied(evs, n + 1, k) PROVE made.turns[k].turn
  <2>1. e.type # "reverted"
    BY <1>7 DEF Unreverted, e
  <2>2. Replied(evs, n, k) => tb.turns[k].turn
    BY <1>7 DEF TablesInv, Noted
  <2>3. Replied(evs, n, k) \/ (e.type = "assistant" /\ e.turn = k)
    BY <1>7, OneMore DEF e
  <2>4. /\ tb.turns[k].turn => new[k].turn
        /\ e.type = "assistant" => new[e.turn].turn
    BY <1>1, <2>1, TurnsAfter
  <2> HIDE DEF made, new
  <2> QED
    BY <1>5, <2>2, <2>3, <2>4
<1> HIDE DEF made, new
<1>8. Noted(made, evs, m, n + 1)
  BY <1>5, <1>7 DEF TablesInv, Noted
<1> QED
  BY <1>5, <1>6, <1>8 DEF TablesInv, made, e

-----------------------------------------------------------------------------
(* Projectors that have met the same events belong together.                 *)
LEMMA MeetTogether ==
  ASSUME NEW evs, Unreverted(evs), NEW n, NEW tb, TablesInv(tb, evs, n, n)
  PROVE  Together(tb)
<1>1. /\ tb.messages \subseteq Message /\ tb.turns \in [Turn -> TurnRow]
      /\ tb.pending \in Turn \cup {None}
  BY DEF TablesInv, TablesShape
<1>2. \A x \in Turn : tb.turns[x].pendingMessage \in Turn \cup {None}
  BY <1>1 DEF TurnRow
<1>3. \A k \in Turn : Asked(evs, n, k) => User(k) \in tb.messages
  BY DEF TablesInv, Noted
<1>4. ASSUME NEW m \in tb.messages, m.role = "assistant" PROVE tb.turns[m.turn].turn
  <2>1. m = Assistant(m.turn) /\ m.turn \in Turn
    BY <1>1, <1>4, Shapes
  <2> QED
    BY <2>1 DEF TablesInv, Noted
<1> QED
  BY <1>1, <1>2, <1>3, <1>4 DEF TablesInv, PendingAsked, Together

(* What belongs together does so after one more event: a revert that keeps a *)
(* turn keeps its message and its replies, and no reply of another.          *)
LEMMA StayTogether ==
  ASSUME NEW tb, TablesShape(tb), Together(tb), NEW e \in Event
  PROVE  Together(ProjectAll(tb, e))
<1> DEFINE mid == Project("messages", tb, e)
           made == Project("turns", mid, e)
           new == ApplyTurns(mid, e)
<1>1. /\ TablesShape(mid) /\ mid.turns = tb.turns /\ mid.pending = tb.pending
      /\ mid.messages = ApplyMessages(tb, e)
  BY MessagesAfter
<1>2. /\ TablesShape(made) /\ made.messages = mid.messages /\ made.turns = new
      /\ made.pending = ApplyPending(mid, e)
  <2> HIDE DEF mid
  <2> QED
    BY <1>1, TurnsAfter
<1>3. /\ e.type \in {"turn-start", "running", "assistant", "diff", "reverted"}
      /\ e.type # "reverted" => e.turn \in Turn
      /\ tb.messages \subseteq Message /\ tb.turns \in [Turn -> TurnRow]
  BY DEF Event, TablesShape
<1>4. ProjectAll(tb, e) = made
  BY DEF ProjectAll
<1>5. CASE e.type = "reverted"
  <2> DEFINE kept == Kept(CountsOf(tb.turns), e.count)
             known == KnownToTables(tb.messages, tb.turns, e.count)
  <2>1. known \subseteq mid.messages
    BY <1>1, <1>5, MessagesAfter
  <2>2. \A x \in Turn : new[x] = NoRow \/ (new[x] = tb.turns[x] /\ x \in kept)
    <3> HIDE DEF mid
    <3>1. \A x \in Turn : \/ new[x] = NoRow
                          \/ new[x] = mid.turns[x] /\ x \in Kept(CountsOf(mid.turns), e.count)
      BY <1>1, <1>5, TurnsAfter
    <3> QED
      BY <1>1, <3>1
  <2>3. made.pending = None /\ NoRow.pendingMessage = None
    BY <1>2, <1>5 DEF ApplyPending, NoRow
  <2>4. ASSUME NEW x \in Turn, new[x].pendingMessage # None
        PROVE  User(new[x].pendingMessage) \in mid.messages
    <3>1. new[x] = tb.turns[x] /\ x \in kept
      BY <2>2, <2>3, <2>4
    <3>2. User(tb.turns[x].pendingMessage) \in tb.messages
      BY <2>4, <3>1 DEF Together
    <3>3. User(tb.turns[x].pendingMessage) \in known
      BY <3>1, <3>2, Shapes DEF KnownToTables
    <3> QED
      BY <2>1, <3>1, <3>3
  <2>5. ASSUME NEW m \in mid.messages, m.role = "assistant" PROVE new[m.turn].turn
    <3>1. m \in known /\ m \in tb.messages
      BY <1>1, <1>5, <2>5 DEF ApplyMessages, Retain, StandIns, Users, KnownToTables
    <3>2. m.turn \in kept /\ m.turn \in Turn
      BY <1>3, <2>5, <3>1, Shapes DEF KnownToTables
    <3>3. tb.turns[m.turn].turn
      BY <2>5, <3>1 DEF Together
    <3>4. new[m.turn] = tb.turns[m.turn]
      BY <1>1, <1>5, <3>2 DEF ApplyTurns
    <3> QED
      BY <3>3, <3>4
  <2> HIDE DEF mid, made, new
  <2> QED
    BY <1>2, <1>4, <2>3, <2>4, <2>5 DEF Together
<1>6. CASE e.type # "reverted"
  <2> HIDE DEF mid, made, new
  <2>1. /\ e.type = "turn-start" => mid.messages = tb.messages \cup {User(e.turn)}
        /\ e.type = "assistant" => mid.messages = tb.messages \cup {Assistant(e.turn)}
        /\ e.type \in {"running", "diff"} => mid.messages = tb.messages
    BY <1>1, MessagesAfter
  <2>2. tb.messages \subseteq mid.messages
    BY <1>3, <1>6, <2>1
  <2>3. ASSUME NEW m \in mid.messages, m.role = "assistant" PROVE new[m.turn].turn
    <3>1. /\ \A x \in Turn : tb.turns[x].turn => new[x].turn
          /\ e.type = "assistant" => new[e.turn].turn
      BY <1>1, <1>6, TurnsAfter DEF new
    <3>2. CASE m \in tb.messages
      BY <1>3, <2>3, <3>1, <3>2, Shapes DEF Together
    <3>3. CASE m \notin tb.messages
      BY <1>3, <1>6, <2>1, <2>3, <3>1, <3>3, Shapes
    <3> QED
      BY <3>2, <3>3
  <2>4. ASSUME NEW x \in Turn, new[x].pendingMessage # None
        PROVE  User(new[x].pendingMessage) \in mid.messages
    <3>1. new[x].pendingMessage \in {tb.turns[x].pendingMessage, tb.pending}
      BY <1>1, <1>3, <1>6, TurnsAfter DEF new
    <3> QED
      BY <2>2, <2>4, <3>1 DEF Together
  <2>5. made.pending # None => User(made.pending) \in mid.messages
    BY <1>1, <1>2, <1>3, <1>6, <2>1, <2>2 DEF ApplyPending, Together
  <2> QED
    BY <1>2, <1>4, <2>3, <2>4, <2>5 DEF Together
<1> QED
  BY <1>5, <1>6

(* The thread's invariant survives one more event, live.                     *)
LEMMA LiveKeeps ==
  ASSUME ThreadInv, NEW e \in Event, CaughtUp, AskedOnce(Append(events, e))
  PROVE  LET more == Append(events, e)
             made == ProjectAll(tables, e)
         IN /\ TablesInv(made, more, head + 1, head + 1)
            /\ Together(made)
<1> DEFINE more == Append(events, e)
           mid == Project("messages", tables, e)
<1>1. /\ events \in Seq(Event) /\ Len(events) = head /\ head \in Nat
      /\ more \in Seq(Event) /\ Len(more) = head + 1 /\ more[head + 1] = e
      /\ \A i \in 1 .. head : more[i] = events[i]
      /\ AskedOnce(more)
  BY DEF ThreadInv
<1>2. TablesInv(tables, events, head, head) /\ Together(tables)
  BY DEF ThreadInv, CaughtUp
<1>3. Unreverted(more) => Unreverted(events)
  BY <1>1 DEF Unreverted
<1> HIDE DEF more
<1>4. TablesInv(tables, more, head, head)
  BY <1>1, <1>2, <1>3, SameEvents
<1>5. TablesInv(mid, more, head + 1, head)
  BY <1>1, <1>4, MessagesProjected
<1>6. TablesInv(Project("turns", mid, e), more, head + 1, head + 1)
  <2> HIDE DEF mid
  <2> QED
    BY <1>1, <1>5, TurnsProjected
<1>7. Together(ProjectAll(tables, e))
  BY <1>2, StayTogether DEF TablesInv
<1> QED
  BY <1>6, <1>7 DEF ProjectAll, more

-----------------------------------------------------------------------------
(* What a recursive function computes is proved by a least counterexample:   *)
(* the induction theorem over Nat takes an operator, this takes a set.       *)

(* Some relation on Nat is well-founded and is the order.                    *)
LEMMA NatOrder ==
    \E R : IsWellFoundedOn(R, Nat) /\ \A x, y \in Nat : <<x, y>> \in R <=> x < y
<1>1. \A x, y \in Nat : <<x, y>> \in OpToRel(<, Nat) <=> x < y
  BY DEF OpToRel
<1> QED
  BY <1>1, NatLessThanWellFounded, Zenon

(* A nonempty set of naturals has a least element.                           *)
LEMMA LeastNumber ==
    ASSUME NEW S \in SUBSET Nat, S # {}
    PROVE  \E m \in S : \A n \in S : m <= n
<1>1. PICK R : IsWellFoundedOn(R, Nat) /\ \A x, y \in Nat : <<x, y>> \in R <=> x < y
  BY NatOrder
<1>2. PICK x \in S : \A y \in S : ~(<<y, x>> \in R)
  <2>1. IsWellFoundedOn(R, Nat) /\ S \subseteq Nat
    BY <1>1
  <2> QED
    BY <2>1, WFMin, Zenon
<1>3. \A y \in S : ~(y < x)
  BY <1>1, <1>2
<1> QED
  BY <1>3

(* Hence a set that holds 0 and, with each number below k, the next one,     *)
(* holds all numbers up to k.                                                *)
LEMMA UpTo ==
    ASSUME NEW k \in Nat, NEW S, 0 \in S, \A n \in 0 .. k : n \in S /\ n < k => n + 1 \in S
    PROVE  \A n \in 0 .. k : n \in S
<1> DEFINE T == (0 .. k) \ S
<1> SUFFICES ASSUME T # {} PROVE FALSE
  OBVIOUS
<1>1. PICK m \in T : \A n \in T : m <= n
  <2>1. T \in SUBSET Nat
    OBVIOUS
  <2> HIDE DEF T
  <2> QED
    BY <2>1, LeastNumber
<1>2. m # 0 /\ m - 1 \in 0 .. k
  BY <1>1
<1>3. m - 1 \in S
  BY <1>1, <1>2
<1> QED
  BY <1>1, <1>2, <1>3

RebuiltBody(f) ==
    [n \in 0 .. Len(History) |-> IF n = 0 THEN NoTables ELSE ProjectAll(f[n - 1], History[n])]

(* The recursive definition of Rebuilt has a solution.                       *)
LEMMA RebuiltExists == Rebuilt = RebuiltBody(Rebuilt)
<1> DEFINE F(f, k) == \A n \in 0 .. k :
               f[n] = IF n = 0 THEN NoTables ELSE ProjectAll(f[n - 1], History[n])
           S == {k \in Nat : \E f : f = [n \in 0 .. k |-> f[n]] /\ F(f, k)}
<1>l. Len(History) \in Nat
  BY HistoryAssumption
<1>1. 0 \in S
  <2> DEFINE f == [n \in 0 .. 0 |-> NoTables]
  <2>1. f = [n \in 0 .. 0 |-> f[n]] /\ F(f, 0)
    OBVIOUS
  <2> QED
    BY <2>1
<1>2. ASSUME NEW n \in 0 .. Len(History), n \in S PROVE n + 1 \in S
  <2>1. PICK f : f = [i \in 0 .. n |-> f[i]] /\ F(f, n)
    BY <1>2
  <2> DEFINE g == [i \in 0 .. n + 1 |->
                     IF i = n + 1 THEN ProjectAll(f[n], History[n + 1]) ELSE f[i]]
  <2>n. n \in Nat
    BY <1>l
  <2>2. \A i \in 0 .. n : g[i] = f[i]
    BY <2>n
  <2>3. g[n + 1] = ProjectAll(g[n], History[n + 1])
    BY <2>n, <2>2
  <2> HIDE DEF g
  <2>4. ASSUME NEW i \in 0 .. n + 1
        PROVE  g[i] = IF i = 0 THEN NoTables ELSE ProjectAll(g[i - 1], History[i])
    <3>1. CASE i = n + 1
      BY <2>n, <2>3, <3>1
    <3>2. CASE i \in 1 .. n
      <4>1. g[i] = f[i] /\ g[i - 1] = f[i - 1]
        BY <2>n, <2>2, <3>2
      <4>2. f[i] = ProjectAll(f[i - 1], History[i])
        <5>1. i \in 0 .. n /\ i # 0
          BY <2>n, <3>2
        <5> QED
          BY <2>1, <5>1
      <4> QED
        BY <2>n, <4>1, <4>2, <3>2
    <3>3. CASE i = 0
      BY <2>n, <2>1, <2>2, <3>3
    <3> QED
      BY <2>n, <3>1, <3>2, <3>3
  <2>5. g = [i \in 0 .. n + 1 |-> g[i]]
    BY DEF g
  <2>6. n + 1 \in Nat
    BY <2>n
  <2> QED
    BY <2>4, <2>5, <2>6
<1>3. Len(History) \in S
  <2> HIDE DEF S
  <2>1. Len(History) \in 0 .. Len(History)
    BY <1>l
  <2>2. \A n \in 0 .. Len(History) : n \in S /\ n < Len(History) => n + 1 \in S
    BY <1>2
  <2>3. \A n \in 0 .. Len(History) : n \in S
    BY <1>l, <1>1, <2>2, UpTo
  <2> QED
    BY <2>1, <2>3
<1>4. PICK f : f = [n \in 0 .. Len(History) |-> f[n]] /\ F(f, Len(History))
  BY <1>3
<1>5. f = RebuiltBody(f)
  BY <1>4 DEF RebuiltBody
<1>6. Rebuilt = CHOOSE r : r = RebuiltBody(r)
  BY DEF Rebuilt, RebuiltBody
<1> HIDE DEF F, S
<1> QED
  BY <1>5, <1>6

(* The tables an earlier version built hold what its events say.             *)
LEMMA RebuiltRight == \A n \in 0 .. Len(History) : TablesInv(Rebuilt[n], History, n, n)
<1> DEFINE S == {n \in 0 .. Len(History) : TablesInv(Rebuilt[n], History, n, n)}
<1>1. \A n \in 0 .. Len(History) :
        Rebuilt[n] = IF n = 0 THEN NoTables ELSE ProjectAll(Rebuilt[n - 1], History[n])
  BY RebuiltExists DEF RebuiltBody
<1>2. History \in Seq(Event) /\ Len(History) \in Nat /\ AskedOnce(History) /\ Unreverted(History)
  BY HistoryAssumption
<1>3. 0 \in S
  <2>1. Rebuilt[0] = NoTables /\ TablesShape(NoTables)
    <3>1. 0 \in 0 .. Len(History)
      BY <1>2
    <3>2. [t \in Turn |-> NoRow] \in [Turn -> TurnRow]
      BY Shapes
    <3> QED
      BY <1>1, <3>1, <3>2 DEF NoTables, TablesShape
  <2>2. \A k : ~Asked(History, 0, k) /\ ~Replied(History, 0, k)
    BY DEF Asked, Replied
  <2>3. PendingAsked(NoTables, History, 0) /\ Noted(NoTables, History, 0, 0)
    BY <2>2 DEF PendingAsked, Noted, NoTables, NoRow
  <2> QED
    BY <1>2, <2>1, <2>2, <2>3 DEF TablesInv, NoTables
<1>4. ASSUME NEW n \in 0 .. Len(History), n \in S, n < Len(History) PROVE n + 1 \in S
  <2> DEFINE mid == Project("messages", Rebuilt[n], History[n + 1])
  <2>1. n \in Nat /\ n + 1 \in 1 .. Len(History)
    BY <1>2, <1>4
  <2>2. Rebuilt[n + 1] = ProjectAll(Rebuilt[n], History[n + 1])
    BY <1>1, <2>1
  <2>3. TablesInv(mid, History, n + 1, n)
    BY <1>2, <1>4, <2>1, MessagesProjected
  <2> HIDE DEF mid
  <2>4. TablesInv(Project("turns", mid, History[n + 1]), History, n + 1, n + 1)
    BY <1>2, <2>1, <2>3, TurnsProjected
  <2> QED
    BY <2>1, <2>2, <2>4 DEF ProjectAll, mid
<1> HIDE DEF S
<1>5. \A n \in 0 .. Len(History) : n \in S
  BY <1>2, <1>3, <1>4, UpTo
<1> QED
  BY <1>5 DEF S

-----------------------------------------------------------------------------
(* The invariant holds at first.                                             *)
LEMMA ThreadInitially == ThreadInit => ThreadInv
<1> SUFFICES ASSUME ThreadInit PROVE ThreadInv
  OBVIOUS
<1>1. PICK n \in 0 .. MaxBacklog, new \in Missing :
        /\ head = n
        /\ cursor = [p \in Projector |-> IF p \in new THEN 0 ELSE n]
  BY DEF ThreadInit, Init
<1>2. /\ History \in Seq(Event) /\ Len(History) \in Nat /\ MaxBacklog \in Nat
      /\ MaxBacklog <= Len(History) /\ AskedOnce(History) /\ Unreverted(History)
  BY HistoryAssumption, LimitAssumption
<1>3. /\ events \in Seq(Event) /\ Len(events) = head /\ head \in 0 .. Len(History)
      /\ \A i \in 1 .. head : events[i] = History[i]
  BY <1>1, <1>2 DEF ThreadInit
<1>4. AskedOnce(events) /\ Unreverted(events)
  BY <1>2, <1>3 DEF AskedOnce, Unreverted
<1>5. \E m \in {0, head} : /\ cursor["messages"] = m /\ cursor["turns"] = m
                           /\ tables = Rebuilt[m]
  <2>1. /\ cursor["messages"] = cursor["turns"] /\ cursor["messages"] \in {0, head}
    BY <1>1, ProjectorsAssumption
  <2>2. Rebuilt[0] = NoTables
    <3>1. 0 \in 0 .. Len(History)
      BY <1>2
    <3> QED
      BY <3>1, RebuiltExists DEF RebuiltBody
  <2> QED
    BY <2>1, <2>2 DEF ThreadInit
<1>6. PICK m \in {0, head} : cursor["messages"] = m /\ cursor["turns"] = m /\ tables = Rebuilt[m]
  BY <1>5
<1>7. TablesInv(tables, events, m, m)
  <2>1. TablesInv(tables, History, m, m)
    BY <1>2, <1>3, <1>6, RebuiltRight
  <2> QED
    BY <1>2, <1>3, <2>1, SameEvents
<1>8. Together(tables)
  BY <1>4, <1>7, MeetTogether
<1> QED
  BY <1>3, <1>4, <1>6, <1>7, <1>8 DEF ThreadInv

(* A projector that replays an event does so at its place.                   *)
LEMMA BootKeeps ==
  ASSUME ThreadInv, RowsInv, ThreadBootApply
  PROVE  ThreadInv'
<1> DEFINE p == Projectors[at]
           n == cursor[p]
<1>1. /\ p \in Projector /\ n \in Nat /\ n + 1 \in 1 .. head /\ head \in Nat
      /\ Head(page) = n + 1
      /\ cursor \in [Projector -> 0 .. head]
      /\ {"messages", "turns"} \subseteq Projector
  <2>1. pc = "boot" /\ page # <<>>
    BY DEF ThreadBootApply, BootApply
  <2>2. Projectors[at] \in Projector
    BY FirstPosition DEF RowsInv, PipelineShape
  <2> QED
    BY <2>1, <2>2, ProjectorsAssumption DEF RowsInv, PageFollows, PipelineShape, Position
<1>2. /\ cursor' = [cursor EXCEPT ![p] = n + 1] /\ head' = head /\ events' = events
      /\ tables' = Project(p, tables, events[n + 1])
  BY <1>1 DEF ThreadBootApply, BootApply, Applied
<1>3. /\ events \in Seq(Event) /\ Len(events) = head /\ AskedOnce(events)
      /\ TablesInv(tables, events, cursor["messages"], cursor["turns"])
      /\ CaughtUp => Together(tables)
      /\ ~CaughtUp => Unreverted(events)
  BY DEF ThreadInv
<1>4. cursor["messages"] \in 0 .. head /\ cursor["turns"] \in 0 .. head
  BY <1>1
<1> HIDE DEF p, n
<1>5. CASE p \notin {"messages", "turns"}
  <2>1. tables' = tables
    BY <1>2, <1>5 DEF Project
  <2>2. cursor'["messages"] = cursor["messages"] /\ cursor'["turns"] = cursor["turns"]
    BY <1>1, <1>2, <1>5
  <2> QED
    BY <1>2, <1>3, <2>1, <2>2 DEF ThreadInv, CaughtUp
<1>6. CASE p = "messages"
  <2>1. /\ cursor'["messages"] = n + 1 /\ cursor'["turns"] = cursor["turns"]
        /\ n = cursor["messages"] /\ n # head
    BY <1>1, <1>2, <1>6 DEF n
  <2>2. TablesInv(tables', events, n + 1, cursor["turns"])
    BY <1>1, <1>2, <1>3, <1>4, <1>6, <2>1, MessagesProjected
  <2>3. Unreverted(events)
    BY <1>3, <2>1 DEF CaughtUp
  <2>4. CaughtUp' => Together(tables')
    BY <1>2, <2>1, <2>2, <2>3, MeetTogether DEF CaughtUp
  <2> QED
    BY <1>2, <1>3, <2>1, <2>2, <2>3, <2>4 DEF ThreadInv
<1>7. CASE p = "turns"
  <2>1. /\ cursor'["turns"] = n + 1 /\ cursor'["messages"] = cursor["messages"]
        /\ n = cursor["turns"] /\ n # head
    BY <1>1, <1>2, <1>7 DEF n
  <2>2. TablesInv(tables', events, cursor["messages"], n + 1)
    BY <1>1, <1>2, <1>3, <1>4, <1>7, <2>1, TurnsProjected
  <2>3. Unreverted(events)
    BY <1>3, <2>1 DEF CaughtUp
  <2>4. CaughtUp' => Together(tables')
    BY <1>2, <2>1, <2>2, <2>3, MeetTogether DEF CaughtUp
  <2> QED
    BY <1>2, <1>3, <2>1, <2>2, <2>3, <2>4 DEF ThreadInv
<1> QED
  BY <1>5, <1>6, <1>7

(* What the engine may append is an event, and asks for no turn again.       *)
LEMMA OfferedIsNew ==
  ASSUME ThreadInv, NEW e \in Offered
  PROVE  e \in Event /\ AskedOnce(Append(events, e))
<1>1. /\ events \in Seq(Event) /\ AskedOnce(events) /\ Len(events) \in Nat
  BY DEF ThreadInv
<1>2. \A type : Logged(type) = {events[i].turn : i \in {j \in 1 .. Len(events) : events[j].type = type}}
  BY <1>1 DEF Logged
<1>3. \A i \in 1 .. Len(events) : events[i].type # "reverted" => events[i].turn \in Turn
  BY <1>1 DEF Event
<1>4. \A type : type # "reverted" => Logged(type) \subseteq Turn
  BY <1>2, <1>3
<1>5. e \in Event
  <2>1. Logged("turn-start") \subseteq Turn /\ Logged("running") \subseteq Turn
    BY <1>4
  <2>2. None \in Count /\ Turn \subseteq Count
    BY Shapes, TurnAssumption, FS_CardinalityType DEF Count
  <2> QED
    BY <2>1, <2>2 DEF Offered, Entry, Event
<1>6. e.type = "turn-start" => Logged("turn-start") = 1 .. e.turn - 1 /\ e.turn \in Nat
  BY TurnAssumption, FS_CardinalityType DEF Offered, Entry
<1>7. ASSUME NEW i \in 1 .. Len(events), events[i].type = "turn-start", e.type = "turn-start"
      PROVE  events[i].turn # e.turn
  <2>1. events[i].turn \in Logged("turn-start")
    BY <1>2, <1>7
  <2> QED
    BY <1>6, <1>7, <2>1
<1>8. AskedOnce(Append(events, e))
  <2> DEFINE more == Append(events, e)
  <2>1. /\ Len(more) = Len(events) + 1 /\ more[Len(events) + 1] = e
        /\ \A i \in 1 .. Len(events) : more[i] = events[i]
    BY <1>1
  <2>2. \A i \in 1 .. Len(more) : i \in 1 .. Len(events) \/ i = Len(events) + 1
    BY <1>1, <2>1
  <2> HIDE DEF more
  <2> QED
    BY <1>1, <1>7, <2>1, <2>2 DEF AskedOnce, more
<1> QED
  BY <1>5, <1>8

(* Every step keeps the invariant, when one read covers the log.             *)
LEMMA ThreadStep ==
  ASSUME ReadLimit >= MaxLog, RowsInv, ReachesHead, ThreadInv, [ThreadNext]_threadVars
  PROVE  ThreadInv'
<1>1. CASE UNCHANGED <<head, cursor, events, tables>>
  BY <1>1 DEF ThreadInv, CaughtUp
<1>2. CASE ThreadBoot
  BY <1>1, <1>2 DEF ThreadBoot, Boot, BootNext
<1>3. CASE ThreadBootApply
  BY <1>3, BootKeeps
<1>4. CASE ThreadBootDone
  BY <1>1, <1>4 DEF ThreadBootDone, BootDone
<1>5. ASSUME NEW e \in Offered, ThreadLive(e) PROVE ThreadInv'
  <2>1. /\ pc = "up" /\ head' = head + 1 /\ cursor' = [p \in Projector |-> head']
        /\ events' = Append(events, e) /\ tables' = ProjectAll(tables, e)
    BY <1>5 DEF ThreadLive, Live
  <2>2. cursor["messages"] = head /\ cursor["turns"] = head
    BY <2>1, ProjectorsAssumption DEF ReachesHead, BootstrapCatchesUp
  <2>3. cursor'["messages"] = head + 1 /\ cursor'["turns"] = head + 1
    BY <2>1, ProjectorsAssumption
  <2>4. e \in Event /\ AskedOnce(events')
    BY <1>5, <2>1, OfferedIsNew
  <2>5. TablesInv(tables', events', head + 1, head + 1) /\ Together(tables')
    BY <2>1, <2>2, <2>4, LiveKeeps DEF CaughtUp
  <2>6. events' \in Seq(Event) /\ Len(events') = head'
    BY <2>1, <2>4 DEF ThreadInv
  <2> QED
    BY <2>1, <2>3, <2>4, <2>5, <2>6 DEF ThreadInv, CaughtUp
<1>6. CASE ThreadCrash
  BY <1>1, <1>6 DEF ThreadCrash, Crash
<1>7. CASE UNCHANGED threadVars
  BY <1>1, <1>7 DEF threadVars
<1> QED
  BY <1>2, <1>3, <1>4, <1>5, <1>6, <1>7 DEF ThreadNext

(* When one read covers the log, the tables of a server that is up keep the  *)
(* message of every turn and the turn of every reply, for any number of      *)
(* turns, late replies, repeated checkpoints and reverts                     *)
(* (ProjectionPipeline.ts:104-190, 816-1085).                                *)
THEOREM MessagesAreKept ==
  ReadLimit >= MaxLog => (ThreadSpec => []TurnsKeepTheirMessages)
<1> SUFFICES ASSUME ReadLimit >= MaxLog PROVE ThreadSpec => []TurnsKeepTheirMessages
  OBVIOUS
<1> DEFINE Inv == RowsInv /\ ReachesHead /\ ThreadInv
<1>1. ThreadInit => Inv
  BY ThreadIsPipeline, RowsInitially, ThreadInitially
<1>2. Inv /\ [ThreadNext]_threadVars => Inv'
  BY ThreadIsPipeline, PipelineStep, ThreadStep
<1>3. Inv => TurnsKeepTheirMessages
  <2> SUFFICES ASSUME Inv, pc = "up" PROVE TurnsKeepTheirMessages
    BY DEF TurnsKeepTheirMessages
  <2>1. CaughtUp
    BY ProjectorsAssumption DEF ReachesHead, BootstrapCatchesUp, CaughtUp
  <2> QED
    BY <2>1 DEF ThreadInv, Together, TurnsKeepTheirMessages
<1> HIDE DEF Inv
<1> QED
  BY <1>1, <1>2, <1>3, PTL DEF ThreadSpec

-----------------------------------------------------------------------------
(* Counting user messages.                                                   *)
LEMMA UsersFinite ==
  ASSUME NEW messages \in SUBSET Message
  PROVE  /\ IsFiniteSet(Users(messages))
         /\ \A m \in Users(messages) : m = User(m.turn) /\ m.turn \in Turn
<1> DEFINE f == [k \in Turn |-> User(k)]
           T == {User(k) : k \in Turn}
<1>1. f \in Surjection(Turn, T)
  BY DEF Surjection
<1>2. IsFiniteSet(T)
  BY <1>1, FS_Surjection, Shapes
<1>3. \A m \in Users(messages) : m = User(m.turn) /\ m.turn \in Turn
  BY Shapes DEF Users
<1>4. Users(messages) \in SUBSET T
  BY <1>3
<1> HIDE DEF T
<1> QED
  BY <1>2, <1>3, <1>4, FS_Subset

(* No more than n messages of a set have a rank up to n in it.               *)
LEMMA FewRankLow ==
  ASSUME NEW users, IsFiniteSet(users), \A m \in users : m.turn \in Turn, NEW n \in Nat
  PROVE  Cardinality({m \in users : Rank(users, m) <= n}) <= n
<1> DEFINE low == {m \in users : Rank(users, m) <= n}
           turns == {m.turn : m \in low}
<1>1. IsFiniteSet(low) /\ Cardinality(low) \in Nat
  BY FS_Subset, FS_CardinalityType
<1>2. CASE low = {}
  BY <1>2, FS_EmptySet
<1>3. CASE low # {}
  <2>1. PICK m \in low : \A o \in low : o.turn <= m.turn
    <3> DEFINE above == {k \in Nat : \A o \in low : o.turn <= k}
    <3>1. /\ Cardinality(Turn) \in Nat /\ \A o \in low : o.turn \in Nat /\ o.turn >= 1
          /\ Cardinality(Turn) \in above
      BY TurnAssumption, FS_CardinalityType
    <3>2. PICK k \in above : \A j \in above : k <= j
      <4>1. above \in SUBSET Nat /\ above # {}
        BY <3>1
      <4> HIDE DEF above
      <4> QED
        BY <4>1, LeastNumber
    <3>3. k \in Nat /\ (k - 1 \in Nat => k - 1 \notin above)
      BY <3>2
    <3>4. PICK o \in low : o.turn = k
      <4>1. SUFFICES ASSUME \A o \in low : o.turn # k PROVE FALSE
        OBVIOUS
      <4>2. PICK o \in low : TRUE
        BY <1>3
      <4>3. k - 1 \in Nat
        BY <3>1, <3>2, <4>2
      <4>4. \A q \in low : q.turn <= k - 1
        BY <3>1, <3>2, <4>1
      <4> QED
        BY <3>3, <4>3, <4>4
    <3> QED
      BY <3>2, <3>4
  <2>2. low \in SUBSET {o \in users : o.turn <= m.turn}
    BY <2>1
  <2>3. IsFiniteSet({o \in users : o.turn <= m.turn})
    BY FS_Subset
  <2>4. Cardinality(low) <= Rank(users, m) /\ Rank(users, m) \in Nat
    <3> HIDE DEF low
    <3> QED
      BY <2>2, <2>3, FS_Subset, FS_CardinalityType DEF Rank
  <2>5. Rank(users, m) <= n
    BY <2>1
  <2>6. Cardinality(low) <= n
    <3> HIDE DEF low
    <3> QED
      BY <1>1, <2>4, <2>5
  <2> QED
    BY <2>6
<1> QED
  BY <1>2, <1>3

(* The sizes of two disjoint parts of a finite set add up.                   *)
LEMMA Disjoint ==
  ASSUME NEW S, IsFiniteSet(S), NEW A \in SUBSET S, NEW B \in SUBSET S, A \cap B = {}
  PROVE  /\ Cardinality(A) \in Nat /\ Cardinality(B) \in Nat
         /\ Cardinality(A \cup B) = Cardinality(A) + Cardinality(B)
         /\ Cardinality(A \cup B) <= Cardinality(S)
<1>1. /\ IsFiniteSet(A) /\ Cardinality(A) \in Nat
      /\ IsFiniteSet(B) /\ Cardinality(B) \in Nat
  BY FS_Subset, FS_CardinalityType
<1>2. Cardinality(A \cup B) = Cardinality(A) + Cardinality(B) - Cardinality(A \cap B)
  BY <1>1, FS_Union
<1>3. Cardinality(A \cap B) = 0
  BY FS_EmptySet
<1>4. Cardinality(A \cup B) <= Cardinality(S)
  <2>1. A \cup B \in SUBSET S
    OBVIOUS
  <2> QED
    BY <2>1, FS_Subset
<1> QED
  BY <1>1, <1>2, <1>3, <1>4

(* Taking some low messages out of the count, one message more or less of    *)
(* the others stays within it.                                               *)
LEMMA RankAmongOthers ==
  ASSUME NEW users, IsFiniteSet(users), \A m \in users : m.turn \in Turn, NEW n \in Nat,
         NEW U \in SUBSET users, \A m \in U : Rank(users, m) <= n, NEW m \in users \ U
  PROVE  Cardinality(U) + Rank(users \ U, m) <= n <=> Rank(users, m) <= n
<1> DEFINE low == {o \in users : Rank(users, o) <= n}
           below == {o \in users : o.turn <= m.turn}
           others == {o \in users \ U : o.turn <= m.turn}
           mine == {o \in U : o.turn <= m.turn}
<1>1. /\ Rank(users, m) = Cardinality(below) /\ Rank(users \ U, m) = Cardinality(others)
  BY DEF Rank
<1>2. /\ Cardinality(others) \in Nat /\ Cardinality(mine) \in Nat
      /\ Cardinality(below) = Cardinality(others) + Cardinality(mine)
  <2>1. below = others \cup mine /\ others \in SUBSET users /\ mine \in SUBSET users
        /\ others \cap mine = {}
    OBVIOUS
  <2> HIDE DEF below, others, mine
  <2> QED
    BY <2>1, Disjoint
<1>3. Cardinality(U) \in Nat /\ Cardinality(mine) <= Cardinality(U)
  BY FS_Subset, FS_CardinalityType
<1>4. ASSUME Rank(users, m) <= n PROVE Cardinality(U) + Cardinality(others) <= n
  <2>1. \A o \in others : Rank(users, o) <= n
    <3> TAKE o \in others
    <3> DEFINE less == {q \in users : q.turn <= o.turn}
    <3>1. o.turn \in Nat /\ m.turn \in Nat /\ \A q \in users : q.turn \in Nat
      BY TurnAssumption, FS_CardinalityType
    <3>2. less \in SUBSET below
      BY <3>1
    <3>3. IsFiniteSet(below) /\ IsFiniteSet(less)
      BY FS_Subset
    <3>4. Cardinality(less) <= Cardinality(below) /\ Cardinality(less) \in Nat
      <4> HIDE DEF less, below
      <4> QED
        BY <3>2, <3>3, FS_Subset, FS_CardinalityType
    <3>5. Rank(users, o) = Cardinality(less)
      BY DEF Rank
    <3> HIDE DEF less, below, others
    <3> QED
      BY <1>1, <1>2, <1>4, <3>4, <3>5
  <2>2. U \in SUBSET low /\ others \in SUBSET low /\ U \cap others = {}
    BY <2>1
  <2>3. IsFiniteSet(low) /\ Cardinality(low) \in Nat
    BY FS_Subset, FS_CardinalityType
  <2>4. Cardinality(low) <= n
    BY FewRankLow
  <2> HIDE DEF low, others
  <2>5. /\ Cardinality(U \cup others) = Cardinality(U) + Cardinality(others)
        /\ Cardinality(U \cup others) <= Cardinality(low)
    BY <2>2, <2>3, Disjoint
  <2> QED
    BY <1>2, <1>3, <2>3, <2>4, <2>5
<1> HIDE DEF below, others, mine
<1> QED
  BY <1>1, <1>2, <1>3, <1>4

(* As long as the checkpoints number the user messages, tables and memory    *)
(* retain the same of them in a revert.                                      *)
LEMMA SameRetained ==
  ASSUME NEW messages \in SUBSET Message, NEW turns, NEW n \in Nat,
         \A t \in Kept(CountsOf(turns), n) :
             /\ User(turns[t].pendingMessage) \in messages
             /\ Rank(Users(messages), User(turns[t].pendingMessage)) <= n
  PROVE  Retain(messages, KnownToTables(messages, turns, n), n)
           = Retain(messages, KnownToMemory(messages, CountsOf(turns), n), n)
<1> DEFINE users == Users(messages)
           kept == Kept(CountsOf(turns), n)
           A == {m \in messages : m.role = "assistant" /\ m.turn \in kept}
           U == {m \in users : \E t \in kept : turns[t].pendingMessage = m.turn}
           low == {m \in users : Rank(users, m) <= n}
<1>1. /\ IsFiniteSet(users)
      /\ \A m \in users : m = User(m.turn) /\ m.turn \in Turn
  BY UsersFinite
<1>2. /\ KnownToTables(messages, turns, n) = A \cup U
      /\ KnownToMemory(messages, CountsOf(turns), n) = A
      /\ Users(A \cup U) = U /\ Users(A) = {}
      /\ users \ (A \cup U) = users \ U /\ users \ A = users
  <2>1. \A m \in messages : m.role \in {"user", "assistant"}
    BY DEF Message
  <2> QED
    BY <2>1 DEF KnownToTables, KnownToMemory, Users
<1>3. U \in SUBSET low
  <2> SUFFICES ASSUME NEW m \in U PROVE Rank(users, m) <= n
    OBVIOUS
  <2>1. PICK t \in kept : turns[t].pendingMessage = m.turn
    OBVIOUS
  <2>2. m = User(turns[t].pendingMessage)
    BY <1>1, <2>1
  <2> QED
    BY <2>2
<1>4. StandIns(messages, A \cup U, n) = {m \in users \ U : Cardinality(U) + Rank(users \ U, m) <= n}
  BY <1>2 DEF StandIns
<1>5. StandIns(messages, A, n) = low
  <2>1. StandIns(messages, A, n) = {m \in users : 0 + Rank(users, m) <= n}
    BY <1>2, FS_EmptySet DEF StandIns
  <2>2. \A m \in users : Rank(users, m) \in Nat
    BY <1>1, FS_Subset, FS_CardinalityType DEF Rank
  <2> QED
    BY <2>1, <2>2
<1>6. \A m \in users \ U : Cardinality(U) + Rank(users \ U, m) <= n <=> Rank(users, m) <= n
  <2>1. U \in SUBSET users /\ \A m \in U : Rank(users, m) <= n
    BY <1>3
  <2> HIDE DEF users, U
  <2> QED
    BY <1>1, <2>1, RankAmongOthers
<1>7. StandIns(messages, A \cup U, n) = low \ U
  BY <1>4, <1>6
<1>8. A \cup U \cup (low \ U) = A \cup low
  BY <1>3
<1> HIDE DEF A, U, low
<1> QED
  BY <1>2, <1>5, <1>7, <1>8 DEF Retain

(* Two user messages of one rank are one.                                    *)
LEMMA RankDistinct ==
  ASSUME NEW users, IsFiniteSet(users), \A m \in users : m.turn \in Turn,
         NEW m \in users, NEW o \in users, m.turn < o.turn
  PROVE  Rank(users, m) # Rank(users, o)
<1> DEFINE lower == {q \in users : q.turn <= m.turn}
           upper == {q \in users : q.turn <= o.turn}
<1>1. \A q \in users : q.turn \in Nat
  BY TurnAssumption, FS_CardinalityType
<1>2. lower \in SUBSET upper /\ o \in upper /\ o \notin lower
  BY <1>1
<1>3. IsFiniteSet(upper)
  BY FS_Subset
<1>4. Rank(users, m) = Cardinality(lower) /\ Rank(users, o) = Cardinality(upper)
  BY DEF Rank
<1> HIDE DEF lower, upper
<1>5. Cardinality(upper) = Cardinality(lower) => upper = lower
  BY <1>2, <1>3, FS_Subset
<1> QED
  BY <1>2, <1>4, <1>5

\* What the checkpoints of a model say of its messages: Numbered, of any model.
CountsNumber(messages, turns, counts) ==
    \A t \in Turn : counts[t] # None =>
        /\ User(turns[t].pendingMessage) \in messages
        /\ Rank(Users(messages), User(turns[t].pendingMessage)) = counts[t]

(* Numbered checkpoints have different numbers, so none takes another's.     *)
LEMMA NumbersDiffer ==
  ASSUME NEW tb, TablesShape(tb), NEW evs, NEW n, PendingAsked(tb, evs, n), NEW counts,
         CountsNumber(tb.messages, tb.turns, counts),
         NEW x \in Turn, NEW y \in Turn, counts[x] = counts[y], counts[x] # None
  PROVE  x = y
<1> DEFINE a == tb.turns[x].pendingMessage
           b == tb.turns[y].pendingMessage
<1>1. /\ tb.messages \in SUBSET Message
      /\ IsFiniteSet(Users(tb.messages)) /\ \A m \in Users(tb.messages) : m.turn \in Turn
  BY UsersFinite DEF TablesShape
<1>2. /\ User(a) \in Users(tb.messages) /\ User(b) \in Users(tb.messages)
      /\ Rank(Users(tb.messages), User(a)) = Rank(Users(tb.messages), User(b))
  BY Shapes DEF CountsNumber, Users
<1>3. a \in Turn /\ b \in Turn /\ User(a).turn = a /\ User(b).turn = b
  BY <1>1, <1>2, Shapes
<1>4. a = b
  <2>1. ~(a < b) /\ ~(b < a)
    BY <1>1, <1>2, <1>3, RankDistinct
  <2> QED
    BY <1>3, <2>1, TurnAssumption, FS_CardinalityType
<1> QED
  BY <1>3, <1>4, Shapes DEF PendingAsked

(* One live event leaves memory and tables equal.                            *)
LEMMA ViewsStep ==
  ASSUME ThreadInv, NEW e \in Offered, ThreadLive(e), memory = LoadModel, Numbered, Numbered'
  PROVE  memory' = LoadModel'
<1> DEFINE mid == Project("messages", tables, e)
           new == ApplyTurns(mid, e)
           counts == CountsOf(tables.turns)
<1>1. /\ e \in Event /\ TablesShape(tables)
      /\ PendingAsked(tables, events, cursor["turns"])
  BY OfferedIsNew DEF ThreadInv, TablesInv
<1>2. /\ e.type \in {"turn-start", "running", "assistant", "diff", "reverted"}
      /\ e.type # "reverted" => e.turn \in Turn
      /\ e.count \in Nat
      /\ tables.messages \in SUBSET Message /\ tables.turns \in [Turn -> TurnRow]
  BY <1>1, FS_CardinalityType, TurnAssumption DEF Event, TablesShape, Count
<1>3. /\ TablesShape(mid) /\ mid.turns = tables.turns /\ mid.pending = tables.pending
      /\ mid.messages = ApplyMessages(tables, e)
  BY <1>1, MessagesAfter
<1>4. memory' = ApplyEvent(e) /\ tables' = Project("turns", mid, e)
  BY DEF ThreadLive, ProjectAll
<1> HIDE DEF mid
<1>5. /\ tables'.messages = ApplyMessages(tables, e) /\ tables'.turns = new
      /\ TablesShape(tables')
  BY <1>1, <1>3, <1>4, TurnsAfter
<1>6. /\ memory.messages = tables.messages /\ memory.checkpoints = counts
      /\ memory = [messages |-> tables.messages, checkpoints |-> counts]
  BY DEF LoadModel
<1>7. LoadModel' = [messages |-> ApplyMessages(tables, e), checkpoints |-> CountsOf(new)]
  BY <1>5 DEF LoadModel
<1>8. CASE e.type \in {"turn-start", "assistant"}
  <2>1. memory' = [messages |-> ApplyMessages(tables, e), checkpoints |-> counts]
    BY <1>4, <1>6, <1>8 DEF ApplyEvent, ApplyMessageSent, ApplyMessages
  <2>2. \A x \in Turn : new[x].count = tables.turns[x].count
    BY <1>2, <1>3, <1>8 DEF ApplyTurns, TurnRow
  <2>3. CountsOf(new) = counts
    BY <2>2 DEF CountsOf
  <2> QED
    BY <1>7, <2>1, <2>3
<1>9. CASE e.type = "running"
  <2>1. memory' = [messages |-> ApplyMessages(tables, e), checkpoints |-> counts]
    BY <1>4, <1>6, <1>9 DEF ApplyEvent, ApplyMessages
  <2>2. \A x \in Turn : new[x].count = tables.turns[x].count
    BY <1>2, <1>3, <1>9 DEF ApplyTurns, RunningRow, TurnRow
  <2>3. CountsOf(new) = counts
    BY <2>2 DEF CountsOf
  <2> QED
    BY <1>7, <2>1, <2>3
<1>10. CASE e.type = "diff"
  <2> DEFINE after == [counts EXCEPT ![e.turn] = e.count]
  <2>1. memory' = [messages |-> ApplyMessages(tables, e), checkpoints |-> after]
    BY <1>4, <1>6, <1>10 DEF ApplyEvent, ApplyMessages
  <2>2. \A x \in Turn : after[x] = IF x = e.turn THEN e.count ELSE tables.turns[x].count
    BY <1>2, <1>10 DEF CountsOf
  <2>3. \A x \in Turn : new[x].pendingMessage = tables.turns[x].pendingMessage
    BY <1>1, <1>3, <1>10, TurnsAfter
  <2>4. ApplyMessages(tables, e) = tables.messages
    BY <1>10 DEF ApplyMessages
  <2>5. CountsNumber(tables.messages, tables.turns, after)
    BY <1>5, <2>1, <2>3, <2>4 DEF Numbered, CountsNumber
  <2>6. ASSUME NEW x \in Turn, x # e.turn, tables.turns[x].count = e.count PROVE e.count = None
    <3>1. after[x] = after[e.turn] /\ after[x] = e.count /\ e.turn \in Turn
      BY <1>2, <1>10, <2>2, <2>6
    <3> HIDE DEF after
    <3> QED
      BY <1>1, <2>5, <2>6, <3>1, NumbersDiffer
  <2>7. ASSUME NEW x \in Turn PROVE new[x].count = after[x]
    <3> DEFINE row == tables.turns[x]
    <3>1. new[x] = IF x = e.turn THEN [row EXCEPT !.turn = TRUE, !.count = e.count]
                   ELSE IF row.count = e.count THEN [row EXCEPT !.count = None]
                   ELSE row
      BY <1>3, <1>10 DEF ApplyTurns, Checkpointed
    <3>2. row \in TurnRow /\ after[x] = IF x = e.turn THEN e.count ELSE row.count
      BY <1>2, <2>2
    <3>3. x # e.turn /\ row.count = e.count => e.count = None
      BY <2>6
    <3> HIDE DEF row, new, after
    <3> QED
      BY <3>1, <3>2, <3>3 DEF TurnRow
  <2>8. CountsOf(new) = after
    <3>1. after = [x \in Turn |-> after[x]]
      BY DEF CountsOf
    <3> HIDE DEF after, new
    <3> QED
      BY <2>7, <3>1 DEF CountsOf
  <2> QED
    BY <1>7, <2>1, <2>8
<1>11. CASE e.type = "reverted"
  <2> DEFINE n == e.count
             kept == Kept(counts, n)
  <2>1. memory' = [messages |-> Retain(tables.messages, KnownToMemory(tables.messages, counts, n), n),
                   checkpoints |-> [t \in Turn |-> IF t \in kept THEN counts[t] ELSE None]]
    BY <1>4, <1>6, <1>11 DEF ApplyEvent
  <2>2. ApplyMessages(tables, e)
          = Retain(tables.messages, KnownToTables(tables.messages, tables.turns, n), n)
    BY <1>11 DEF ApplyMessages
  <2>3. \A t \in kept :
          /\ User(tables.turns[t].pendingMessage) \in tables.messages
          /\ Rank(Users(tables.messages), User(tables.turns[t].pendingMessage)) <= n
    BY <1>6 DEF Numbered, Kept, None
  <2>4. Retain(tables.messages, KnownToTables(tables.messages, tables.turns, n), n)
          = Retain(tables.messages, KnownToMemory(tables.messages, counts, n), n)
    BY <1>2, <2>3, SameRetained
  <2>5. new = [t \in Turn |-> IF t \in kept THEN tables.turns[t] ELSE NoRow]
    BY <1>3, <1>11 DEF ApplyTurns
  <2>6. CountsOf(new) = [t \in Turn |-> IF t \in kept THEN counts[t] ELSE None]
    <3> HIDE DEF kept, new
    <3>1. \A t \in Turn : new[t].count = IF t \in kept THEN tables.turns[t].count ELSE None
      BY <2>5 DEF NoRow
    <3> QED
      BY <3>1 DEF CountsOf
  <2> QED
    BY <1>7, <2>1, <2>2, <2>4, <2>6
<1> QED
  BY <1>2, <1>8, <1>9, <1>10, <1>11

(* As long as the checkpoints number the user messages, what a running       *)
(* server shows and what it would show after a restart stay the same, for    *)
(* any number of turns and any reverts, when one read covers the log         *)
(* (projector.ts:80-135, ProjectionPipeline.ts:104-190).                     *)
THEOREM ViewsAgree == ReadLimit >= MaxLog => (ThreadSpec => ViewsStayEqual)
<1> SUFFICES ASSUME ReadLimit >= MaxLog PROVE ThreadSpec => ViewsStayEqual
  OBVIOUS
<1> DEFINE Inv == RowsInv /\ ReachesHead /\ ThreadInv
           Stays == pc = "up" /\ pc' = "up" /\ memory = LoadModel /\ Numbered /\ Numbered'
                      => memory' = LoadModel'
<1>1. ThreadInit => Inv
  BY ThreadIsPipeline, RowsInitially, ThreadInitially
<1>2. Inv /\ [ThreadNext]_threadVars => Inv'
  BY ThreadIsPipeline, PipelineStep, ThreadStep
<1>3. Inv /\ [ThreadNext]_threadVars => [Stays]_threadVars
  <2> SUFFICES ASSUME Inv, ThreadNext, pc = "up", pc' = "up", memory = LoadModel,
                      Numbered, Numbered'
               PROVE  memory' = LoadModel'
    OBVIOUS
  <2>1. \E e \in Offered : ThreadLive(e)
    BY DEF ThreadNext, ThreadBoot, Boot, BootNext, ThreadBootApply, BootApply,
       ThreadBootDone, BootDone, ThreadCrash, Crash
  <2> QED
    BY <2>1, ViewsStep
<1> HIDE DEF Inv
<1> QED
  BY <1>1, <1>2, <1>3, PTL DEF ThreadSpec, ViewsStayEqual
===============================================================================
