---------------------- MODULE OrchestrationRecovery_proofs ----------------------
(***************************************************************************)
(* Theorems about the event stream of a subscription and the client that    *)
(* recovers from its losses, for any number of events, batch size, failures *)
(* and lost connections.                                                    *)
(***************************************************************************)
EXTENDS OrchestrationRecovery, FiniteSetTheorems, SequenceTheorems,
        WellFoundedInduction, TLAPS

-----------------------------------------------------------------------------
(* Some relation on Nat is well-founded and is the order.                     *)
LEMMA NatOrder ==
    \E R : IsWellFoundedOn(R, Nat) /\ \A x, y \in Nat : <<x, y>> \in R <=> x < y
<1>1. \A x, y \in Nat : <<x, y>> \in OpToRel(<, Nat) <=> x < y
  BY DEF OpToRel
<1> QED
  BY <1>1, NatLessThanWellFounded, Zenon

(* A nonempty set of naturals has a least element.                            *)
LEMMA LeastNumber ==
    ASSUME NEW S \in SUBSET Nat, S # {}
    PROVE  \E m \in S : \A n \in S : m <= n
<1>1. PICK R : IsWellFoundedOn(R, Nat) /\ \A x, y \in Nat : <<x, y>> \in R <=> x < y
  BY NatOrder
<1>2. PICK x \in S : \A y \in S : ~(<<y, x>> \in R)
  <2>1. IsWellFoundedOn(R, Nat) /\ S \subseteq Nat
    BY <1>1
  <2> QED
    BY <2>1, WFMin, Zenon
<1>3. \A y \in S : ~(y < x)
  BY <1>1, <1>2
<1> QED
  BY <1>3

(* Two steps up the order of the naturals.                                    *)
LEMMA Ascending ==
    ASSUME NEW a \in Nat, NEW b \in Nat, NEW c \in Nat, b < c
    PROVE  (a <= b => a <= c) /\ (a <= b + 1 => a <= c + 1)
OBVIOUS

-----------------------------------------------------------------------------
(* Runs of sequences.                                                         *)

(* Sequences are numbers.                                                     *)
LEMMA SequencesAreNumbers ==
    ASSUME NEW m \in Nat, NEW q \in Seq(1 .. m)
    PROVE  q \in Seq(Nat) /\ Len(q) \in Nat
<1>1. q \in [1 .. Len(q) -> 1 .. m] /\ Len(q) \in Nat
  BY LenProperties
<1>2. q \in [1 .. Len(q) -> Nat]
  BY <1>1
<1> QED
  BY <1>1, <1>2, SeqDef

(* A span counts from one sequence to another.                                *)
LEMMA SpanType ==
    ASSUME NEW a \in Nat, NEW b \in Nat, a <= b, NEW S, a + 1 .. b \subseteq S
    PROVE  /\ Span(a, b) \in Seq(S) /\ Len(Span(a, b)) = b - a
           /\ \A i \in 1 .. b - a : Span(a, b)[i] = a + i
<1>1. b - a \in Nat /\ \A i \in 1 .. b - a : a + i \in a + 1 .. b
  OBVIOUS
<1>2. Span(a, b) \in [1 .. b - a -> S]
  BY <1>1 DEF Span
<1>3. Span(a, b) \in Seq(S)
  BY <1>1, <1>2, SeqDef
<1>4. 1 .. Len(Span(a, b)) = 1 .. b - a /\ Len(Span(a, b)) \in Nat
  BY <1>2, <1>3, LenProperties
<1>5. Len(Span(a, b)) = b - a
  BY <1>1, <1>4
<1> QED
  BY <1>3, <1>5 DEF Span

(* A span of the sequences there are.                                         *)
LEMMA SpanIn ==
    ASSUME NEW a \in Nat, NEW b \in Nat, a <= b, NEW m \in Nat, b <= m
    PROVE  /\ Span(a, b) \in Seq(1 .. m) /\ Len(Span(a, b)) = b - a
           /\ \A i \in 1 .. b - a : Span(a, b)[i] = a + i
           /\ \A i \in 1 .. Len(Span(a, b)) : Span(a, b)[i] <= b
<1>1. a + 1 .. b \subseteq 1 .. m
  OBVIOUS
<1>2. /\ Span(a, b) \in Seq(1 .. m) /\ Len(Span(a, b)) = b - a
      /\ \A i \in 1 .. b - a : Span(a, b)[i] = a + i
  BY <1>1, SpanType
<1> QED
  BY <1>2

(* A span up to where it starts, or further down, is empty.                   *)
LEMMA SpanEmpty ==
    ASSUME NEW a \in Nat, NEW b \in Nat, b <= a
    PROVE  Span(a, b) = <<>>
<1>1. 1 .. b - a = {}
  OBVIOUS
<1> QED
  BY <1>1 DEF Span

(* Two spans that meet are one.                                               *)
LEMMA SpanConcat ==
    ASSUME NEW a \in Nat, NEW b \in Nat, NEW c \in Nat, a <= b, b <= c
    PROVE  Span(a, b) \o Span(b, c) = Span(a, c)
<1> DEFINE s == Span(a, b)
           t == Span(b, c)
           u == Span(a, c)
<1>1. /\ s \in Seq(Nat) /\ Len(s) = b - a /\ \A i \in 1 .. b - a : s[i] = a + i
      /\ t \in Seq(Nat) /\ Len(t) = c - b /\ \A i \in 1 .. c - b : t[i] = b + i
      /\ u \in Seq(Nat) /\ Len(u) = c - a /\ \A i \in 1 .. c - a : u[i] = a + i
  <2>1. a + 1 .. b \subseteq Nat /\ b + 1 .. c \subseteq Nat /\ a + 1 .. c \subseteq Nat
        /\ a <= c
    OBVIOUS
  <2>2. s \in Seq(Nat) /\ Len(s) = b - a /\ \A i \in 1 .. b - a : s[i] = a + i
    BY <2>1, SpanType
  <2>3. t \in Seq(Nat) /\ Len(t) = c - b /\ \A i \in 1 .. c - b : t[i] = b + i
    BY <2>1, SpanType
  <2>4. u \in Seq(Nat) /\ Len(u) = c - a /\ \A i \in 1 .. c - a : u[i] = a + i
    BY <2>1, SpanType
  <2> QED
    BY <2>2, <2>3, <2>4
<1> HIDE DEF s, t, u
<1>2. s \o t \in Seq(Nat) /\ Len(s \o t) = c - a
  BY <1>1, ConcatProperties
<1>3. ASSUME NEW i \in 1 .. Len(s \o t) PROVE (s \o t)[i] = u[i]
  <2>1. i \in 1 .. c - a /\ i \in 1 .. Len(s) + Len(t)
    BY <1>1, <1>2
  <2>2. CASE i <= Len(s)
    <3>1. (s \o t)[i] = s[i]
      BY <1>1, <2>1, <2>2, ConcatProperties
    <3> QED
      BY <1>1, <2>1, <2>2, <3>1
  <2>3. CASE ~(i <= Len(s))
    <3>1. (s \o t)[i] = t[i - Len(s)]
      BY <1>1, <2>1, <2>3, ConcatProperties
    <3>2. i - Len(s) \in 1 .. c - b
      BY <1>1, <2>1, <2>3
    <3>3. b + (i - Len(s)) = a + i
      BY <1>1, <2>1
    <3> QED
      BY <1>1, <2>1, <3>1, <3>2, <3>3
  <2> QED
    BY <2>2, <2>3
<1>4. s \o t = u
  BY <1>1, <1>2, <1>3, SeqEqual
<1> QED
  BY <1>4 DEF s, t, u

(* The server's side.  Behind SentInOrder: what waits in the reorder buffer is *)
(* beyond the next sequence, and nothing anywhere is beyond the store's head.  *)
StreamInv ==
    /\ TypeOK
    /\ installed <= committed /\ published <= committed /\ from <= committed
    /\ from < next /\ next <= committed + 1
    /\ SentInOrder
    /\ \A s \in pending : next < s /\ s <= committed
    /\ \A i \in 1 .. Len(replay) : replay[i] <= committed
    /\ \A i \in 1 .. Len(mailbox) : mailbox[i] <= committed
    /\ step = "new" => out = <<>> /\ pending = {}

(* The events released by the next one are those waiting right after it.       *)
LEMMA RunEnds ==
    ASSUME TypeOK, NEW s \in 1 .. MaxSeq, s = next
    PROVE  \E last \in s .. MaxSeq :
             /\ Run(s) = Span(s - 1, last)
             /\ last = s \/ last \in pending
             /\ last + 1 \notin pending
<1> DEFINE T == {n \in s .. MaxSeq : n + 1 \notin pending}
           Last(n) == (\A i \in s + 1 .. n : i \in pending) /\ n + 1 \notin pending
<1>0. MaxSeq \in Nat /\ pending \subseteq 2 .. MaxSeq
  BY BoundsAssumption DEF TypeOK
<1>1. PICK m \in T : \A n \in T : m <= n
  <2>1. MaxSeq \in T
    BY <1>0
  <2>2. T \in SUBSET Nat /\ T # {}
    BY <2>1
  <2> HIDE DEF T
  <2> QED
    BY <2>2, LeastNumber
<1>2. ASSUME NEW i \in s + 1 .. m PROVE i \in pending
  <2>1. i - 1 \in s .. MaxSeq /\ i - 1 < m /\ (i - 1) + 1 = i
    BY <1>0, <1>1, <1>2
  <2> QED
    BY <1>1, <2>1
<1>3. m \in s .. MaxSeq /\ Last(m)
  BY <1>1, <1>2
<1> DEFINE last == CHOOSE n \in s .. MaxSeq : Last(n)
<1>4. last \in s .. MaxSeq /\ Last(last)
  BY <1>3
<1>5. Run(s) = Span(s - 1, last)
  BY DEF Run
<1> HIDE DEF last
<1>6. last = s \/ last \in s + 1 .. last
  BY <1>4
<1> QED
  BY <1>4, <1>5, <1>6

(* Merging an event of the store keeps what was sent in order and what waits   *)
(* ahead of it.                                                                *)
LEMMA MergeKeeps ==
    ASSUME StreamInv, NEW s \in 1 .. MaxSeq, s <= committed, Merge(s),
           UNCHANGED <<from, committed>>
    PROVE  /\ out' = Span(from, next' - 1) /\ from < next' /\ next' <= committed + 1
           /\ \A n \in pending' : next' < n /\ n <= committed
           /\ next' \in 1 .. MaxSeq + 1 /\ pending' \subseteq 2 .. MaxSeq
           /\ out' \in Seq(1 .. MaxSeq) /\ next <= next'
           /\ \E t \in Seq(1 .. MaxSeq) : out' = out \o t
<1>t. /\ MaxSeq \in Nat /\ committed \in 0 .. MaxSeq /\ from \in 0 .. MaxSeq
      /\ next \in 1 .. MaxSeq + 1 /\ pending \subseteq 2 .. MaxSeq
      /\ out \in Seq(1 .. MaxSeq) /\ out = Span(from, next - 1)
      /\ from < next /\ next <= committed + 1
      /\ \A n \in pending : next < n /\ n <= committed
  BY BoundsAssumption DEF StreamInv, TypeOK, SentInOrder
<1>e. out = out \o <<>> /\ <<>> \in Seq(1 .. MaxSeq)
  BY <1>t, ConcatEmptySeq
<1>1. CASE s < next \/ s \in pending
  <2>1. UNCHANGED buffer
    BY <1>1 DEF Merge
  <2>2. out' = out /\ next' = next /\ pending' = pending
    BY <2>1 DEF buffer
  <2>3. \E t \in Seq(1 .. MaxSeq) : out' = out \o t
    BY <1>e, <2>2
  <2> HIDE DEF Run
  <2> QED
    BY <1>t, <2>2, <2>3, SMTT(30)
<1>2. CASE ~(s < next \/ s \in pending) /\ s # next
  <2>1. Run(s) = <<>> /\ Len(<<>>) = 0
    BY <1>2 DEF Run
  <2>2. out' = out \o <<>> /\ next' = next + 0
        /\ pending' = (pending \cup {s}) \ (next .. next' - 1)
    BY <1>2, <2>1 DEF Merge
  <2>3. out' = out /\ next' = next /\ pending' = pending \cup {s}
    BY <1>e, <1>t, <2>2
  <2>4. \E t \in Seq(1 .. MaxSeq) : out' = out \o t
    BY <1>e, <2>3
  <2> QED
    BY <1>t, <1>2, <2>3, <2>4
<1>3. CASE ~(s < next \/ s \in pending) /\ s = next
  <2>1. PICK last \in s .. MaxSeq : /\ Run(s) = Span(s - 1, last)
                                    /\ last = s \/ last \in pending
                                    /\ last + 1 \notin pending
    BY <1>3, RunEnds DEF StreamInv
  <2>2. /\ out' = out \o Run(s) /\ next' = next + Len(Run(s))
        /\ pending' = (pending \cup {s}) \ (next .. next' - 1)
    BY <1>3 DEF Merge
  <2>3. s - 1 \in Nat /\ last \in Nat /\ s - 1 <= last /\ last <= committed /\ from <= s - 1
        /\ from \in Nat /\ s = next
    BY <1>t, <1>3, <2>1
  <2>4. Len(Run(s)) = last - (s - 1) /\ Run(s) \in Seq(1 .. MaxSeq)
    <3>1. last <= MaxSeq /\ MaxSeq \in Nat
      BY <1>t, <2>1
    <3>2. Len(Span(s - 1, last)) = last - (s - 1) /\ Span(s - 1, last) \in Seq(1 .. MaxSeq)
      BY <2>3, <3>1, SpanIn
    <3> QED
      BY <2>1, <3>2
  <2>5. next' = last + 1
    BY <2>2, <2>3, <2>4
  <2>6. out' = Span(from, last)
    <3>1. Span(from, s - 1) \o Span(s - 1, last) = Span(from, last)
      BY <2>3, SpanConcat
    <3> QED
      BY <1>t, <2>1, <2>2, <2>3, <3>1
  <2>7. ASSUME NEW n \in pending' PROVE next' < n /\ n <= committed /\ n \in pending
    <3>1. n \in pending \/ n = s
      BY <2>2
    <3>2. ~(n \in next .. last)
      BY <2>2, <2>3, <2>5
    <3>3. n \in pending
      BY <2>3, <3>1, <3>2
    <3>4. n # last + 1
      BY <2>1, <3>3
    <3> QED
      BY <1>t, <2>3, <2>5, <3>2, <3>3, <3>4
  <2>9. out' \in Seq(1 .. MaxSeq) /\ \E t \in Seq(1 .. MaxSeq) : out' = out \o t
    BY <1>t, <2>2, <2>4, ConcatProperties
  <2>10. pending' \subseteq 2 .. MaxSeq
    BY <1>t, <2>7
  <2>11. next' \in 1 .. MaxSeq + 1 /\ from < next' /\ next' <= committed + 1 /\ next <= next'
         /\ next' - 1 = last
    BY <1>t, <2>1, <2>3, <2>5
  <2> QED
    BY <2>6, <2>7, <2>9, <2>10, <2>11
<1> QED
  BY <1>1, <1>2, <1>3

(* The stream starts before its handler.                                      *)
LEMMA StreamInit == Init => StreamInv
<1> SUFFICES ASSUME Init PROVE StreamInv
  OBVIOUS
<1>1. Span(0, 0) = <<>>
  BY SpanEmpty
<1>2. <<>> \in Seq(1 .. MaxSeq) /\ MaxSeq \in Nat /\ Len(<<>>) = 0
  BY BoundsAssumption
<1>3. TypeOK
  BY <1>2 DEF Init, TypeOK
<1>4. SentInOrder
  BY <1>1 DEF Init, SentInOrder
<1> QED
  BY <1>3, <1>4 DEF Init, StreamInv

(* Reading the store gives events up to its head.                             *)
LEMMA ReplayRead ==
    ASSUME StreamInv
    PROVE  /\ Span(from, committed) \in Seq(1 .. MaxSeq)
           /\ \A i \in 1 .. Len(Span(from, committed)) : Span(from, committed)[i] <= committed
<1>1. from \in Nat /\ committed \in Nat /\ from <= committed /\ committed <= MaxSeq
      /\ MaxSeq \in Nat
  BY BoundsAssumption DEF StreamInv, TypeOK
<1> QED
  BY <1>1, SpanIn

(* Every step of engine, handler and stream keeps the invariant, and so does   *)
(* losing the connection.                                                      *)
LEMMA StreamStep ==
    ASSUME StreamInv,
           Engine \/ Handler \/ Stream \/ (Close /\ UNCHANGED engine) \/ UNCHANGED vars
    PROVE  StreamInv'
<1>t. /\ MaxSeq \in Nat /\ MaxBatch \in Nat /\ committed \in 0 .. MaxSeq
      /\ installed \in 0 .. MaxSeq /\ published \in 0 .. MaxSeq /\ from \in 0 .. MaxSeq
      /\ next \in 1 .. MaxSeq + 1 /\ pending \subseteq 2 .. MaxSeq
      /\ replay \in Seq(1 .. MaxSeq) /\ mailbox \in Seq(1 .. MaxSeq)
      /\ out \in Seq(1 .. MaxSeq) /\ step \in {"new", "replay", "attach", "live"}
  BY BoundsAssumption DEF StreamInv, TypeOK
<1>e. <<>> \in Seq(1 .. MaxSeq) /\ Len(<<>>) = 0
  OBVIOUS
<1>i. /\ installed <= committed /\ published <= committed /\ from <= committed
      /\ from < next /\ next <= committed + 1 /\ out = Span(from, next - 1)
      /\ \A s \in pending : next < s /\ s <= committed
      /\ \A i \in 1 .. Len(replay) : replay[i] <= committed
      /\ \A i \in 1 .. Len(mailbox) : mailbox[i] <= committed
      /\ step = "new" => out = <<>> /\ pending = {}
  BY DEF StreamInv, SentInOrder
<1>1. CASE Commit
  <2>1. PICK n \in 1 .. MaxBatch : committed + n <= MaxSeq /\ committed' = committed + n
    BY <1>1 DEF Commit
  <2>2. UNCHANGED <<installed, published, step, from, replay, mailbox, next, pending, out>>
    BY <1>1 DEF Commit, buffer
  <2>3. committed' \in 0 .. MaxSeq /\ committed < committed'
    BY <1>t, <2>1
  <2>4. /\ \A i \in 1 .. Len(replay) : replay[i] <= committed'
        /\ \A i \in 1 .. Len(mailbox) : mailbox[i] <= committed'
        /\ \A s \in pending : s <= committed'
    <3>1. /\ \A i \in 1 .. Len(replay) : replay[i] \in Nat
          /\ \A i \in 1 .. Len(mailbox) : mailbox[i] \in Nat
      BY <1>t, ElementOfSeq
    <3> QED
      BY <1>t, <1>i, <2>3, <3>1
  <2>5. installed <= committed' /\ published <= committed' /\ from <= committed'
        /\ next <= committed' + 1
    <3>0. committed \in Nat /\ committed' \in Nat /\ installed \in Nat /\ published \in Nat
          /\ from \in Nat /\ next \in Nat
      BY <1>t, <2>3
    <3>2. installed <= committed'
      BY <1>i, <2>3, <3>0, Ascending
    <3>3. published <= committed'
      BY <1>i, <2>3, <3>0, Ascending
    <3>4. from <= committed'
      BY <1>i, <2>3, <3>0, Ascending
    <3>5. next <= committed' + 1
      BY <1>i, <2>3, <3>0, Ascending
    <3> QED
      BY <3>2, <3>3, <3>4, <3>5
  <2> QED
    BY <1>t, <1>i, <2>2, <2>3, <2>4, <2>5 DEF StreamInv, TypeOK, SentInOrder
<1>2. CASE Install
  BY <1>2, <1>t, <1>i DEF Install, buffer, StreamInv, TypeOK, SentInOrder
<1>3. CASE Publish
  <2>1. published' = published + 1 /\ published' \in 1 .. MaxSeq /\ published' <= committed
    BY <1>3, <1>t DEF Publish
  <2>2. /\ mailbox' \in Seq(1 .. MaxSeq)
        /\ \A i \in 1 .. Len(mailbox') : mailbox'[i] <= committed
    <3>1. CASE step = "live"
      <4>1. mailbox' = Append(mailbox, published')
        BY <1>3, <3>1 DEF Publish
      <4>2. /\ mailbox' \in Seq(1 .. MaxSeq) /\ Len(mailbox') = Len(mailbox) + 1
            /\ mailbox'[Len(mailbox) + 1] = published'
            /\ \A i \in 1 .. Len(mailbox) : mailbox'[i] = mailbox[i]
        BY <1>t, <2>1, <4>1, AppendProperties
      <4>3. ASSUME NEW i \in 1 .. Len(mailbox') PROVE mailbox'[i] <= committed
        <5>1. i \in 1 .. Len(mailbox) \/ i = Len(mailbox) + 1
          BY <1>t, <4>2
        <5> QED
          BY <1>i, <2>1, <4>2, <5>1
      <4> QED
        BY <4>2, <4>3
    <3>2. CASE step # "live"
      BY <1>3, <1>t, <1>i, <3>2 DEF Publish
    <3> QED
      BY <3>1, <3>2
  <2>3. UNCHANGED <<committed, installed, step, from, replay, next, pending, out>>
    BY <1>3 DEF Publish, buffer
  <2> QED
    BY <1>t, <1>i, <2>1, <2>2, <2>3 DEF StreamInv, TypeOK, SentInOrder
<1>4. CASE ReadSnapshot
  <2>1. Span(installed, installed) = <<>> /\ (installed + 1) - 1 = installed
    BY <1>t, SpanEmpty
  <2>2. /\ UNCHANGED <<committed, installed, published, replay, mailbox, pending, out>>
        /\ step' = "replay" /\ from' = installed /\ next' = installed + 1
        /\ out = <<>> /\ pending = {}
    BY <1>4, <1>i DEF ReadSnapshot, engine
  <2>3. SentInOrder'
    BY <2>1, <2>2 DEF SentInOrder
  <2> QED
    BY <1>t, <1>i, <2>2, <2>3 DEF StreamInv, TypeOK
<1>5. CASE ReadReplay
  <2>1. /\ UNCHANGED <<committed, installed, published, from, mailbox, next, pending, out>>
        /\ step' = "attach"
        /\ replay' = Span(from, committed) \/ replay' = <<>>
    BY <1>5 DEF ReadReplay, engine, buffer
  <2>2. /\ replay' \in Seq(1 .. MaxSeq)
        /\ \A i \in 1 .. Len(replay') : replay'[i] <= committed
    <3>1. CASE replay' = Span(from, committed)
      BY <3>1, ReplayRead
    <3>2. CASE replay' = <<>>
      BY <3>2
    <3> QED
      BY <2>1, <3>1, <3>2
  <2> QED
    BY <1>t, <1>i, <2>1, <2>2 DEF StreamInv, TypeOK, SentInOrder
<1>6. CASE Attach
  BY <1>6, <1>t, <1>i DEF Attach, engine, buffer, StreamInv, TypeOK, SentInOrder
<1>h. ASSUME NEW q \in Seq(1 .. MaxSeq), q # <<>>,
             \A i \in 1 .. Len(q) : q[i] <= committed
      PROVE  /\ Head(q) \in 1 .. MaxSeq /\ Head(q) <= committed
             /\ Tail(q) \in Seq(1 .. MaxSeq)
             /\ \A i \in 1 .. Len(Tail(q)) : Tail(q)[i] <= committed
  <2>1. Len(q) \in Nat \ {0} /\ Len(Tail(q)) = Len(q) - 1
        /\ \A i \in 1 .. Len(Tail(q)) : Tail(q)[i] = q[i + 1]
    BY <1>h, EmptySeq, HeadTailProperties
  <2>2. Head(q) = q[1] /\ 1 \in 1 .. Len(q)
    BY <1>h, <2>1
  <2>3. \A i \in 1 .. Len(Tail(q)) : i + 1 \in 1 .. Len(q)
    BY <2>1
  <2> QED
    BY <1>h, <2>1, <2>2, <2>3, HeadTailProperties
<1>7. CASE MergeReplay
  <2>1. /\ replay # <<>> /\ replay' = Tail(replay) /\ Merge(Head(replay)) /\ step = "live"
        /\ UNCHANGED <<committed, installed, published, step, from, mailbox>>
    BY <1>7 DEF MergeReplay, engine
  <2>2. /\ Head(replay) \in 1 .. MaxSeq /\ Head(replay) <= committed
        /\ replay' \in Seq(1 .. MaxSeq)
        /\ \A i \in 1 .. Len(replay') : replay'[i] <= committed
    BY <1>t, <1>i, <1>h, <2>1
  <2>3. /\ out' = Span(from, next' - 1) /\ from < next' /\ next' <= committed + 1
        /\ \A n \in pending' : next' < n /\ n <= committed
        /\ next' \in 1 .. MaxSeq + 1 /\ pending' \subseteq 2 .. MaxSeq
        /\ out' \in Seq(1 .. MaxSeq)
    BY <2>1, <2>2, MergeKeeps
  <2> QED
    BY <1>t, <1>i, <2>1, <2>2, <2>3 DEF StreamInv, TypeOK, SentInOrder
<1>8. CASE MergeLive
  <2>1. /\ mailbox # <<>> /\ mailbox' = Tail(mailbox) /\ Merge(Head(mailbox)) /\ step = "live"
        /\ UNCHANGED <<committed, installed, published, step, from, replay>>
    BY <1>8 DEF MergeLive, engine
  <2>2. /\ Head(mailbox) \in 1 .. MaxSeq /\ Head(mailbox) <= committed
        /\ mailbox' \in Seq(1 .. MaxSeq)
        /\ \A i \in 1 .. Len(mailbox') : mailbox'[i] <= committed
    BY <1>t, <1>i, <1>h, <2>1
  <2>3. /\ out' = Span(from, next' - 1) /\ from < next' /\ next' <= committed + 1
        /\ \A n \in pending' : next' < n /\ n <= committed
        /\ next' \in 1 .. MaxSeq + 1 /\ pending' \subseteq 2 .. MaxSeq
        /\ out' \in Seq(1 .. MaxSeq)
    BY <2>1, <2>2, MergeKeeps
  <2> QED
    BY <1>t, <1>i, <2>1, <2>2, <2>3 DEF StreamInv, TypeOK, SentInOrder
<1>9. CASE Close /\ UNCHANGED engine
  <2>1. Span(0, 0) = <<>>
    BY SpanEmpty
  <2>2. /\ step' = "new" /\ from' = 0 /\ replay' = <<>> /\ mailbox' = <<>> /\ next' = 1
        /\ pending' = {} /\ out' = <<>> /\ UNCHANGED <<committed, installed, published>>
    BY <1>9 DEF Close, engine
  <2>3. SentInOrder'
    BY <2>1, <2>2 DEF SentInOrder
  <2> QED
    BY <1>t, <1>e, <1>i, <2>2, <2>3 DEF StreamInv, TypeOK
<1>10. CASE UNCHANGED vars
  BY <1>10, <1>t, <1>i DEF vars, StreamInv, TypeOK, SentInOrder
<1> QED
  BY <1>1, <1>2, <1>3, <1>4, <1>5, <1>6, <1>7, <1>8, <1>9, <1>10
  DEF Engine, Handler, Stream

-----------------------------------------------------------------------------
(* The client's side.  Behind StoreIsPrefix: the batch holds at most one event *)
(* the store does not have, its next; an answer never takes the store back.    *)
BatchInv ==
    /\ \A i \in 1 .. Len(batch) : batch[i] <= latest + 1 /\ batch[i] <= committed
    /\ \A i \in 1 .. Len(batch) - 1 : batch[i] <= latest
    /\ batch # <<>> => received
    /\ stream = "hook" => batch = <<>>
    /\ stream = "up" =>
         taken <= Len(out) /\ \A i \in 1 .. Len(batch) : batch[i] <= from + taken

AnswerInv ==
    /\ inFlight.kind \in Snapshots /\ inFlight.served =>
         /\ latest <= inFlight.upTo /\ inFlight.upTo <= committed
         /\ \A i \in 1 .. Len(batch) : batch[i] <= inFlight.upTo
    /\ inFlight.kind = "replay" =>
         /\ inFlight.from <= latest
         /\ inFlight.served =>
              /\ inFlight.from <= inFlight.upTo /\ inFlight.upTo <= committed
              /\ Smaller(tracker.highest, inFlight.from + ReplayLimit) <= inFlight.upTo
    /\ tracker.highest <= committed

ClientInv ==
    /\ latest <= committed /\ highest <= committed
    /\ StoreIsPrefix
    /\ BatchInv
    /\ AnswerInv

(* What is remembered of a gap.  Behind GapIsRemembered: a bootstrap may fail  *)
(* and leave nothing, so the gap is remembered beside it; a snapshot after a   *)
(* failed replay is fetched by a client that is to bootstrap again.            *)
Remembered ==
    \/ timer \/ pendingReplay \/ ~bootstrapped
    \/ \E i \in DOMAIN batch : batch[i] >= highest

GapInv ==
    /\ highest > latest => Remembered \/ Busy
    /\ highest > latest /\ inFlight.kind = "bootstrap" => Remembered
    /\ inFlight.kind = "fallback" => ~bootstrapped

-----------------------------------------------------------------------------
(* Applying events.                                                           *)

(* A batch whose events after the first e continue the store, the others being *)
(* in it already, adds exactly those.                                          *)
LEMMA NewEventsOf ==
    ASSUME NEW events, events \in Seq(Nat), latest \in Nat,
           NEW e \in 0 .. Len(events),
           \A i \in 1 .. e : events[i] <= latest,
           \A i \in e + 1 .. Len(events) : events[i] = latest + (i - e)
    PROVE  NewEvents(events) = Span(latest, latest + (Len(events) - e))
<1> DEFINE new == {i \in DOMAIN events : events[i] > latest}
           before(i) == {j \in new : events[j] < events[i]
                                      \/ (events[j] = events[i] /\ j <= i)}
           n == Len(events)
<1>1. n \in Nat /\ DOMAIN events = 1 .. n /\ e \in Nat /\ e <= n
  OBVIOUS
<1>2. new = e + 1 .. n
  <2>1. ASSUME NEW i \in 1 .. n PROVE events[i] > latest <=> i \in e + 1 .. n
    <3>1. CASE i <= e
      <4>1. events[i] <= latest /\ events[i] \in Nat
        BY <1>1, <3>1, ElementOfSeq
      <4> QED
        BY <1>1, <3>1, <4>1
    <3>2. CASE ~(i <= e)
      BY <1>1, <3>2
    <3> QED
      BY <3>1, <3>2
  <2>2. e + 1 .. n \subseteq 1 .. n
    BY <1>1
  <2> QED
    BY <1>1, <2>1, <2>2
<1>3. Cardinality(new) = n - e
  <2>0. e + 1 \in Int /\ n \in Int
    BY <1>1
  <2>1. Cardinality(e + 1 .. n) = IF e + 1 > n THEN 0 ELSE n - (e + 1) + 1
    BY <2>0, FS_Interval
  <2> HIDE DEF n
  <2>2. (IF e + 1 > n THEN 0 ELSE n - (e + 1) + 1) = n - e
    BY <1>1
  <2> HIDE DEF new, n
  <2> QED
    BY <1>2, <2>1, <2>2
<1>4. ASSUME NEW i \in e + 1 .. n PROVE Cardinality(before(i)) = i - e
  <2>1. before(i) = e + 1 .. i
    <3>1. ASSUME NEW j \in e + 1 .. n
          PROVE  (events[j] < events[i] \/ (events[j] = events[i] /\ j <= i)) <=> j <= i
      <4>1. events[i] = latest + (i - e) /\ events[j] = latest + (j - e)
        BY <1>4, <3>1
      <4> QED
        BY <1>1, <1>4, <3>1, <4>1
    <3>2. before(i) = {j \in e + 1 .. n : j <= i}
      BY <1>2, <3>1
    <3> QED
      BY <1>1, <1>4, <3>2
  <2>0. e + 1 \in Int /\ i \in Int
    BY <1>1, <1>4
  <2>2. Cardinality(e + 1 .. i) = IF e + 1 > i THEN 0 ELSE i - (e + 1) + 1
    BY <2>0, FS_Interval
  <2>3. (IF e + 1 > i THEN 0 ELSE i - (e + 1) + 1) = i - e
    BY <1>1, <1>4
  <2> HIDE DEF before
  <2> QED
    BY <2>1, <2>2, <2>3
<1> HIDE DEF before
<1>5. ASSUME NEW k \in 1 .. n - e
      PROVE  (CHOOSE i \in new : Cardinality(before(i)) = k) = e + k
  <2>1. e + k \in e + 1 .. n /\ (e + k) - e = k
    BY <1>1, <1>5
  <2>2. Cardinality(before(e + k)) = k
    BY <1>4, <2>1
  <2>3. \A i \in e + 1 .. n : Cardinality(before(i)) = k => i = e + k
    BY <1>1, <1>4, <1>5
  <2> HIDE DEF new
  <2> QED
    BY <1>2, <2>1, <2>2, <2>3
<1>6. NewEvents(events)
        = [k \in 1 .. Cardinality(new) |-> events[CHOOSE i \in new : Cardinality(before(i)) = k]]
  BY DEF NewEvents, before
<1>7. ASSUME NEW k \in 1 .. n - e
      PROVE  events[CHOOSE i \in new : Cardinality(before(i)) = k] = latest + k
  <2>1. e + k \in e + 1 .. n /\ (e + k) - e = k
    BY <1>1, <1>7
  <2>2. events[e + k] = latest + k
    BY <2>1
  <2> HIDE DEF new
  <2> QED
    BY <1>5, <2>2
<1> HIDE DEF new
<1>8. NewEvents(events) = [k \in 1 .. n - e |-> latest + k]
  BY <1>3, <1>6, <1>7
<1>9. (latest + (n - e)) - latest = n - e
  BY <1>1
<1> QED
  BY <1>8, <1>9 DEF Span

(* ... and takes the store, up to its latest, that much further.               *)
LEMMA Applied ==
    ASSUME NEW events, events \in Seq(Nat), latest \in Nat, store = Span(0, latest),
           NEW e \in 0 .. Len(events),
           \A i \in 1 .. e : events[i] <= latest,
           \A i \in e + 1 .. Len(events) : events[i] = latest + (i - e),
           ApplyBatch(events)
    PROVE  latest' = latest + (Len(events) - e) /\ store' = Span(0, latest')
<1> DEFINE m == latest + (Len(events) - e)
           new == NewEvents(events)
<1>1. m \in Nat /\ latest <= m
  OBVIOUS
<1>2. new = Span(latest, m)
  BY NewEventsOf
<1>3. store' = store \o new /\ latest' = IF new = <<>> THEN latest ELSE new[Len(new)]
  BY DEF ApplyBatch
<1>4. /\ Span(latest, m) \in Seq(1 .. m) /\ Len(Span(latest, m)) = m - latest
      /\ \A i \in 1 .. m - latest : Span(latest, m)[i] = latest + i
  <2> HIDE DEF m
  <2>1. m <= m
    BY <1>1
  <2> QED
    BY <1>1, <2>1, SpanIn
<1> HIDE DEF m, new
<1>5. latest' = m
  <2>1. CASE m = latest
    <3>1. new = <<>>
      BY <1>1, <1>2, <2>1, SpanEmpty
    <3> QED
      BY <1>3, <2>1, <3>1
  <2>2. CASE m # latest
    <3>1. m - latest \in 1 .. m - latest /\ latest + (m - latest) = m /\ Len(new) # 0
      BY <1>1, <1>2, <1>4, <2>2
    <3>2. new # <<>> /\ new[Len(new)] = m
      BY <1>2, <1>4, <3>1
    <3> QED
      BY <1>3, <3>2
  <2> QED
    BY <2>1, <2>2
<1>6. Span(0, latest) \o Span(latest, m) = Span(0, m)
  <2>1. 0 \in Nat /\ 0 <= latest
    OBVIOUS
  <2> QED
    BY <1>1, <2>1, SpanConcat
<1>7. store' = Span(0, m)
  BY <1>2, <1>3, <1>6
<1> QED
  BY <1>5, <1>7 DEF m

(* Applying the batch takes the store to the batch's last event at most.       *)
LEMMA BatchApplied ==
    ASSUME batch \in Seq(1 .. MaxSeq), latest \in Nat, StoreIsPrefix, BatchInv,
           ApplyBatch(batch)
    PROVE  /\ latest' \in Nat /\ latest <= latest' /\ store' = Span(0, latest')
           /\ \A i \in 1 .. Len(batch) : batch[i] <= latest'
           /\ latest' = latest \/ (batch # <<>> /\ latest' = batch[Len(batch)])
<1> DEFINE n == Len(batch)
<1>1. /\ n \in Nat /\ batch \in Seq(Nat) /\ store = Span(0, latest)
      /\ \A i \in 1 .. n : batch[i] \in Nat /\ batch[i] <= latest + 1
      /\ \A i \in 1 .. n - 1 : batch[i] <= latest
  <2>1. batch \in Seq(Nat) /\ n \in Nat
    BY BoundsAssumption, SequencesAreNumbers
  <2>2. \A i \in 1 .. n : batch[i] \in Nat
    BY <2>1, ElementOfSeq
  <2> QED
    BY <2>1, <2>2 DEF BatchInv, StoreIsPrefix
<1>2. CASE \A i \in 1 .. n : batch[i] <= latest
  <2>1. n \in 0 .. n /\ n + 1 .. n = {} /\ latest + (n - n) = latest
    BY <1>1
  <2>2. latest' = latest + (n - n) /\ store' = Span(0, latest')
    BY <1>1, <1>2, <2>1, Applied
  <2> QED
    BY <1>2, <2>1, <2>2
<1>3. CASE ~ \A i \in 1 .. n : batch[i] <= latest
  <2>1. n # 0 /\ batch[n] = latest + 1
    <3>1. PICK i \in 1 .. n : ~(batch[i] <= latest)
      BY <1>3
    <3>2. i = n
      BY <1>1, <3>1
    <3> QED
      BY <1>1, <3>1, <3>2
  <2>2. n - 1 \in 0 .. n /\ (n - 1) + 1 .. n = {n} /\ n - (n - 1) = 1
    BY <1>1, <2>1
  <2>3. \A i \in (n - 1) + 1 .. n : batch[i] = latest + (i - (n - 1))
    BY <2>1, <2>2
  <2>4. latest' = latest + (n - (n - 1)) /\ store' = Span(0, latest')
    BY <1>1, <2>2, <2>3, Applied
  <2>5. latest' = latest + 1 /\ batch # <<>>
    BY <1>1, <2>1, <2>2, <2>4
  <2> QED
    BY <1>1, <2>1, <2>4, <2>5
<1> QED
  BY <1>2, <1>3

(* Applying an answered replay takes the store to the replay's last event.     *)
LEMMA SpanApplied ==
    ASSUME NEW a \in Nat, NEW b \in Nat, a <= b, latest \in Nat, a <= latest,
           StoreIsPrefix, ApplyBatch(Span(a, b))
    PROVE  /\ latest' = Larger(latest, b) /\ store' = Span(0, latest')
<1> DEFINE events == Span(a, b)
<1>1. /\ events \in Seq(Nat) /\ Len(events) = b - a
      /\ \A i \in 1 .. b - a : events[i] = a + i
  <2>1. a + 1 .. b \subseteq Nat
    OBVIOUS
  <2> QED
    BY <2>1, SpanType
<1>2. store = Span(0, latest) /\ ApplyBatch(events)
  BY DEF StoreIsPrefix
<1> HIDE DEF events
<1>3. CASE latest <= b
  <2> DEFINE e == latest - a
  <2>1. e \in 0 .. Len(events) /\ latest + (Len(events) - e) = b
    BY <1>1, <1>3
  <2>2. /\ \A i \in 1 .. e : events[i] <= latest
        /\ \A i \in e + 1 .. Len(events) : events[i] = latest + (i - e)
    BY <1>1, <1>3
  <2> HIDE DEF e
  <2>3. latest' = latest + (Len(events) - e) /\ store' = Span(0, latest')
    BY <1>1, <1>2, <2>1, <2>2, Applied
  <2>4. Larger(latest, b) = b
    BY <1>3 DEF Larger
  <2> QED
    BY <2>1, <2>3, <2>4
<1>4. CASE ~(latest <= b)
  <2> DEFINE e == Len(events)
  <2>1. e \in 0 .. Len(events) /\ latest + (Len(events) - e) = latest
        /\ e + 1 .. Len(events) = {}
    BY <1>1
  <2>2. \A i \in 1 .. e : events[i] <= latest
    BY <1>1, <1>4
  <2> HIDE DEF e
  <2>3. latest' = latest + (Len(events) - e) /\ store' = Span(0, latest')
    BY <1>1, <1>2, <2>1, <2>2, Applied
  <2>4. Larger(latest, b) = latest
    BY <1>4 DEF Larger
  <2> QED
    BY <2>1, <2>3, <2>4
<1> QED
  BY <1>3, <1>4

-----------------------------------------------------------------------------
(* The inductive invariant of stream and client together.                     *)
ClientTypes ==
    /\ stream \in {"down", "hook", "up"} /\ (stream # "up") = (step = "new")
    /\ taken \in 0 .. MaxSeq /\ received \in BOOLEAN
    /\ owed \in 0 .. committed
    /\ store \in Seq(1 .. MaxSeq)
    /\ latest \in 0 .. MaxSeq /\ highest \in 0 .. MaxSeq
    /\ bootstrapped \in BOOLEAN /\ pendingReplay \in BOOLEAN
    /\ inFlight \in [kind : {"none", "replay"} \cup Snapshots, from : 0 .. MaxSeq,
                     upTo : 0 .. MaxSeq, served : BOOLEAN]
    /\ batch \in Seq(1 .. MaxSeq)
    /\ tracker \in [attempts : 0 .. MaxRetries, latest : 0 .. MaxSeq,
                    highest : 0 .. MaxSeq]
    /\ timer \in BOOLEAN /\ drops \in 0 .. MaxDrops /\ failures \in 0 .. MaxFailures

DeliveryInv == StreamInv /\ ClientTypes /\ ClientInv /\ GapInv

(* What it says of the numbers.                                               *)
Bounds ==
    /\ MaxSeq \in Nat /\ MaxDrops \in Nat /\ MaxFailures \in Nat
    /\ ReplayLimit \in Nat \ {0} /\ MaxRetries \in Nat \ {0}
    /\ committed \in 0 .. MaxSeq /\ from \in 0 .. MaxSeq /\ next \in Nat /\ taken \in Nat
    /\ latest \in 0 .. MaxSeq /\ highest \in 0 .. MaxSeq /\ owed \in 0 .. MaxSeq
    /\ owed <= committed /\ latest <= committed /\ highest <= committed
    /\ from < next /\ next <= committed + 1
    /\ inFlight.kind \in {"none", "replay", "bootstrap", "fallback"}
    /\ inFlight.from \in 0 .. MaxSeq /\ inFlight.upTo \in 0 .. MaxSeq
    /\ tracker.highest \in 0 .. MaxSeq /\ tracker.attempts \in 0 .. MaxRetries
    /\ store = Span(0, latest)

LEMMA Numbers == DeliveryInv => Bounds
  BY BoundsAssumption, ClientAssumption
  DEF DeliveryInv, StreamInv, TypeOK, ClientTypes, ClientInv, StoreIsPrefix, Snapshots, Bounds

(* A step that leaves the server alone.                                        *)
LEMMA ServerStands ==
    ASSUME StreamInv, UNCHANGED server
    PROVE  /\ StreamInv'
           /\ UNCHANGED <<committed, from, out, step>>
<1>1. UNCHANGED vars
  BY DEF server, vars, engine, buffer
<1> QED
  BY <1>1, StreamStep DEF vars

(* Engine and stream go on: the store's head and what was sent only grow.      *)
LEMMA ServerMoves ==
    ASSUME StreamInv, Engine \/ ReadReplay \/ Attach \/ Stream
    PROVE  /\ \E c \in 0 .. MaxSeq : committed' = c /\ committed <= c
           /\ from' = from /\ (step' = "new") = (step = "new")
           /\ \E n \in Nat : Len(out') = n /\ Len(out) <= n
<1>t. /\ MaxSeq \in Nat /\ committed \in 0 .. MaxSeq /\ out \in Seq(1 .. MaxSeq)
      /\ Len(out) \in Nat
  <2>1. MaxSeq \in Nat /\ committed \in 0 .. MaxSeq /\ out \in Seq(1 .. MaxSeq)
    BY BoundsAssumption DEF StreamInv, TypeOK
  <2> QED
    BY <2>1, LenProperties
<1>1. CASE Commit
  <2>1. PICK n \in 1 .. MaxBatch : committed + n <= MaxSeq /\ committed' = committed + n
    BY <1>1 DEF Commit
  <2>2. committed + n \in 0 .. MaxSeq /\ committed <= committed + n
    BY <1>t, <2>1, BoundsAssumption
  <2>3. UNCHANGED <<from, step, out>>
    BY <1>1 DEF Commit, buffer
  <2> QED
    BY <1>t, <2>1, <2>2, <2>3
<1>2. CASE Install \/ Publish \/ ReadReplay \/ Attach
  <2>1. UNCHANGED <<committed, from, out>> /\ (step' = "new") = (step = "new")
    BY <1>2 DEF Install, Publish, ReadReplay, Attach, buffer, engine
  <2> QED
    BY <1>t, <2>1
<1>3. CASE Stream
  <2>1. \E s \in 1 .. MaxSeq : s <= committed /\ Merge(s)
    <3>1. ASSUME NEW q \in Seq(1 .. MaxSeq), q # <<>>,
                 \A i \in 1 .. Len(q) : q[i] <= committed
          PROVE  Head(q) \in 1 .. MaxSeq /\ Head(q) <= committed
      <4>1. Len(q) \in Nat \ {0}
        BY <3>1, EmptySeq
      <4>2. Head(q) = q[1] /\ 1 \in 1 .. Len(q)
        BY <3>1, <4>1
      <4> QED
        BY <3>1, <4>2, HeadTailProperties
    <3>2. CASE MergeReplay
      <4>1. replay # <<>> /\ Merge(Head(replay)) /\ replay \in Seq(1 .. MaxSeq)
            /\ \A i \in 1 .. Len(replay) : replay[i] <= committed
        BY <3>2 DEF MergeReplay, StreamInv, TypeOK
      <4> QED
        BY <3>1, <4>1
    <3>3. CASE MergeLive
      <4>1. mailbox # <<>> /\ Merge(Head(mailbox)) /\ mailbox \in Seq(1 .. MaxSeq)
            /\ \A i \in 1 .. Len(mailbox) : mailbox[i] <= committed
        BY <3>3 DEF MergeLive, StreamInv, TypeOK
      <4> QED
        BY <3>1, <4>1
    <3> QED
      BY <1>3, <3>2, <3>3 DEF Stream
  <2>2. UNCHANGED <<committed, from, step>>
    BY <1>3 DEF Stream, MergeReplay, MergeLive, engine
  <2>3. PICK t \in Seq(1 .. MaxSeq) : out' = out \o t
    BY <2>1, <2>2, MergeKeeps
  <2>4. Len(out') = Len(out) + Len(t) /\ Len(t) \in Nat
    BY <1>t, <2>3, ConcatProperties, LenProperties
  <2> QED
    BY <1>t, <2>2, <2>4
<1> QED
  BY <1>1, <1>2, <1>3 DEF Engine

(* ... which keeps the invariant.                                              *)
LEMMA ServerStepKeeps == DeliveryInv /\ ServerStep => DeliveryInv'
<1> SUFFICES ASSUME DeliveryInv, ServerStep PROVE DeliveryInv'
  OBVIOUS
<1>n. Bounds /\ batch \in Seq(1 .. MaxSeq) /\ \A i \in 1 .. Len(batch) : batch[i] \in Nat
  <2>1. Bounds /\ batch \in Seq(1 .. MaxSeq)
    BY Numbers DEF DeliveryInv, ClientTypes
  <2> QED
    BY <2>1, SequencesAreNumbers, ElementOfSeq DEF Bounds
<1>1. Engine \/ ReadReplay \/ Attach \/ Stream
  BY DEF ServerStep
<1>2. StreamInv'
  BY <1>1, StreamStep DEF DeliveryInv, Handler
<1>3. PICK c \in 0 .. MaxSeq : committed' = c /\ committed <= c
  BY <1>1, ServerMoves DEF DeliveryInv
<1>4. /\ from' = from /\ (step' = "new") = (step = "new")
      /\ \E n \in Nat : Len(out') = n /\ Len(out) <= n
  BY <1>1, ServerMoves DEF DeliveryInv
<1>5. UNCHANGED <<stream, taken, received, owed, store, latest, highest, bootstrapped,
                  pendingReplay, inFlight, batch, tracker, timer, drops, failures>>
  BY DEF ServerStep, subscription, client, recovery, retry, counts
<1>6. ClientTypes'
  <2>1. owed \in 0 .. c
    BY <1>n, <1>3 DEF Bounds
  <2> QED
    BY <1>3, <1>4, <1>5, <2>1 DEF DeliveryInv, ClientTypes
<1>7. BatchInv'
  <2>1. ASSUME NEW i \in 1 .. Len(batch) PROVE batch[i] <= c
    <3>1. batch[i] <= committed /\ batch[i] \in Nat /\ committed \in Nat /\ c \in Nat
      BY <1>n, <1>3 DEF DeliveryInv, ClientInv, BatchInv, Bounds
    <3> QED
      BY <1>3, <3>1
  <2>2. Len(out) \in Nat /\ (stream = "up" => taken <= Len(out') /\ Len(out') \in Nat)
    <3>1. out \in Seq(1 .. MaxSeq) /\ (stream = "up" => taken <= Len(out))
      BY DEF DeliveryInv, StreamInv, TypeOK, ClientInv, BatchInv
    <3>2. Len(out) \in Nat
      BY <3>1, LenProperties
    <3> QED
      BY <1>n, <1>4, <3>1, <3>2 DEF Bounds
  <2> QED
    BY <1>3, <1>4, <1>5, <2>1, <2>2 DEF DeliveryInv, ClientInv, BatchInv
<1>8. AnswerInv'
  <2>1. AnswerInv /\ tracker.highest \in Nat /\ inFlight.upTo \in Nat /\ committed \in Nat
        /\ c \in Nat
    BY <1>n, <1>3 DEF DeliveryInv, ClientInv, Bounds
  <2>2. tracker.highest <= c /\ (inFlight.upTo <= committed => inFlight.upTo <= c)
    BY <1>3, <2>1 DEF AnswerInv
  <2> QED
    BY <1>3, <1>5, <2>1, <2>2 DEF AnswerInv
<1>9. latest <= c /\ highest <= c
  BY <1>n, <1>3 DEF Bounds
<1> QED
  BY <1>2, <1>3, <1>5, <1>6, <1>7, <1>8, <1>9
  DEF DeliveryInv, ClientInv, StoreIsPrefix, GapInv, Remembered, Busy

(* Losing the connection.                                                      *)
LEMMA DropKeeps == DeliveryInv /\ Drop => DeliveryInv'
<1> SUFFICES ASSUME DeliveryInv, Drop PROVE DeliveryInv'
  OBVIOUS
<1>1. StreamInv'
  BY StreamStep DEF Drop, DeliveryInv
<1>2. /\ UNCHANGED <<committed, taken, received, owed, store, latest, highest, bootstrapped,
                     pendingReplay, inFlight, batch, tracker, timer, failures>>
      /\ stream' = "down" /\ step' = "new" /\ drops' = drops + 1 /\ drops < MaxDrops
  BY DEF Drop, Close, engine, recovery, retry
<1>3. ClientTypes'
  <2>1. drops + 1 \in 0 .. MaxDrops
    BY <1>2, ClientAssumption DEF DeliveryInv, ClientTypes
  <2> QED
    BY <1>2, <2>1 DEF DeliveryInv, ClientTypes
<1> QED
  BY <1>1, <1>2, <1>3
  DEF DeliveryInv, ClientInv, StoreIsPrefix, BatchInv, AnswerInv, GapInv, Remembered, Busy

(* Subscribing: a first time, or after the hook.                               *)
LEMMA SubscribeKeeps == DeliveryInv /\ Subscribe => DeliveryInv'
<1> SUFFICES ASSUME DeliveryInv, Subscribe PROVE DeliveryInv'
  OBVIOUS
<1>1. StreamInv'
  BY StreamStep DEF Subscribe, DeliveryInv, Handler
<1>2. /\ UNCHANGED <<committed, out, received, owed, store, latest, highest, bootstrapped,
                     pendingReplay, inFlight, batch, tracker, timer, drops, failures>>
      /\ stream' = "up" /\ step' = "replay" /\ taken' = 0
      /\ stream = "hook" \/ (stream = "down" /\ ~received)
  BY DEF Subscribe, ReadSnapshot, engine, client, recovery, retry, counts
<1>3. ClientTypes'
  BY <1>2, BoundsAssumption DEF DeliveryInv, ClientTypes
<1>4. batch = <<>> /\ Len(batch) = 0 /\ 0 <= Len(out)
  <2>1. batch = <<>> /\ out \in Seq(1 .. MaxSeq)
    BY <1>2 DEF DeliveryInv, ClientInv, BatchInv, StreamInv, TypeOK
  <2> QED
    BY <2>1, LenProperties
<1>5. BatchInv'
  BY <1>2, <1>4 DEF BatchInv
<1> QED
  BY <1>1, <1>2, <1>3, <1>5
  DEF DeliveryInv, ClientInv, StoreIsPrefix, AnswerInv, GapInv, Remembered, Busy

(* The server answers a request.                                               *)
LEMMA ServeKeeps == DeliveryInv /\ Serve => DeliveryInv'
<1> SUFFICES ASSUME DeliveryInv, Serve PROVE DeliveryInv'
  OBVIOUS
<1>n. Bounds
  BY Numbers
<1>1. /\ UNCHANGED server
      /\ UNCHANGED <<stream, taken, received, owed, store, latest, highest, bootstrapped,
                     pendingReplay, batch, tracker, timer, drops, failures>>
      /\ inFlight.kind # "none" /\ ~inFlight.served
  BY DEF Serve, subscription, retry, counts
<1>2. StreamInv' /\ UNCHANGED <<committed, from, out, step>>
  BY <1>1, ServerStands DEF DeliveryInv
<1> DEFINE upTo == IF inFlight.kind \in Snapshots THEN committed
                   ELSE Smaller(committed, inFlight.from + ReplayLimit)
<1>3. inFlight' = [kind |-> inFlight.kind, from |-> inFlight.from, upTo |-> upTo,
                   served |-> TRUE]
  BY DEF Serve, DeliveryInv, ClientTypes
<1>4. /\ upTo \in 0 .. MaxSeq /\ upTo <= committed
      /\ inFlight.kind \in Snapshots => upTo = committed
      /\ inFlight.kind = "replay" =>
           inFlight.from <= upTo /\ Smaller(tracker.highest, inFlight.from + ReplayLimit) <= upTo
  <2>1. CASE inFlight.kind \in Snapshots
    BY <1>n, <2>1 DEF Bounds, Snapshots
  <2>2. CASE inFlight.kind \notin Snapshots
    <3>1. inFlight.kind = "replay"
      BY <1>n, <1>1, <2>2 DEF Bounds, Snapshots
    <3>2. inFlight.from <= latest /\ tracker.highest <= committed
      BY <3>1 DEF DeliveryInv, ClientInv, AnswerInv
    <3>3. upTo = Smaller(committed, inFlight.from + ReplayLimit)
      BY <2>2
    <3>4. /\ committed \in Nat /\ latest \in Nat /\ inFlight.from \in Nat
          /\ tracker.highest \in Nat /\ ReplayLimit \in Nat /\ MaxSeq \in Nat
          /\ committed <= MaxSeq /\ latest <= committed
      BY <1>n DEF Bounds
    <3> HIDE DEF upTo
    <3> QED
      BY <2>2, <3>2, <3>3, <3>4 DEF Smaller
  <2> QED
    BY <2>1, <2>2
<1> HIDE DEF upTo
<1>5. ClientTypes'
  BY <1>1, <1>2, <1>3, <1>4 DEF DeliveryInv, ClientTypes
<1>6. AnswerInv'
  <2>1. inFlight.kind \in Snapshots => latest <= upTo /\ \A i \in 1 .. Len(batch) : batch[i] <= upTo
    BY <1>n, <1>4 DEF Bounds, DeliveryInv, ClientInv, BatchInv
  <2> QED
    BY <1>1, <1>2, <1>3, <1>4, <2>1 DEF DeliveryInv, ClientInv, AnswerInv
<1> QED
  BY <1>1, <1>2, <1>3, <1>5, <1>6
  DEF DeliveryInv, ClientInv, StoreIsPrefix, BatchInv, GapInv, Remembered, Busy

(* The client applies its batch: the store reaches l, no further than the log  *)
(* or a snapshot on its way.                                                   *)
LEMMA Flushed ==
    ASSUME DeliveryInv, ApplyBatch(batch)
    PROVE  \E l \in 0 .. MaxSeq :
             /\ latest' = l /\ latest <= l /\ l <= committed
             /\ store' = Span(0, l) /\ store' \in Seq(1 .. MaxSeq)
             /\ \A i \in 1 .. Len(batch) : batch[i] <= l
             /\ inFlight.kind \in Snapshots /\ inFlight.served => l <= inFlight.upTo
<1>n. Bounds /\ batch \in Seq(1 .. MaxSeq) /\ StoreIsPrefix /\ BatchInv /\ AnswerInv
  BY Numbers DEF DeliveryInv, ClientTypes, ClientInv
<1>m. MaxSeq \in Nat /\ committed \in 0 .. MaxSeq /\ latest \in 0 .. MaxSeq
      /\ latest <= committed /\ latest \in Nat
  BY <1>n DEF Bounds
<1>1. /\ latest' \in Nat /\ latest <= latest' /\ store' = Span(0, latest')
      /\ \A i \in 1 .. Len(batch) : batch[i] <= latest'
      /\ latest' = latest \/ (batch # <<>> /\ latest' = batch[Len(batch)])
  BY <1>n, <1>m, BatchApplied
<1>2. PICK l \in Nat : latest' = l
  BY <1>1
<1>3. /\ latest <= l /\ store' = Span(0, l) /\ \A i \in 1 .. Len(batch) : batch[i] <= l
      /\ l = latest \/ (batch # <<>> /\ l = batch[Len(batch)])
  BY <1>1, <1>2
<1>4. batch # <<>> => Len(batch) \in 1 .. Len(batch)
  BY <1>n, EmptySeq, LenProperties
<1>5. l <= committed /\ l \in 0 .. MaxSeq
  BY <1>m, <1>n, <1>3, <1>4 DEF BatchInv
<1>6. inFlight.kind \in Snapshots /\ inFlight.served => l <= inFlight.upTo
  BY <1>n, <1>3, <1>4 DEF AnswerInv
<1>7. store' \in Seq(1 .. MaxSeq)
  <2>1. 0 \in Nat /\ 0 <= l /\ l <= MaxSeq
    BY <1>m, <1>5
  <2> QED
    BY <1>m, <1>3, <2>1, SpanIn
<1> QED
  BY <1>2, <1>3, <1>5, <1>6, <1>7

(* The microtask applies the batch.                                            *)
LEMMA FlushKeeps == DeliveryInv /\ Flush => DeliveryInv'
<1> SUFFICES ASSUME DeliveryInv, Flush PROVE DeliveryInv'
  OBVIOUS
<1>n. Bounds /\ BatchInv /\ AnswerInv /\ GapInv /\ ClientTypes
  BY Numbers DEF DeliveryInv, ClientInv
<1>1. /\ UNCHANGED server /\ ApplyBatch(batch) /\ batch' = <<>>
      /\ highest' = Larger(highest, latest')
      /\ UNCHANGED <<stream, taken, received, owed, bootstrapped, pendingReplay, inFlight,
                     tracker, timer, drops, failures>>
  BY DEF Flush, subscription, retry, counts
<1>2. StreamInv' /\ UNCHANGED <<committed, from, out, step>>
  BY <1>1, ServerStands DEF DeliveryInv
<1>3. PICK l \in 0 .. MaxSeq :
        /\ latest' = l /\ latest <= l /\ l <= committed
        /\ store' = Span(0, l) /\ store' \in Seq(1 .. MaxSeq)
        /\ \A i \in 1 .. Len(batch) : batch[i] <= l
        /\ inFlight.kind \in Snapshots /\ inFlight.served => l <= inFlight.upTo
  BY <1>1, Flushed
<1>4. PICK h \in 0 .. MaxSeq :
        /\ highest' = h /\ h <= committed /\ highest <= h /\ l <= h
        /\ h = highest \/ h = l
  <2> DEFINE h == Larger(highest, l)
  <2>1. highest' = h
    BY <1>1, <1>3
  <2>2. h \in 0 .. MaxSeq /\ h <= committed /\ highest <= h /\ l <= h /\ (h = highest \/ h = l)
    BY <1>n, <1>3 DEF Bounds, Larger
  <2> QED
    BY <2>1, <2>2
<1>5. <<>> \in Seq(1 .. MaxSeq) /\ Len(<<>>) = 0
  OBVIOUS
<1>6. ClientTypes'
  BY <1>n, <1>1, <1>2, <1>3, <1>4, <1>5 DEF ClientTypes
<1>7. BatchInv'
  <2>1. stream = "up" => taken <= Len(out)
    BY <1>n DEF BatchInv
  <2> QED
    BY <1>1, <1>2, <1>5, <2>1 DEF BatchInv
<1>8. AnswerInv'
  <2>1. inFlight.kind = "replay" => inFlight.from <= l
    BY <1>n, <1>3 DEF AnswerInv, Bounds
  <2> QED
    BY <1>n, <1>1, <1>2, <1>3, <1>5, <2>1 DEF AnswerInv
<1>9. GapInv'
  <2>1. SUFFICES ASSUME h > l PROVE GapInv'
    BY <1>n, <1>1, <1>3, <1>4 DEF GapInv
  <2>2. h = highest /\ highest > latest /\ ~ \E i \in 1 .. Len(batch) : batch[i] >= highest
    <3>1. \A i \in 1 .. Len(batch) : batch[i] \in Nat
      BY <1>n, SequencesAreNumbers, ElementOfSeq DEF ClientTypes, Bounds
    <3> QED
      BY <1>n, <1>3, <1>4, <2>1, <3>1 DEF Bounds
  <2>3. DOMAIN batch = 1 .. Len(batch)
    BY <1>n DEF ClientTypes
  <2>4. timer \/ pendingReplay \/ ~bootstrapped \/ inFlight.kind # "none"
    BY <1>n, <2>2, <2>3 DEF GapInv, Remembered, Busy
  <2>5. inFlight.kind = "bootstrap" => timer \/ pendingReplay \/ ~bootstrapped
    BY <1>n, <2>2, <2>3 DEF GapInv, Remembered, Busy
  <2> QED
    BY <1>n, <1>1, <2>4, <2>5 DEF GapInv, Remembered, Busy
<1> QED
  BY <1>2, <1>3, <1>4, <1>6, <1>7, <1>8, <1>9 DEF DeliveryInv, ClientInv, StoreIsPrefix

(* A replay that is asked for is recorded as pending or under way.             *)
LEMMA ReplayBegins ==
    ASSUME ClientTypes, Bounds, NEW l \in 0 .. MaxSeq, latest' = l,
           NEW ready, NEW busy, BeginReplay(ready, busy)
    PROVE  \E r \in BOOLEAN, q \in [kind : {"none", "replay"} \cup Snapshots, from : 0 .. MaxSeq,
                                   upTo : 0 .. MaxSeq, served : BOOLEAN] :
             /\ pendingReplay' = r /\ inFlight' = q
             /\ \/ q = inFlight /\ busy /\ r
                \/ q = None /\ ~ready /\ ~busy /\ r
                \/ /\ q = [kind |-> "replay", from |-> l, upTo |-> 0, served |-> FALSE]
                   /\ ready /\ ~busy
<1> DEFINE Q == [kind : {"none", "replay"} \cup Snapshots, from : 0 .. MaxSeq,
                 upTo : 0 .. MaxSeq, served : BOOLEAN]
           new == [kind |-> "replay", from |-> l, upTo |-> 0, served |-> FALSE]
<1>1. inFlight \in Q /\ None \in Q /\ new \in Q
  BY DEF ClientTypes, Bounds, None
<1>2. CASE ~ready \/ busy
  <2>1. pendingReplay' = TRUE /\ inFlight' = IF busy THEN inFlight ELSE None
    BY <1>2 DEF BeginReplay
  <2> QED
    BY <1>1, <1>2, <2>1
<1>3. CASE ~(~ready \/ busy)
  <2>1. pendingReplay' = FALSE /\ inFlight' = [None EXCEPT !.kind = "replay", !.from = l]
    BY <1>3 DEF BeginReplay
  <2>2. PICK q : q = [None EXCEPT !.kind = "replay", !.from = l]
    OBVIOUS
  <2>3. q = new
    BY <2>2 DEF None
  <2> QED
    BY <1>1, <1>3, <2>1, <2>2, <2>3
<1> QED
  BY <1>2, <1>3

(* The resubscription hook applies the batch and asks for a replay.            *)
LEMMA ResubscribeKeeps == DeliveryInv /\ Resubscribe => DeliveryInv'
<1> SUFFICES ASSUME DeliveryInv, Resubscribe PROVE DeliveryInv'
  OBVIOUS
<1>n. Bounds /\ BatchInv /\ AnswerInv /\ GapInv /\ ClientTypes
  BY Numbers DEF DeliveryInv, ClientInv
<1>1. /\ UNCHANGED server /\ ApplyBatch(batch) /\ batch' = <<>> /\ stream = "down"
      /\ stream' = "hook" /\ received /\ BeginReplay(bootstrapped, Busy) /\ owed' = Owed
      /\ UNCHANGED <<taken, received, highest, bootstrapped, tracker, timer, drops, failures>>
  BY DEF Resubscribe, Catch, retry, counts
<1>2. StreamInv' /\ UNCHANGED <<committed, from, out, step>>
  BY <1>1, ServerStands DEF DeliveryInv
<1>3. PICK l \in 0 .. MaxSeq :
        /\ latest' = l /\ latest <= l /\ l <= committed
        /\ store' = Span(0, l) /\ store' \in Seq(1 .. MaxSeq)
        /\ \A i \in 1 .. Len(batch) : batch[i] <= l
        /\ inFlight.kind \in Snapshots /\ inFlight.served => l <= inFlight.upTo
  BY <1>1, Flushed
<1>4. PICK r \in BOOLEAN, q \in [kind : {"none", "replay"} \cup Snapshots, from : 0 .. MaxSeq,
                                upTo : 0 .. MaxSeq, served : BOOLEAN] :
        /\ pendingReplay' = r /\ inFlight' = q
        /\ \/ q = inFlight /\ r
           \/ q = None /\ r
           \/ q = [kind |-> "replay", from |-> l, upTo |-> 0, served |-> FALSE]
  BY <1>n, <1>1, <1>3, ReplayBegins
<1>5. <<>> \in Seq(1 .. MaxSeq) /\ Len(<<>>) = 0
  OBVIOUS
<1>o. PICK o \in 0 .. committed : owed' = o
  <2>1. owed' = IF Busy /\ inFlight.served THEN owed ELSE Smaller(committed, l + ReplayLimit)
    BY <1>1, <1>3 DEF Owed
  <2>2. owed \in 0 .. committed /\ Smaller(committed, l + ReplayLimit) \in 0 .. committed
    BY <1>n, <1>3 DEF Bounds, Smaller
  <2> QED
    BY <2>1, <2>2
<1>6. ClientTypes'
  BY <1>n, <1>1, <1>2, <1>3, <1>4, <1>5, <1>o DEF ClientTypes
<1>7. BatchInv'
  BY <1>1, <1>2, <1>5 DEF BatchInv
<1>8. AnswerInv'
  <2>1. inFlight.kind = "replay" => inFlight.from <= l
    BY <1>n, <1>3 DEF AnswerInv, Bounds
  <2>2. CASE q = inFlight
    BY <1>n, <1>1, <1>2, <1>3, <1>4, <1>5, <2>1, <2>2 DEF AnswerInv
  <2>3. CASE q = None
    BY <1>n, <1>1, <1>2, <1>4, <2>3 DEF AnswerInv, None, Snapshots
  <2>4. CASE q = [kind |-> "replay", from |-> l, upTo |-> 0, served |-> FALSE]
    BY <1>n, <1>1, <1>2, <1>3, <1>4, <2>4 DEF AnswerInv, Snapshots
  <2> QED
    BY <1>4, <2>2, <2>3, <2>4
<1>9. GapInv'
  BY <1>n, <1>1, <1>4 DEF GapInv, Remembered, Busy, None
<1>10. highest \in Nat /\ highest <= committed
  BY <1>n DEF Bounds
<1> QED
  BY <1>1, <1>2, <1>3, <1>6, <1>7, <1>8, <1>9, <1>10 DEF DeliveryInv, ClientInv, StoreIsPrefix

(* The server's welcome, when no bootstrap is under way.                       *)
LEMMA WelcomeKeeps == DeliveryInv /\ Welcome => DeliveryInv'
<1> SUFFICES ASSUME DeliveryInv, Welcome PROVE DeliveryInv'
  OBVIOUS
<1>n. Bounds /\ BatchInv /\ AnswerInv /\ GapInv /\ ClientTypes
  BY Numbers DEF DeliveryInv, ClientInv
<1>1. /\ UNCHANGED server
      /\ UNCHANGED <<stream, taken, received, owed, store, latest, highest, bootstrapped, batch,
                     tracker, timer, drops, failures>>
      /\ IF Busy THEN pendingReplay' = TRUE /\ inFlight' = inFlight
         ELSE inFlight' = [None EXCEPT !.kind = "bootstrap"] /\ pendingReplay' = pendingReplay
  BY DEF Welcome, subscription, retry, counts
<1>2. StreamInv' /\ UNCHANGED <<committed, from, out, step>>
  BY <1>1, ServerStands DEF DeliveryInv
<1>3. CASE Busy
  <2>1. pendingReplay' = TRUE /\ inFlight' = inFlight
    BY <1>1, <1>3
  <2>2. ClientTypes'
    BY <1>n, <1>1, <1>2, <2>1 DEF ClientTypes
  <2>3. BatchInv' /\ AnswerInv' /\ GapInv' /\ StoreIsPrefix'
    BY <1>n, <1>1, <1>2, <2>1
    DEF BatchInv, AnswerInv, GapInv, Remembered, Busy, StoreIsPrefix, DeliveryInv, ClientInv
  <2> QED
    BY <1>1, <1>2, <2>2, <2>3 DEF DeliveryInv, ClientInv
<1>4. CASE ~Busy
  <2>1. inFlight' = [kind |-> "bootstrap", from |-> 0, upTo |-> 0, served |-> FALSE]
        /\ pendingReplay' = pendingReplay
    BY <1>1, <1>4 DEF None
  <2>2. ClientTypes'
    BY <1>n, <1>1, <1>2, <2>1 DEF ClientTypes, Snapshots, Bounds
  <2>3. BatchInv' /\ AnswerInv' /\ StoreIsPrefix'
    BY <1>n, <1>1, <1>2, <2>1
    DEF BatchInv, AnswerInv, StoreIsPrefix, DeliveryInv, ClientInv
  <2>4. GapInv'
    BY <1>n, <1>1, <1>4, <2>1 DEF GapInv, Remembered, Busy
  <2> QED
    BY <1>1, <1>2, <2>2, <2>3, <2>4 DEF DeliveryInv, ClientInv
<1> QED
  BY <1>3, <1>4

(* A snapshot fails, and what it was to make up for is remembered.             *)
LEMMA SnapshotFailsKeeps == DeliveryInv /\ SnapshotFails => DeliveryInv'
<1> SUFFICES ASSUME DeliveryInv, SnapshotFails PROVE DeliveryInv'
  OBVIOUS
<1>n. Bounds /\ BatchInv /\ AnswerInv /\ GapInv /\ ClientTypes
  BY Numbers DEF DeliveryInv, ClientInv
<1>1. /\ UNCHANGED server
      /\ UNCHANGED <<stream, taken, received, owed, store, latest, highest, bootstrapped,
                     pendingReplay, batch, tracker, timer, drops>>
      /\ inFlight.kind \in Snapshots /\ failures < MaxFailures /\ failures' = failures + 1
      /\ inFlight' = [kind |-> "none", from |-> 0, upTo |-> 0, served |-> FALSE]
  BY DEF SnapshotFails, subscription, retry, None
<1>2. StreamInv' /\ UNCHANGED <<committed, from, out, step>>
  BY <1>1, ServerStands DEF DeliveryInv
<1>3. failures + 1 \in 0 .. MaxFailures
  BY <1>n, <1>1 DEF Bounds, ClientTypes
<1>4. ClientTypes'
  BY <1>n, <1>1, <1>2, <1>3 DEF ClientTypes, Bounds
<1>5. BatchInv' /\ AnswerInv' /\ StoreIsPrefix'
  BY <1>n, <1>1, <1>2 DEF BatchInv, AnswerInv, StoreIsPrefix, DeliveryInv, ClientInv, Snapshots
<1>6. GapInv'
  BY <1>n, <1>1 DEF GapInv, Remembered, Busy, Snapshots
<1> QED
  BY <1>1, <1>2, <1>4, <1>5, <1>6 DEF DeliveryInv, ClientInv

(* A replay fails: the client is to bootstrap again.                           *)
LEMMA ReplayFailsKeeps == DeliveryInv /\ ReplayFails => DeliveryInv'
<1> SUFFICES ASSUME DeliveryInv, ReplayFails PROVE DeliveryInv'
  OBVIOUS
<1>n. Bounds /\ BatchInv /\ AnswerInv /\ GapInv /\ ClientTypes
  BY Numbers DEF DeliveryInv, ClientInv
<1>1. /\ UNCHANGED server
      /\ UNCHANGED <<stream, taken, received, owed, store, latest, highest, pendingReplay, batch,
                     timer, drops>>
      /\ failures < MaxFailures /\ failures' = failures + 1 /\ bootstrapped' = FALSE
      /\ inFlight' = [kind |-> "fallback", from |-> 0, upTo |-> 0, served |-> FALSE]
      /\ tracker' = [attempts |-> 0, latest |-> 0, highest |-> 0]
  BY DEF ReplayFails, subscription, None, NoTracker
<1>2. StreamInv' /\ UNCHANGED <<committed, from, out, step>>
  BY <1>1, ServerStands DEF DeliveryInv
<1>3. failures + 1 \in 0 .. MaxFailures
  BY <1>n, <1>1 DEF Bounds, ClientTypes
<1>4. ClientTypes'
  <2>1. inFlight' \in [kind : {"none", "replay"} \cup Snapshots, from : 0 .. MaxSeq,
                       upTo : 0 .. MaxSeq, served : BOOLEAN]
    BY <1>n, <1>1 DEF Bounds, Snapshots
  <2>2. tracker' \in [attempts : 0 .. MaxRetries, latest : 0 .. MaxSeq, highest : 0 .. MaxSeq]
    BY <1>n, <1>1 DEF Bounds
  <2> QED
    BY <1>n, <1>1, <1>2, <1>3, <2>1, <2>2 DEF ClientTypes
<1>5. BatchInv' /\ AnswerInv' /\ StoreIsPrefix'
  BY <1>n, <1>1, <1>2
  DEF BatchInv, AnswerInv, StoreIsPrefix, DeliveryInv, ClientInv, Snapshots, Bounds
<1>6. GapInv'
  BY <1>n, <1>1 DEF GapInv, Remembered, Busy
<1> QED
  BY <1>1, <1>2, <1>4, <1>5, <1>6 DEF DeliveryInv, ClientInv

(* The delayed retry asks for a replay.                                        *)
LEMMA RetryTimerKeeps == DeliveryInv /\ RetryTimer => DeliveryInv'
<1> SUFFICES ASSUME DeliveryInv, RetryTimer PROVE DeliveryInv'
  OBVIOUS
<1>n. Bounds /\ BatchInv /\ AnswerInv /\ GapInv /\ ClientTypes
  BY Numbers DEF DeliveryInv, ClientInv
<1>1. /\ UNCHANGED server
      /\ UNCHANGED <<stream, taken, received, owed, store, latest, highest, bootstrapped, batch,
                     tracker, drops, failures>>
      /\ timer' = FALSE /\ BeginReplay(bootstrapped, Busy)
  BY DEF RetryTimer, subscription, counts
<1>2. StreamInv' /\ UNCHANGED <<committed, from, out, step>>
  BY <1>1, ServerStands DEF DeliveryInv
<1>3. PICK r \in BOOLEAN, q \in [kind : {"none", "replay"} \cup Snapshots, from : 0 .. MaxSeq,
                                upTo : 0 .. MaxSeq, served : BOOLEAN] :
        /\ pendingReplay' = r /\ inFlight' = q
        /\ \/ q = inFlight /\ Busy /\ r
           \/ q = None /\ ~Busy /\ r
           \/ /\ q = [kind |-> "replay", from |-> latest, upTo |-> 0, served |-> FALSE]
              /\ bootstrapped /\ ~Busy
  <2>1. latest \in 0 .. MaxSeq /\ latest' = latest
    BY <1>n, <1>1 DEF Bounds
  <2> QED
    BY <1>n, <1>1, <2>1, ReplayBegins
<1>4. ClientTypes'
  BY <1>n, <1>1, <1>2, <1>3 DEF ClientTypes
<1>5. BatchInv' /\ StoreIsPrefix'
  BY <1>n, <1>1, <1>2 DEF BatchInv, StoreIsPrefix, DeliveryInv, ClientInv
<1>6. AnswerInv'
  BY <1>n, <1>1, <1>2, <1>3 DEF AnswerInv, None, Snapshots, Bounds
<1>7. GapInv'
  BY <1>n, <1>1, <1>3 DEF GapInv, Remembered, Busy, None
<1> QED
  BY <1>1, <1>2, <1>4, <1>5, <1>6, <1>7 DEF DeliveryInv, ClientInv

(* A snapshot arrives: the store is what it says, and if the client has seen   *)
(* more, a replay starts.                                                      *)
LEMMA SnapshotArrivesKeeps == DeliveryInv /\ SnapshotArrives => DeliveryInv'
<1> SUFFICES ASSUME DeliveryInv, SnapshotArrives PROVE DeliveryInv'
  OBVIOUS
<1>n. Bounds /\ BatchInv /\ AnswerInv /\ GapInv /\ ClientTypes
  BY Numbers DEF DeliveryInv, ClientInv
<1> DEFINE u == inFlight.upTo
<1>1. /\ UNCHANGED server
      /\ UNCHANGED <<stream, taken, received, owed, batch, tracker, timer, drops, failures>>
      /\ inFlight.kind \in Snapshots /\ inFlight.served
      /\ store' = Span(0, u) /\ latest' = Larger(latest, u) /\ highest' = Larger(highest, latest')
      /\ bootstrapped' = TRUE
      /\ IF pendingReplay \/ highest' > latest' THEN BeginReplay(TRUE, FALSE)
         ELSE inFlight' = None /\ pendingReplay' = FALSE
  BY DEF SnapshotArrives, subscription, retry, counts
<1>2. StreamInv' /\ UNCHANGED <<committed, from, out, step>>
  BY <1>1, ServerStands DEF DeliveryInv
<1>3. latest <= u /\ u <= committed /\ \A i \in 1 .. Len(batch) : batch[i] <= u
  BY <1>n, <1>1 DEF AnswerInv
<1>4. u \in 0 .. MaxSeq /\ u \in Nat /\ MaxSeq \in Nat /\ latest \in Nat
  BY <1>n DEF Bounds
<1> HIDE DEF u
<1>5. PICK l \in 0 .. MaxSeq : l = u /\ latest' = l
  BY <1>1, <1>3, <1>4 DEF Larger
<1>6. PICK h \in 0 .. MaxSeq : highest' = h /\ h <= committed /\ l <= h
  <2>1. highest' = Larger(highest, l)
    BY <1>1, <1>5
  <2>2. Larger(highest, l) \in 0 .. MaxSeq /\ Larger(highest, l) <= committed
        /\ l <= Larger(highest, l)
    BY <1>n, <1>3, <1>5 DEF Larger, Bounds
  <2> QED
    BY <2>1, <2>2
<1>7. PICK r \in BOOLEAN, q \in [kind : {"none", "replay"} \cup Snapshots, from : 0 .. MaxSeq,
                                upTo : 0 .. MaxSeq, served : BOOLEAN] :
        /\ pendingReplay' = r /\ inFlight' = q
        /\ \/ q = None /\ ~(h > l)
           \/ q = [kind |-> "replay", from |-> l, upTo |-> 0, served |-> FALSE]
  <2>1. CASE pendingReplay \/ h > l
    <3>1. BeginReplay(TRUE, FALSE)
      BY <1>1, <1>5, <1>6, <2>1
    <3>2. PICK r \in BOOLEAN, q \in [kind : {"none", "replay"} \cup Snapshots, from : 0 .. MaxSeq,
                                    upTo : 0 .. MaxSeq, served : BOOLEAN] :
            /\ pendingReplay' = r /\ inFlight' = q
            /\ \/ q = inFlight /\ FALSE /\ r
               \/ q = None /\ ~TRUE /\ ~FALSE /\ r
               \/ /\ q = [kind |-> "replay", from |-> l, upTo |-> 0, served |-> FALSE]
                  /\ TRUE /\ ~FALSE
      BY <1>n, <1>5, <3>1, ReplayBegins
    <3> QED
      BY <3>2
  <2>2. CASE ~(pendingReplay \/ h > l)
    <3>1. inFlight' = None /\ pendingReplay' = FALSE
      BY <1>1, <1>5, <1>6, <2>2
    <3>2. None \in [kind : {"none", "replay"} \cup Snapshots, from : 0 .. MaxSeq,
                    upTo : 0 .. MaxSeq, served : BOOLEAN]
      BY <1>4 DEF None
    <3> QED
      BY <2>2, <3>1, <3>2
  <2> QED
    BY <2>1, <2>2
<1>8. store' = Span(0, l) /\ store' \in Seq(1 .. MaxSeq)
  <2>1. 0 \in Nat /\ 0 <= l /\ l <= MaxSeq /\ l \in Nat
    BY <1>4, <1>5
  <2>2. Span(0, l) \in Seq(1 .. MaxSeq)
    BY <1>4, <2>1, SpanIn
  <2> QED
    BY <1>1, <1>5, <2>2
<1>9. ClientTypes'
  BY <1>n, <1>1, <1>2, <1>5, <1>6, <1>7, <1>8 DEF ClientTypes
<1>10. BatchInv'
  <2>1. ASSUME NEW i \in 1 .. Len(batch) PROVE batch[i] <= l + 1 /\ batch[i] <= l
    <3>1. batch[i] \in Nat
      BY <1>n, <1>4, SequencesAreNumbers, ElementOfSeq DEF ClientTypes
    <3> QED
      BY <1>3, <1>4, <1>5, <3>1
  <2>2. 1 .. Len(batch) - 1 \subseteq 1 .. Len(batch)
    BY <1>n, LenProperties DEF ClientTypes
  <2> QED
    BY <1>n, <1>1, <1>2, <1>5, <2>1, <2>2 DEF BatchInv
<1>11. AnswerInv'
  BY <1>n, <1>1, <1>2, <1>5, <1>7 DEF AnswerInv, None, Snapshots
<1>12. GapInv'
  BY <1>n, <1>1, <1>5, <1>6, <1>7 DEF GapInv, Remembered, Busy, None
<1>13. l <= committed
  BY <1>3, <1>5
<1> QED
  BY <1>2, <1>5, <1>6, <1>8, <1>9, <1>10, <1>11, <1>12, <1>13
  DEF DeliveryInv, ClientInv, StoreIsPrefix

(* A replay arrives: what it adds is applied; while the store is behind, another *)
(* starts or a retry is scheduled, until the last one changed nothing.         *)
LEMMA ReplayArrivesKeeps == DeliveryInv /\ ReplayArrives => DeliveryInv'
<1> SUFFICES ASSUME DeliveryInv, ReplayArrives PROVE DeliveryInv'
  OBVIOUS
<1>n. Bounds /\ BatchInv /\ AnswerInv /\ GapInv /\ ClientTypes /\ StoreIsPrefix
  BY Numbers DEF DeliveryInv, ClientInv
<1> DEFINE u == inFlight.upTo
           a == inFlight.from
           ahead == pendingReplay \/ highest' > latest'
           same == tracker.latest = latest' /\ tracker.highest = highest'
           attempts == IF same THEN tracker.attempts + 1 ELSE 1
<1>1. /\ UNCHANGED server
      /\ UNCHANGED <<stream, taken, received, owed, batch, bootstrapped, drops, failures>>
      /\ inFlight.kind = "replay" /\ inFlight.served
      /\ ApplyBatch(Span(a, u)) /\ highest' = Larger(highest, latest')
      /\ Retry(latest' > a, ahead) /\ pendingReplay' = FALSE
  BY DEF ReplayArrives, subscription, counts
<1>2. StreamInv' /\ UNCHANGED <<committed, from, out, step>>
  BY <1>1, ServerStands DEF DeliveryInv
<1>3. /\ a <= latest /\ a <= u /\ u <= committed
      /\ Smaller(tracker.highest, a + ReplayLimit) <= u /\ tracker.highest <= committed
  BY <1>n, <1>1 DEF AnswerInv
<1>4. /\ u \in Nat /\ a \in Nat /\ MaxSeq \in Nat /\ latest \in Nat /\ committed \in Nat
      /\ committed <= MaxSeq /\ latest <= committed /\ ReplayLimit \in Nat \ {0}
      /\ MaxRetries \in Nat \ {0} /\ tracker.highest \in Nat
  BY <1>n DEF Bounds
<1>5. PICK l \in 0 .. MaxSeq :
        /\ latest' = l /\ latest <= l /\ l <= committed /\ u <= l /\ (l = latest \/ l = u)
        /\ store' = Span(0, l)
  <2> HIDE DEF u, a
  <2>1. latest' = Larger(latest, u) /\ store' = Span(0, latest')
    BY <1>n, <1>1, <1>3, <1>4, SpanApplied
  <2>2. /\ Larger(latest, u) \in 0 .. MaxSeq /\ latest <= Larger(latest, u)
        /\ Larger(latest, u) <= committed /\ u <= Larger(latest, u)
        /\ Larger(latest, u) = latest \/ Larger(latest, u) = u
    BY <1>3, <1>4 DEF Larger
  <2> QED
    BY <2>1, <2>2
<1>6. PICK h \in 0 .. MaxSeq : highest' = h /\ h <= committed /\ l <= h
  <2>1. highest' = Larger(highest, l)
    BY <1>1, <1>5
  <2>2. Larger(highest, l) \in 0 .. MaxSeq /\ Larger(highest, l) <= committed
        /\ l <= Larger(highest, l)
    BY <1>n, <1>4, <1>5 DEF Larger, Bounds
  <2> QED
    BY <2>1, <2>2
<1> DEFINE Q == [kind : {"none", "replay"} \cup Snapshots, from : 0 .. MaxSeq,
                 upTo : 0 .. MaxSeq, served : BOOLEAN]
           T == [attempts : 0 .. MaxRetries, latest : 0 .. MaxSeq, highest : 0 .. MaxSeq]
<1>7. PICK q \in Q, t \in T, m \in BOOLEAN :
        /\ inFlight' = q /\ tracker' = t /\ timer' = m /\ t.highest <= committed
        /\ \/ q = None /\ (m \/ ~(h > l))
           \/ q = [kind |-> "replay", from |-> l, upTo |-> 0, served |-> FALSE]
  <2>n. /\ None \in Q /\ NoTracker \in T /\ timer \in BOOLEAN /\ NoTracker.highest <= committed
        /\ tracker \in T
    BY <1>n, <1>4 DEF None, NoTracker, ClientTypes
  <2>1. CASE ~ahead
    <3>1. inFlight' = None /\ tracker' = NoTracker /\ timer' = timer
      BY <1>1, <2>1 DEF Retry
    <3>2. ~(h > l)
      BY <1>5, <1>6, <2>1
    <3> HIDE DEF Q, T
    <3> QED
      BY <2>n, <3>1, <3>2
  <2>2. CASE ahead /\ latest' > a
    <3>1. BeginReplay(TRUE, FALSE) /\ tracker' = NoTracker /\ timer' = timer
      BY <1>1, <2>2 DEF Retry
    <3>2. PICK r \in BOOLEAN, q \in Q :
            /\ pendingReplay' = r /\ inFlight' = q
            /\ \/ q = inFlight /\ FALSE /\ r
               \/ q = None /\ ~TRUE /\ ~FALSE /\ r
               \/ /\ q = [kind |-> "replay", from |-> l, upTo |-> 0, served |-> FALSE]
                  /\ TRUE /\ ~FALSE
      BY <1>n, <1>5, <3>1, ReplayBegins
    <3> HIDE DEF Q, T
    <3> QED
      BY <2>n, <3>1, <3>2
  <2>3. CASE ahead /\ ~(latest' > a) /\ attempts > MaxRetries
    <3>1. inFlight' = None /\ tracker' = NoTracker /\ timer' = timer
      BY <1>1, <2>3 DEF Retry
    <3>2. same
      BY <1>4, <2>3
    <3>3. h = tracker.highest /\ l <= a
      BY <1>4, <1>5, <1>6, <2>3, <3>2
    <3>4. l = a /\ u = a
      BY <1>3, <1>4, <1>5, <3>3
    <3>5. h <= l
      BY <1>3, <1>4, <3>3, <3>4 DEF Smaller
    <3>6. ~(h > l)
      BY <3>5
    <3> HIDE DEF Q, T
    <3> QED
      BY <2>n, <3>1, <3>6
  <2>4. CASE ahead /\ ~(latest' > a) /\ ~(attempts > MaxRetries)
    <3>1. inFlight' = None /\ timer' = TRUE
          /\ tracker' = [attempts |-> attempts, latest |-> latest', highest |-> highest']
      BY <1>1, <2>4 DEF Retry
    <3>2. PICK t : t = [attempts |-> attempts, latest |-> l, highest |-> h]
      OBVIOUS
    <3>3. attempts \in 0 .. MaxRetries
      BY <1>n, <1>4, <2>4 DEF Bounds
    <3>4. t \in T /\ t.highest = h /\ tracker' = t
      BY <1>5, <1>6, <3>1, <3>2, <3>3
    <3> HIDE DEF Q, T
    <3> QED
      BY <1>6, <2>n, <3>1, <3>4
  <2> QED
    BY <2>1, <2>2, <2>3, <2>4
<1> HIDE DEF u, a, ahead, same, attempts
<1>8. store' \in Seq(1 .. MaxSeq)
  <2>1. 0 \in Nat /\ 0 <= l /\ l <= MaxSeq /\ l \in Nat
    BY <1>4, <1>5
  <2>2. Span(0, l) \in Seq(1 .. MaxSeq)
    BY <1>4, <2>1, SpanIn
  <2> QED
    BY <1>5, <2>2
<1>9. ClientTypes'
  BY <1>n, <1>1, <1>2, <1>5, <1>6, <1>7, <1>8 DEF ClientTypes
<1>10. BatchInv'
  <2>1. ASSUME NEW i \in 1 .. Len(batch)
        PROVE  batch[i] <= l + 1 /\ (batch[i] <= latest => batch[i] <= l)
    <3>1. batch[i] \in Nat /\ batch[i] <= latest + 1
      BY <1>n, <1>4, SequencesAreNumbers, ElementOfSeq DEF ClientTypes, BatchInv
    <3> QED
      BY <1>4, <1>5, <3>1
  <2>2. 1 .. Len(batch) - 1 \subseteq 1 .. Len(batch)
    BY <1>n, LenProperties DEF ClientTypes
  <2> QED
    BY <1>n, <1>1, <1>2, <1>5, <2>1, <2>2 DEF BatchInv
<1>11. AnswerInv'
  BY <1>n, <1>1, <1>2, <1>5, <1>7 DEF AnswerInv, None, Snapshots
<1>12. GapInv'
  BY <1>n, <1>1, <1>5, <1>6, <1>7 DEF GapInv, Remembered, Busy, None
<1> QED
  BY <1>2, <1>5, <1>6, <1>8, <1>9, <1>10, <1>11, <1>12
  DEF DeliveryInv, ClientInv, StoreIsPrefix

(* An event of the subscription is one of the log, after all the client was    *)
(* sent on it before.                                                          *)
LEMMA Delivered ==
    ASSUME DeliveryInv, stream = "up", taken < Len(out)
    PROVE  /\ out[taken + 1] = from + taken + 1 /\ out[taken + 1] <= committed
           /\ out[taken + 1] \in 1 .. MaxSeq /\ taken + 1 <= Len(out) /\ taken + 1 \in 0 .. MaxSeq
<1>n. Bounds /\ out = Span(from, next - 1)
  BY Numbers DEF DeliveryInv, StreamInv, SentInOrder
<1>m. /\ from \in Nat /\ next \in Nat /\ taken \in Nat /\ committed \in Nat /\ MaxSeq \in Nat
      /\ from < next /\ next <= committed + 1 /\ committed <= MaxSeq
  BY <1>n DEF Bounds
<1>1. next - 1 \in Nat /\ from <= next - 1 /\ next - 1 <= MaxSeq
  BY <1>m
<1>2. /\ Len(out) = (next - 1) - from
      /\ \A i \in 1 .. (next - 1) - from : out[i] = from + i
  BY <1>m, <1>n, <1>1, SpanIn
<1>3. taken + 1 \in 1 .. (next - 1) - from
  BY <1>m, <1>2
<1>4. out[taken + 1] = from + (taken + 1)
  BY <1>2, <1>3
<1> QED
  BY <1>m, <1>2, <1>3, <1>4

(* An event arrives: the store has it, it has to wait, it is the next, or it   *)
(* shows a gap.                                                                *)
LEMMA DeliverKeeps == DeliveryInv /\ Deliver => DeliveryInv'
<1> SUFFICES ASSUME DeliveryInv, Deliver PROVE DeliveryInv'
  OBVIOUS
<1>n. Bounds /\ BatchInv /\ AnswerInv /\ GapInv /\ ClientTypes /\ StoreIsPrefix
  BY Numbers DEF DeliveryInv, ClientInv
<1> DEFINE s == out[taken + 1]
<1>1. /\ UNCHANGED server /\ UNCHANGED <<stream, owed, drops, failures, bootstrapped, tracker, timer>>
      /\ stream = "up" /\ taken < Len(out) /\ taken' = taken + 1 /\ received' = TRUE
  BY DEF Deliver, counts, retry, Defer
<1>2. StreamInv' /\ UNCHANGED <<committed, from, out, step>>
  BY <1>1, ServerStands DEF DeliveryInv
<1>3. /\ s = from + taken + 1 /\ s <= committed /\ s \in 1 .. MaxSeq
      /\ taken + 1 <= Len(out) /\ taken + 1 \in 0 .. MaxSeq
  BY <1>1, Delivered
<1>4. /\ from \in Nat /\ taken \in Nat /\ committed \in Nat /\ MaxSeq \in Nat /\ latest \in Nat
      /\ highest \in Nat /\ latest <= committed /\ highest <= committed /\ committed <= MaxSeq
  BY <1>n DEF Bounds
<1>5. /\ Len(batch) \in Nat /\ DOMAIN batch = 1 .. Len(batch)
      /\ \A i \in 1 .. Len(batch) : /\ batch[i] \in Nat /\ batch[i] <= from + taken
                                    /\ batch[i] <= latest + 1 /\ batch[i] <= committed
                                    /\ batch[i] < s
  <2>1. Len(batch) \in Nat /\ DOMAIN batch = 1 .. Len(batch)
        /\ \A i \in 1 .. Len(batch) : batch[i] \in Nat
    BY <1>n, <1>4, SequencesAreNumbers, ElementOfSeq DEF ClientTypes
  <2> HIDE DEF s
  <2>2. \A i \in 1 .. Len(batch) : batch[i] <= from + taken /\ batch[i] <= latest + 1
                                   /\ batch[i] <= committed
    BY <1>n, <1>1 DEF BatchInv
  <2> QED
    BY <1>3, <1>4, <2>1, <2>2
<1>6. \A i \in 1 .. Len(batch) : batch[i] <= from + (taken + 1)
  BY <1>4, <1>5
<1>7. <<>> \in Seq(1 .. MaxSeq) /\ Len(<<>>) = 0
  OBVIOUS
<1>8. ASSUME highest' = Larger(highest, s)
      PROVE  \E h \in 0 .. MaxSeq : /\ highest' = h /\ h <= committed /\ highest <= h /\ s <= h
                                    /\ h = highest \/ h = s
  <2> HIDE DEF s
  <2>1. /\ Larger(highest, s) \in 0 .. MaxSeq /\ Larger(highest, s) <= committed
        /\ highest <= Larger(highest, s) /\ s <= Larger(highest, s)
        /\ Larger(highest, s) = highest \/ Larger(highest, s) = s
    BY <1>3, <1>4 DEF Larger
  <2> QED
    BY <1>8, <2>1
<1> HIDE DEF s
<1>9. CASE s <= latest
  <2>1. /\ highest' = Larger(highest, s)
        /\ UNCHANGED <<store, latest, pendingReplay, inFlight, batch>>
    BY <1>9 DEF Deliver, s
  <2>2. PICK h \in 0 .. MaxSeq : /\ highest' = h /\ h <= committed /\ highest <= h /\ s <= h
                                 /\ h = highest \/ h = s
    BY <1>8, <2>1
  <2>3. ClientTypes'
    BY <1>n, <1>1, <1>2, <1>3, <2>1, <2>2 DEF ClientTypes
  <2>4. BatchInv'
    BY <1>n, <1>1, <1>2, <1>3, <1>6, <2>1 DEF BatchInv
  <2>5. AnswerInv' /\ StoreIsPrefix'
    BY <1>n, <1>1, <1>2, <2>1 DEF AnswerInv, StoreIsPrefix
  <2>6. GapInv'
    <3>1. h > latest => h = highest
      BY <1>3, <1>4, <1>9, <2>2
    <3> QED
      BY <1>n, <1>1, <2>1, <2>2, <3>1 DEF GapInv, Remembered, Busy
  <2> QED
    BY <1>2, <1>4, <2>1, <2>2, <2>3, <2>4, <2>5, <2>6 DEF DeliveryInv, ClientInv
<1>10. CASE ~(s <= latest) /\ (~bootstrapped \/ Busy)
  <2>1. /\ highest' = Larger(highest, s) /\ pendingReplay' = TRUE
        /\ UNCHANGED <<store, latest, inFlight, batch>>
    BY <1>10 DEF Deliver, Defer, s
  <2>2. PICK h \in 0 .. MaxSeq : /\ highest' = h /\ h <= committed /\ highest <= h /\ s <= h
                                 /\ h = highest \/ h = s
    BY <1>8, <2>1
  <2>3. ClientTypes'
    BY <1>n, <1>1, <1>2, <1>3, <2>1, <2>2 DEF ClientTypes
  <2>4. BatchInv'
    BY <1>n, <1>1, <1>2, <1>3, <1>6, <2>1 DEF BatchInv
  <2>5. AnswerInv' /\ StoreIsPrefix'
    BY <1>n, <1>1, <1>2, <2>1 DEF AnswerInv, StoreIsPrefix
  <2>6. GapInv'
    BY <1>n, <1>1, <2>1, <2>2 DEF GapInv, Remembered, Busy
  <2> QED
    BY <1>2, <1>4, <2>1, <2>2, <2>3, <2>4, <2>5, <2>6 DEF DeliveryInv, ClientInv
<1>11. CASE ~(s <= latest) /\ ~(~bootstrapped \/ Busy) /\ s = latest + 1
  <2>1. /\ highest' = Larger(highest, s) /\ batch' = Append(batch, s)
        /\ UNCHANGED <<store, latest, pendingReplay, inFlight>>
    BY <1>11 DEF Deliver, s
  <2>2. PICK h \in 0 .. MaxSeq : /\ highest' = h /\ h <= committed /\ highest <= h /\ s <= h
                                 /\ h = highest \/ h = s
    BY <1>8, <2>1
  <2>3. /\ batch' \in Seq(1 .. MaxSeq) /\ Len(batch') = Len(batch) + 1
        /\ batch'[Len(batch) + 1] = s
        /\ \A i \in 1 .. Len(batch) : batch'[i] = batch[i]
    BY <1>n, <1>3, <2>1, AppendProperties DEF ClientTypes
  <2>4. ClientTypes'
    BY <1>n, <1>1, <1>2, <1>3, <2>1, <2>2, <2>3 DEF ClientTypes
  <2>5. BatchInv'
    <3>1. ASSUME NEW i \in 1 .. Len(batch')
          PROVE  /\ batch'[i] <= latest + 1 /\ batch'[i] <= committed
                 /\ batch'[i] <= from + (taken + 1)
                 /\ i # Len(batch) + 1 => batch'[i] <= latest
      <4>1. CASE i = Len(batch) + 1
        BY <1>3, <1>4, <1>11, <2>3, <4>1
      <4>2. CASE i # Len(batch) + 1
        <5>1. i \in 1 .. Len(batch)
          BY <1>5, <2>3, <4>2
        <5>2. batch[i] \in Nat /\ batch[i] < latest + 1 /\ batch[i] <= committed
              /\ batch[i] <= from + (taken + 1)
          BY <1>5, <1>6, <1>11, <5>1
        <5> QED
          BY <1>4, <2>3, <5>1, <5>2
      <4> QED
        BY <4>1, <4>2
    <3>2. \A i \in 1 .. Len(batch') - 1 : i \in 1 .. Len(batch') /\ i # Len(batch) + 1
      BY <1>5, <2>3
    <3> QED
      BY <1>n, <1>1, <1>2, <1>3, <2>1, <3>1, <3>2 DEF BatchInv
  <2>6. AnswerInv' /\ StoreIsPrefix'
    BY <1>n, <1>1, <1>2, <1>11, <2>1 DEF AnswerInv, StoreIsPrefix, Busy, Snapshots
  <2>7. GapInv'
    <3>0. DOMAIN batch' = 1 .. Len(batch') /\ Len(batch) + 1 \in 1 .. Len(batch')
          /\ 1 .. Len(batch) \subseteq 1 .. Len(batch')
      BY <1>5, <2>3
    <3>1. CASE h = s
      <4>1. batch'[Len(batch) + 1] >= highest'
        BY <1>3, <2>2, <2>3, <3>1
      <4>2. Remembered'
        BY <3>0, <4>1 DEF Remembered
      <4> QED
        BY <1>n, <1>1, <2>1, <4>2 DEF GapInv
    <3>2. CASE h # s
      <4>1. h = highest /\ highest > latest
        BY <1>3, <1>4, <1>11, <2>2, <3>2
      <4>2. Remembered
        BY <1>n, <1>11, <4>1 DEF GapInv
      <4>3. (\E i \in DOMAIN batch : batch[i] >= highest)
              => \E i \in DOMAIN batch' : batch'[i] >= highest'
        BY <1>5, <2>2, <2>3, <3>0, <4>1
      <4>4. Remembered'
        BY <1>1, <2>1, <4>2, <4>3 DEF Remembered
      <4> QED
        BY <1>n, <1>1, <2>1, <4>4 DEF GapInv
    <3> QED
      BY <3>1, <3>2
  <2> QED
    BY <1>2, <1>4, <2>1, <2>2, <2>4, <2>5, <2>6, <2>7 DEF DeliveryInv, ClientInv
<1>12. CASE ~(s <= latest) /\ ~(~bootstrapped \/ Busy) /\ s # latest + 1
  <2>1. /\ highest' = Larger(highest, s) /\ batch' = <<>> /\ ApplyBatch(batch)
        /\ BeginReplay(bootstrapped, Busy)
    BY <1>12 DEF Deliver, s
  <2>2. PICK h \in 0 .. MaxSeq : /\ highest' = h /\ h <= committed /\ highest <= h /\ s <= h
                                 /\ h = highest \/ h = s
    BY <1>8, <2>1
  <2>3. PICK l \in 0 .. MaxSeq :
          /\ latest' = l /\ latest <= l /\ l <= committed
          /\ store' = Span(0, l) /\ store' \in Seq(1 .. MaxSeq)
          /\ \A i \in 1 .. Len(batch) : batch[i] <= l
          /\ inFlight.kind \in Snapshots /\ inFlight.served => l <= inFlight.upTo
    BY <2>1, Flushed
  <2>4. PICK r \in BOOLEAN, q \in [kind : {"none", "replay"} \cup Snapshots, from : 0 .. MaxSeq,
                                  upTo : 0 .. MaxSeq, served : BOOLEAN] :
          /\ pendingReplay' = r /\ inFlight' = q
          /\ \/ q = inFlight /\ Busy /\ r
             \/ q = None /\ ~bootstrapped /\ ~Busy /\ r
             \/ /\ q = [kind |-> "replay", from |-> l, upTo |-> 0, served |-> FALSE]
                /\ bootstrapped /\ ~Busy
    BY <1>n, <2>1, <2>3, ReplayBegins
  <2>5. q = [kind |-> "replay", from |-> l, upTo |-> 0, served |-> FALSE]
    BY <1>12, <2>4
  <2>6. ClientTypes'
    BY <1>n, <1>1, <1>2, <1>3, <1>7, <2>1, <2>2, <2>3, <2>4 DEF ClientTypes
  <2>7. BatchInv'
    BY <1>n, <1>1, <1>2, <1>3, <1>7, <2>1 DEF BatchInv
  <2>8. AnswerInv' /\ StoreIsPrefix'
    BY <1>n, <1>1, <1>2, <2>3, <2>4, <2>5 DEF AnswerInv, StoreIsPrefix, Snapshots
  <2>9. GapInv'
    BY <1>n, <1>1, <2>4, <2>5 DEF GapInv, Remembered, Busy
  <2> QED
    BY <1>2, <2>2, <2>3, <2>6, <2>7, <2>8, <2>9 DEF DeliveryInv, ClientInv
<1> QED
  BY <1>9, <1>10, <1>11, <1>12

-----------------------------------------------------------------------------
(* Stream and client start within the invariant ...                           *)
LEMMA DeliveryStarts == DeliveryInit => DeliveryInv
<1> SUFFICES ASSUME DeliveryInit PROVE DeliveryInv
  OBVIOUS
<1>1. StreamInv
  BY StreamInit DEF DeliveryInit
<1>2. Span(0, 0) = <<>> /\ <<>> \in Seq(1 .. MaxSeq) /\ Len(<<>>) = 0 /\ DOMAIN <<>> = {}
  BY SpanEmpty
<1>3. MaxSeq \in Nat /\ MaxDrops \in Nat /\ MaxFailures \in Nat /\ MaxRetries \in Nat
      /\ committed = 0 /\ step = "new"
  BY BoundsAssumption, ClientAssumption DEF DeliveryInit, Init
<1>4. ClientTypes
  <2>1. None \in [kind : {"none", "replay"} \cup Snapshots, from : 0 .. MaxSeq,
                  upTo : 0 .. MaxSeq, served : BOOLEAN]
    BY <1>3 DEF None
  <2>2. NoTracker \in [attempts : 0 .. MaxRetries, latest : 0 .. MaxSeq, highest : 0 .. MaxSeq]
    BY <1>3 DEF NoTracker
  <2> QED
    <3>1. stream \in {"down", "hook", "up"} /\ (stream # "up") = (step = "new")
      BY <1>3 DEF DeliveryInit
    <3>2. /\ taken = 0 /\ owed = 0 /\ latest = 0 /\ highest = 0 /\ drops = 0 /\ failures = 0
          /\ {received, bootstrapped, pendingReplay, timer} \subseteq BOOLEAN
      BY Zenon DEF DeliveryInit
    <3>4. /\ taken \in 0 .. MaxSeq /\ latest \in 0 .. MaxSeq /\ highest \in 0 .. MaxSeq
          /\ owed \in 0 .. committed /\ drops \in 0 .. MaxDrops /\ failures \in 0 .. MaxFailures
      BY <1>3, <3>2
    <3>3. store = <<>> /\ batch = <<>> /\ inFlight = None /\ tracker = NoTracker
      BY DEF DeliveryInit
    <3> QED
      BY <1>2, <2>1, <2>2, <3>1, <3>2, <3>3, <3>4 DEF ClientTypes
<1>5. ClientInv
  BY <1>2, <1>3
  DEF DeliveryInit, ClientInv, StoreIsPrefix, BatchInv, AnswerInv, None, NoTracker, Snapshots
<1>6. GapInv
  BY <1>3 DEF DeliveryInit, GapInv, None
<1> QED
  BY <1>1, <1>4, <1>5, <1>6 DEF DeliveryInv

(* ... and no step leaves it.                                                  *)
LEMMA DeliveryStep == DeliveryInv /\ [DeliveryNext]_delivery => DeliveryInv'
<1> SUFFICES ASSUME DeliveryInv, [DeliveryNext]_delivery PROVE DeliveryInv'
  OBVIOUS
<1>1. CASE UNCHANGED delivery
  <2>1. UNCHANGED server
        /\ UNCHANGED <<stream, taken, received, owed, store, latest, highest, bootstrapped,
                       pendingReplay, inFlight, batch, tracker, timer, drops, failures>>
    BY <1>1 DEF delivery, subscription, client, recovery, retry, counts
  <2>2. StreamInv' /\ UNCHANGED <<committed, from, out, step>>
    BY <2>1, ServerStands DEF DeliveryInv
  <2>3. ClientTypes'
    BY <2>1, <2>2 DEF DeliveryInv, ClientTypes
  <2>4. ClientInv'
    BY <2>1, <2>2 DEF DeliveryInv, ClientInv, StoreIsPrefix, BatchInv, AnswerInv
  <2>5. GapInv'
    BY <2>1 DEF DeliveryInv, GapInv, Remembered, Busy
  <2> QED
    BY <2>2, <2>3, <2>4, <2>5 DEF DeliveryInv
<1>2. CASE DeliveryNext
  BY <1>2, ServerStepKeeps, DropKeeps, ServeKeeps, DeliverKeeps, SubscribeKeeps, ResubscribeKeeps,
     FlushKeeps, SnapshotArrivesKeeps, ReplayArrivesKeeps, RetryTimerKeeps, WelcomeKeeps,
     SnapshotFailsKeeps, ReplayFailsKeeps
  DEF DeliveryNext, Connection, Client
<1> QED
  BY <1>1, <1>2

LEMMA DeliveryHolds == Delivery => []DeliveryInv
<1> QED
  BY DeliveryStarts, DeliveryStep, PTL DEF Delivery

(* The variables of stream and client keep their types.                       *)
THEOREM DeliveryTypes == Delivery => []DeliveryTypeOK
<1>1. DeliveryInv => DeliveryTypeOK
  BY DEF DeliveryInv, StreamInv, ClientTypes, DeliveryTypeOK
<1> QED
  BY <1>1, DeliveryHolds, PTL

(* A subscription by itself sends the events after its snapshot in order, each *)
(* once and without a gap, in whatever order replay and live events merge ...  *)
THEOREM StreamSendsInOrder == Spec => []SentInOrder
<1>1. Init => StreamInv
  BY StreamInit
<1>2. StreamInv /\ [Next]_vars => StreamInv'
  BY StreamStep DEF Next
<1>3. StreamInv => SentInOrder
  BY DEF StreamInv
<1> QED
  BY <1>1, <1>2, <1>3, PTL DEF Spec

(* ... and so does every subscription of a client that loses its connection.   *)
THEOREM ClientIsSentInOrder == Delivery => []SentInOrder
<1>1. DeliveryInv => SentInOrder
  BY DEF DeliveryInv, StreamInv
<1> QED
  BY <1>1, DeliveryHolds, PTL

(* The client's store holds every event up to its latest, once and in order,   *)
(* through every race of live events, replays, snapshots, failures and lost    *)
(* connections.                                                                *)
THEOREM StoreFollowsLog == Delivery => []StoreIsPrefix
<1>1. DeliveryInv => StoreIsPrefix
  BY DEF DeliveryInv, ClientInv
<1> QED
  BY <1>1, DeliveryHolds, PTL

(* While the store is behind an event the client has seen, something is left   *)
(* that makes up for it.                                                       *)
THEOREM GapsAreRemembered == Delivery => []GapIsRemembered
<1>1. DeliveryInv => GapIsRemembered
  BY DEF DeliveryInv, GapInv, Remembered, GapIsRemembered
<1> QED
  BY <1>1, DeliveryHolds, PTL
=============================================================================
