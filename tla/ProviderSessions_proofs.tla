------------------------ MODULE ProviderSessions_proofs ------------------------
(***************************************************************************)
(* Theorems about a thread's provider sessions, for any number of contexts, *)
(* turns, requests and restarts and both adapters.                          *)
(***************************************************************************)
EXTENDS ProviderSessions, FiniteSetTheorems, SequenceTheorems,
        WellFoundedInduction, TLAPS

(* The turns so far, asked for or begun by the agent.                          *)
Seen == 1 .. asked.turns \cup begun

(* The events an adapter emits about some turns, and a context's state.        *)
EventSet(turns) ==
    [type : {"connecting", "ready", "exited"}, turn : {NoTurn}]
    \cup [type : {"turn.started"}, turn : turns]
    \cup [type : {"completed", "failed", "error"}, turn : {NoTurn} \cup turns]

ContextSet(n, turns) ==
    [phase : {"unborn", "starting", "open", "closed"}, mode : Mode,
     turns : SUBSET turns, sent : 0 .. n, prompts : Nat]

(* The registry names a context that lives.  Claude's contexts start at once,  *)
(* run one turn at most and are sent nothing they must acknowledge.            *)
ContextInv ==
    /\ provider \in {"codex", "claudeAgent"}
    /\ context \in [Session -> ContextSet(asked.turns, Seen)]
    /\ begun \subseteq Background /\ stranded \subseteq Seen
    /\ registered \in Session \cup {NoSession}
    /\ HasSession => Live(registered)
    /\ \A s \in Session :
         /\ ~Live(s) => context[s].turns = {} /\ context[s].sent = NoTurn
         /\ provider = "claudeAgent" =>
              /\ context[s].phase # "starting" /\ context[s].sent = NoTurn
              /\ context[s].turns = {} \/ \E t \in Seen : context[s].turns = {t}

(* What the callers of ProviderService carry.                                  *)
RequestSet(n) == [kind : {"mode", "call", "stop"}, turn : {NoTurn}]
                 \cup [kind : {"turn"}, turn : 1 .. n]

JobSet(n) ==
    [kind : {"idle", "turn", "mode", "call", "stop", "rollback"}, turn : 0 .. n,
     step : {"idle", "ensure", "start", "handshake", "upsert", "bind", "route",
             "deliver", "switch", "prompt", "answer", "stop", "stopAdapter", "unbind",
             "stopped"},
     mode : Mode \cup {NoMode}, bound : BOOLEAN, changed : BOOLEAN, fresh : BOOLEAN,
     made : Session \cup {NoSession}]

JobInv ==
    /\ job \in [Proc -> JobSet(asked.turns)]
    /\ \A p \in Proc :
         /\ job[p].step \in {"ensure", "start", "handshake", "upsert", "bind"} =>
              job[p].mode \in Mode
         /\ job[p].step \in {"handshake", "switch", "prompt"} => job[p].made \in Session
         /\ job[p].step \in {"switch", "prompt"} => job[p].kind = "turn"
         /\ job[p].kind = "turn" => p = "reactor" /\ job[p].turn # NoTurn

(* The bookkeeping and the read model's session.                              *)
HistoryInv ==
    /\ asked \in [turns : {NoTurn} \cup Turn, others : Nat, restarts : Nat]
    /\ failed \subseteq 1 .. asked.turns /\ lost \subseteq Turn \cup Background
    /\ runtimeMode \in Mode /\ binding \in Mode \cup {NoMode}

SessionSet(turns) ==
    {Absent}
    \cup [status : {"ready", "starting", "error", "stopped"},
          mode : Mode \cup {NoMode}, turn : {NoTurn} \cup turns]
    \cup [status : {"running"}, mode : Mode \cup {NoMode}, turn : turns]

ReadInv ==
    /\ session \in SessionSet(Seen)
    /\ runtimeEvents \in Seq(EventSet(Seen))
    /\ \/ ingest = Reading
       \/ ingest \in [event : EventSet(Seen), session : SessionSet(Seen)]

(* The turns still to be sent come after those that were.                      *)
TurnRequest(i) == requests[i].kind = "turn"

OrderInv ==
    /\ requests \in Seq(RequestSet(asked.turns))
    /\ sent \in Seq(1 .. asked.turns) /\ SentInOrder
    /\ \A i, j \in DOMAIN requests :
         i < j /\ TurnRequest(i) /\ TurnRequest(j) => requests[i].turn < requests[j].turn
    /\ \A j \in DOMAIN requests : TurnRequest(j) =>
         /\ \A i \in DOMAIN sent : sent[i] < requests[j].turn
         /\ job["reactor"].kind = "turn" => job["reactor"].turn < requests[j].turn
    /\ job["reactor"].kind = "turn" /\ job["reactor"].step # "answer" =>
         \A i \in DOMAIN sent : sent[i] < job["reactor"].turn

(* A turn runs, unless it is stranded, or its end comes after the first k      *)
(* events of a queue.                                                          *)
Runs(t) == t \in stranded \/ \E s \in Session : t \in context[s].turns
EndsAfter(q, k, t) == \E i \in 1 .. Len(q) : i > k /\ q[i] \in EndOf(t)
Opens(e) == e.type \in {"turn.started", "error"} /\ e.turn # NoTurn

(* Whatever can still make a turn the active one comes before the turn's end;  *)
(* between the ingestion's read and its dispatch only the reactor clears the   *)
(* active turn.                                                                *)
GhostInv ==
    /\ ingest # Reading => session.turn \in {NoTurn, ingest.session.turn}
    /\ \A t \in {session.turn, ingest.session.turn} : t \notin {NoTurn} \cup lost =>
         Runs(t) \/ EndsAfter(runtimeEvents, 0, t) \/ ingest.event \in EndOf(t)
    /\ Opens(ingest.event) =>
         Runs(ingest.event.turn) \/ EndsAfter(runtimeEvents, 0, ingest.event.turn)
    /\ \A i \in 1 .. Len(runtimeEvents) : Opens(runtimeEvents[i]) =>
         Runs(runtimeEvents[i].turn) \/ EndsAfter(runtimeEvents, i, runtimeEvents[i].turn)

(* A Claude context that runs a turn has a prompt to answer or is about to be  *)
(* told the turn, unless that was reported as failed or the agent began it.    *)
Prompts(s, t) ==
    At("reactor", "prompt") /\ job["reactor"].made = s /\ job["reactor"].turn = t

WorkInv ==
    \A s \in Session : \A t \in context[s].turns :
        \/ t \in failed \cup Background \/ provider = "codex"
        \/ context[s].prompts > 0 \/ Prompts(s, t)

ProviderInv ==
    /\ ContextInv /\ JobInv /\ HistoryInv /\ ReadInv /\ OrderInv
    /\ GhostInv /\ WorkInv

-----------------------------------------------------------------------------
(* The library.                                                               *)

LEMMA NatOrder ==
    \E R : IsWellFoundedOn(R, Nat) /\ \A x, y \in Nat : <<x, y>> \in R <=> x < y
<1>1. \A x, y \in Nat : <<x, y>> \in OpToRel(<, Nat) <=> x < y
  BY DEF OpToRel
<1> QED
  BY <1>1, NatLessThanWellFounded, Zenon

LEMMA TurnsAreNumbers ==
    /\ Cardinality(Turn) \in Nat /\ Turn = 1 .. Cardinality(Turn)
    /\ Cardinality(Session) \in Nat /\ Session = 1 .. Cardinality(Session)
    /\ Session \subseteq Nat \ {0} /\ Turn \subseteq Nat \ {0}
    /\ Background \subseteq Nat \ {0}
BY IdAssumption, FS_CardinalityType DEF NoTurn, NoSession

LEMMA Known ==
    ASSUME HistoryInv
    PROVE  asked.turns \in Nat /\ 1 .. asked.turns \subseteq Turn /\ 0 .. asked.turns \subseteq Nat
BY TurnsAreNumbers DEF HistoryInv, NoTurn

LEMMA SeenTurns ==
    ASSUME HistoryInv, ContextInv
    PROVE  /\ 1 .. asked.turns \subseteq Seen /\ Seen \subseteq Turn \cup Background
           /\ Seen \subseteq Nat /\ NoTurn \notin Seen
BY Known, TurnsAreNumbers DEF Seen, ContextInv, NoTurn

LEMMA SeenStays ==
    ASSUME asked'.turns = asked.turns, begun' = begun
    PROVE  Seen' = Seen /\ Seen \subseteq Seen'
BY DEF Seen

(* The events of no turn and of one turn.                                     *)
LEMMA EventsOf ==
    ASSUME NEW type
    PROVE  /\ Events(type, {}) = <<>>
           /\ \A t : Events(type, {t}) = <<Event(type, t)>>
<1>1. Events(type, {}) = <<>>
  BY FS_EmptySet DEF Events
<1>2. ASSUME NEW t PROVE Events(type, {t}) = <<Event(type, t)>>
  <2>1. Cardinality({t}) = 1
    BY FS_Singleton
  <2> DEFINE f == SetToSeq({t})
  <2>2. f \in [1 .. 1 -> {t}]
    <3>1. [i \in 1 .. 1 |-> t] \in [1 .. 1 -> {t}] /\ IsInjective([i \in 1 .. 1 |-> t])
      BY DEF IsInjective
    <3> QED
      BY <2>1, <3>1 DEF SetToSeq
  <2>3. f[1] = t
    BY <2>2
  <2>4. Events(type, {t}) = [i \in 1 .. 1 |-> Event(type, f[i])]
    BY <2>1 DEF Events
  <2> HIDE DEF f
  <2> QED
    BY <2>3, <2>4
<1> QED
  BY <1>1, <1>2

LEMMA ShortSequences ==
    ASSUME NEW a, NEW b, NEW c
    PROVE  <<>> \o <<b>> = <<b>> /\ <<a>> \o <<b>> = <<a, b>>
           /\ <<a>> \o <<b, c>> = <<a, b, c>>
<1> DEFINE S == {a, b, c}
           sa == <<a>>
           sb == <<b>>
           sbc == <<b, c>>
           ab == <<a, b>>
           abc == <<a, b, c>>
<1>1. /\ sa \in Seq(S) /\ sb \in Seq(S) /\ sbc \in Seq(S) /\ ab \in Seq(S) /\ abc \in Seq(S)
      /\ Len(sa) = 1 /\ Len(sb) = 1 /\ Len(sbc) = 2 /\ Len(ab) = 2 /\ Len(abc) = 3
      /\ sa[1] = a /\ sb[1] = b /\ sbc[1] = b /\ sbc[2] = c
      /\ ab[1] = a /\ ab[2] = b /\ abc[1] = a /\ abc[2] = b /\ abc[3] = c
  OBVIOUS
<1> HIDE DEF S, sa, sb, sbc, ab, abc
<1>2. sa \o sb \in Seq(S) /\ Len(sa \o sb) = 2 /\ (sa \o sb)[1] = a /\ (sa \o sb)[2] = b
  <2>1. /\ sa \o sb \in Seq(S) /\ Len(sa \o sb) = Len(sa) + Len(sb)
        /\ \A i \in 1 .. Len(sa) + Len(sb) :
             (sa \o sb)[i] = IF i <= Len(sa) THEN sa[i] ELSE sb[i - Len(sa)]
    BY <1>1, ConcatProperties
  <2>2. /\ Len(sa \o sb) = 2
        /\ \A i \in 1 .. 2 : (sa \o sb)[i] = IF i <= 1 THEN sa[i] ELSE sb[i - 1]
    BY <1>1, <2>1
  <2> QED
    BY <1>1, <2>1, <2>2
<1>3. sa \o sb = ab
  BY <1>1, <1>2, SeqEqual
<1>4. /\ sa \o sbc \in Seq(S) /\ Len(sa \o sbc) = 3
      /\ (sa \o sbc)[1] = a /\ (sa \o sbc)[2] = b /\ (sa \o sbc)[3] = c
  <2>1. /\ sa \o sbc \in Seq(S) /\ Len(sa \o sbc) = Len(sa) + Len(sbc)
        /\ \A i \in 1 .. Len(sa) + Len(sbc) :
             (sa \o sbc)[i] = IF i <= Len(sa) THEN sa[i] ELSE sbc[i - Len(sa)]
    BY <1>1, ConcatProperties
  <2>2. /\ Len(sa \o sbc) = 3
        /\ \A i \in 1 .. 3 : (sa \o sbc)[i] = IF i <= 1 THEN sa[i] ELSE sbc[i - 1]
    BY <1>1, <2>1
  <2> QED
    BY <1>1, <2>1, <2>2
<1>5. sa \o sbc = abc
  BY <1>1, <1>4, SeqEqual
<1>6. <<>> \o sb = sb
  BY <1>1, ConcatEmptySeq
<1> QED
  BY <1>3, <1>5, <1>6 DEF sa, sb, sbc, ab, abc

(* The worker takes the first request.                                        *)
LEMMA TakesFirst ==
    ASSUME NEW S, NEW q \in Seq(S), q # <<>>
    PROVE  /\ q[1] \in S /\ Len(q) \in Nat \ {0}
           /\ RemoveAt(q, 1) \in Seq(S) /\ Len(RemoveAt(q, 1)) = Len(q) - 1
           /\ \A i \in 1 .. Len(q) - 1 : RemoveAt(q, 1)[i] = q[i + 1]
<1>1. Len(q) \in Nat \ {0}
  BY EmptySeq
<1>2. Tail(q) \in Seq(S) /\ Len(Tail(q)) = Len(q) - 1
      /\ \A i \in 1 .. Len(q) - 1 : Tail(q)[i] = q[i + 1]
  BY HeadTailProperties
<1>3. RemoveAt(q, 1) = Tail(q)
  <2>1. SubSeq(q, 1, 0) = <<>>
    BY SubSeqEmpty
  <2>2. SubSeq(q, 2, Len(q)) = Tail(q)
    BY TailIsSubSeq
  <2>3. RemoveAt(q, 1) = SubSeq(q, 1, 1 - 1) \o SubSeq(q, 1 + 1, Len(q))
    BY DEF RemoveAt
  <2>4. RemoveAt(q, 1) = <<>> \o Tail(q)
    BY <2>1, <2>2, <2>3
  <2> QED
    BY <1>2, <2>4, ConcatEmptySeq
<1>4. q[1] \in S
  BY <1>1, ElementOfSeq
<1> QED
  BY <1>1, <1>2, <1>3, <1>4

(* Where an end is when events come or are taken.                              *)
LEMMA EndsConcat ==
    ASSUME NEW S, NEW q \in Seq(S), NEW evs \in Seq(S), NEW t
    PROVE  /\ \A k : EndsAfter(q, k, t) => EndsAfter(q \o evs, k, t)
           /\ \A k \in 0 .. Len(q) : EndsAfter(evs, 0, t) => EndsAfter(q \o evs, k, t)
           /\ \A i \in 1 .. Len(evs) :
                EndsAfter(evs, i, t) => EndsAfter(q \o evs, Len(q) + i, t)
<1> DEFINE a == q \o evs
<1>1. /\ Len(q) \in Nat /\ Len(evs) \in Nat /\ Len(a) = Len(q) + Len(evs)
      /\ \A i \in 1 .. Len(q) + Len(evs) : a[i] = IF i <= Len(q) THEN q[i] ELSE evs[i - Len(q)]
  BY ConcatProperties, LenProperties
<1> HIDE DEF a
<1>2. \A i \in 1 .. Len(q) : i \in 1 .. Len(a) /\ a[i] = q[i]
  BY <1>1
<1>3. \A i \in 1 .. Len(evs) : Len(q) + i \in 1 .. Len(a) /\ a[Len(q) + i] = evs[i]
  BY <1>1
<1>4. ASSUME NEW k, EndsAfter(q, k, t) PROVE EndsAfter(a, k, t)
  BY <1>2, <1>4 DEF EndsAfter
<1>5. ASSUME NEW k \in 0 .. Len(q), EndsAfter(evs, 0, t) PROVE EndsAfter(a, k, t)
  <2>1. PICK i \in 1 .. Len(evs) : evs[i] \in EndOf(t)
    BY <1>5 DEF EndsAfter
  <2>2. Len(q) + i > k
    BY <1>1
  <2> QED
    BY <1>3, <2>1, <2>2 DEF EndsAfter
<1>6. ASSUME NEW i \in 1 .. Len(evs), EndsAfter(evs, i, t) PROVE EndsAfter(a, Len(q) + i, t)
  <2>1. PICK j \in 1 .. Len(evs) : j > i /\ evs[j] \in EndOf(t)
    BY <1>6 DEF EndsAfter
  <2>2. Len(q) + j > Len(q) + i
    BY <1>1, <2>1
  <2> QED
    BY <1>3, <2>1, <2>2 DEF EndsAfter
<1> QED
  BY <1>4, <1>5, <1>6 DEF a

LEMMA EndsTail ==
    ASSUME NEW S, NEW q \in Seq(S), q # <<>>, NEW t
    PROVE  /\ EndsAfter(q, 0, t) => Head(q) \in EndOf(t) \/ EndsAfter(Tail(q), 0, t)
           /\ \A k \in Nat : EndsAfter(q, k + 1, t) => EndsAfter(Tail(q), k, t)
<1>1. /\ Len(q) \in Nat \ {0} /\ Len(Tail(q)) = Len(q) - 1 /\ Head(q) = q[1]
      /\ \A i \in 1 .. Len(q) - 1 : Tail(q)[i] = q[i + 1]
  BY EmptySeq, HeadTailProperties
<1>2. ASSUME NEW k \in Nat, EndsAfter(q, k + 1, t) PROVE EndsAfter(Tail(q), k, t)
  <2>1. PICK i \in 1 .. Len(q) : i > k + 1 /\ q[i] \in EndOf(t)
    BY <1>2 DEF EndsAfter
  <2>2. i - 1 \in 1 .. Len(q) - 1 /\ i - 1 > k /\ (i - 1) + 1 = i
    BY <1>1, <2>1
  <2>3. Tail(q)[i - 1] = q[i]
    BY <1>1, <2>2
  <2> QED
    BY <1>1, <2>1, <2>2, <2>3 DEF EndsAfter
<1>3. ASSUME EndsAfter(q, 0, t), q[1] \notin EndOf(t) PROVE EndsAfter(Tail(q), 0, t)
  <2>1. EndsAfter(q, 0 + 1, t)
    BY <1>1, <1>3 DEF EndsAfter
  <2> QED
    BY <1>2, <2>1
<1> QED
  BY <1>1, <1>2, <1>3

(* The least of some numbers.                                                  *)
LEMMA LeastNumber ==
    ASSUME NEW S \in SUBSET Nat, S # {}
    PROVE  Min(S) \in S /\ \A x \in S : Min(S) <= x
<1>1. PICK R : IsWellFoundedOn(R, Nat) /\ \A x, y \in Nat : <<x, y>> \in R <=> x < y
  BY NatOrder
<1>2. PICK m \in S : \A x \in S : ~(<<x, m>> \in R)
  <2>1. IsWellFoundedOn(R, Nat) /\ S \subseteq Nat
    BY <1>1
  <2> QED
    BY <2>1, WFMin, Zenon
<1>3. \A x \in S : ~(x < m)
  BY <1>1, <1>2
<1>4. \A x \in S : m <= x
  BY <1>3
<1> QED
  BY <1>4 DEF Min

-----------------------------------------------------------------------------
(* The adapters.                                                              *)

(* What an adapter's step emits and does to the turns: a turn it opens runs or *)
(* is closed by a later event, a turn that runs no more is closed.             *)
Moves(evs) ==
    /\ runtimeEvents' = runtimeEvents \o evs
    /\ \A i \in 1 .. Len(evs) : Opens(evs[i]) =>
         Runs(evs[i].turn)' \/ EndsAfter(evs, i, evs[i].turn)
    /\ \A t \in Seen : Runs(t) => Runs(t)' \/ EndsAfter(evs, 0, t)

AdapterStep ==
    /\ Seen \subseteq Seen'
    /\ \E evs \in Seq(EventSet(Seen')) : Moves(evs)

(* A Claude context that runs a turn of the user's runs it already, and its    *)
(* agent has as much to answer.                                                *)
Calm ==
    /\ provider' = provider
    /\ \A s \in Session : \A t \in context'[s].turns :
         \/ t \in Background \/ provider = "codex"
         \/ t \in context[s].turns /\ context'[s].prompts = context[s].prompts

(* The ways an adapter's step is seen to be one.                              *)
LEMMA Quiet ==
    ASSUME UNCHANGED runtimeEvents, ReadInv, Seen \subseteq Seen',
           \A t \in Seen : Runs(t) => Runs(t)'
    PROVE  AdapterStep
<1>1. runtimeEvents \o <<>> = runtimeEvents
  BY ConcatEmptySeq DEF ReadInv
<1>2. <<>> \in Seq(EventSet(Seen')) /\ Len(<<>>) = 0
  BY EmptySeq
<1>3. Moves(<<>>)
  BY <1>1, <1>2 DEF Moves
<1> QED
  BY <1>2, <1>3 DEF AdapterStep

LEMMA OneEvent ==
    ASSUME Seen \subseteq Seen', NEW e \in EventSet(Seen'), Emit(<<e>>),
           Opens(e) => Runs(e.turn)',
           \A t \in Seen : Runs(t) => Runs(t)' \/ e \in EndOf(t)
    PROVE  AdapterStep
<1> DEFINE evs == <<e>>
<1>1. evs \in Seq(EventSet(Seen')) /\ Len(evs) = 1 /\ evs[1] = e
  OBVIOUS
<1>2. runtimeEvents' = runtimeEvents \o evs
  BY DEF Emit
<1> HIDE DEF evs
<1>3. Moves(evs)
  BY <1>1, <1>2 DEF Moves, EndsAfter
<1> QED
  BY <1>1, <1>3 DEF AdapterStep

LEMMA TwoEvents ==
    ASSUME Seen \subseteq Seen',
           NEW e \in EventSet(Seen'), NEW f \in EventSet(Seen'), Emit(<<e, f>>),
           ~Opens(f), Opens(e) => f \in EndOf(e.turn),
           \A t \in Seen : Runs(t) => Runs(t)' \/ e \in EndOf(t) \/ f \in EndOf(t)
    PROVE  AdapterStep
<1> DEFINE evs == <<e, f>>
<1>1. evs \in Seq(EventSet(Seen')) /\ Len(evs) = 2 /\ evs[1] = e /\ evs[2] = f
  OBVIOUS
<1>2. runtimeEvents' = runtimeEvents \o evs
  BY DEF Emit
<1> HIDE DEF evs
<1>3. Moves(evs)
  BY <1>1, <1>2 DEF Moves, EndsAfter
<1> QED
  BY <1>1, <1>3 DEF AdapterStep

(* Three events, the last an exit, close whatever ran.                        *)
LEMMA EndsWithExit ==
    ASSUME Seen \subseteq Seen', NEW e \in EventSet(Seen'), NEW f \in EventSet(Seen'),
           ~Opens(f), Opens(e) => f \in EndOf(e.turn) \/ Runs(e.turn)',
           Emit(<<e, f, Event("exited", NoTurn)>>)
    PROVE  AdapterStep
<1> DEFINE x == Event("exited", NoTurn)
           evs == <<e, f, x>>
<1>1. x \in EventSet(Seen') /\ ~Opens(x) /\ \A t : x \in EndOf(t)
  BY DEF EventSet, Event, Opens, EndOf
<1> HIDE DEF x
<1>2. evs \in Seq(EventSet(Seen')) /\ Len(evs) = 3
      /\ evs[1] = e /\ evs[2] = f /\ evs[3] = x
  BY <1>1
<1>3. runtimeEvents' = runtimeEvents \o evs
  BY DEF Emit, x
<1> HIDE DEF evs
<1>4. Moves(evs)
  BY <1>1, <1>2, <1>3 DEF Moves, EndsAfter
<1> QED
  BY <1>2, <1>4 DEF AdapterStep

(* A context that ends emits its exit last, a Claude turn's end before it.     *)
LEMMA EndEventsOf ==
    ASSUME ContextInv, NEW s \in Session, NEW how \in {"completed", "failed"}
    PROVE  \/ EndEvents(s, how) = <<Event("exited", NoTurn)>>
           \/ \E t \in Seen : EndEvents(s, how) = <<Event(how, t), Event("exited", NoTurn)>>
<1>1. CASE provider = "codex"
  BY <1>1 DEF EndEvents
<1>2. CASE provider = "claudeAgent"
  <2>1. EndEvents(s, how) = Events(how, context[s].turns) \o <<Event("exited", NoTurn)>>
    BY <1>2 DEF EndEvents
  <2>2. CASE context[s].turns = {}
    BY <2>1, <2>2, EventsOf, ShortSequences
  <2>3. ASSUME NEW t \in Seen, context[s].turns = {t}
        PROVE  EndEvents(s, how) = <<Event(how, t), Event("exited", NoTurn)>>
    <3>1. Events(how, context[s].turns) = <<Event(how, t)>>
      BY <2>3, EventsOf
    <3> QED
      BY <2>1, <3>1, ShortSequences
  <2> QED
    BY <1>2, <2>2, <2>3 DEF ContextInv
<1> QED
  BY <1>1, <1>2 DEF ContextInv

(* The turn of a Claude context, if it has one.                               *)
LEMMA TheTurn ==
    ASSUME ContextInv, HistoryInv, NEW s \in Session, provider = "claudeAgent",
           NEW t, t = Max({NoTurn} \cup context[s].turns)
    PROVE  \/ context[s].turns = {} /\ t = NoTurn
           \/ context[s].turns = {t} /\ t \in Seen
<1>1. CASE context[s].turns = {}
  <2>1. \E x \in {NoTurn} : \A y \in {NoTurn} : x >= y
    BY DEF NoTurn
  <2>2. t \in {NoTurn}
    BY <1>1, <2>1 DEF Max
  <2> QED
    BY <1>1, <2>2
<1>2. ASSUME NEW u \in Seen, context[s].turns = {u} PROVE t = u
  <2>1. u \in Nat /\ u # 0
    BY SeenTurns DEF NoTurn
  <2>2. u \in {NoTurn, u} /\ \A y \in {NoTurn, u} : u >= y
    BY <2>1 DEF NoTurn
  <2>3. t \in {NoTurn, u} /\ \A y \in {NoTurn, u} : t >= y
    <3>1. {NoTurn} \cup context[s].turns = {NoTurn, u}
      BY <1>2
    <3>2. t = CHOOSE x \in {NoTurn, u} : \A y \in {NoTurn, u} : x >= y
      BY <3>1 DEF Max
    <3> QED
      BY <2>2, <3>2
  <2> QED
    BY <2>1, <2>3 DEF NoTurn
<1> QED
  BY <1>1, <1>2 DEF ContextInv

(* One context changes.                                                       *)
LEMMA ContextChanges ==
    ASSUME ContextInv, asked'.turns = asked.turns, provider' = provider,
           Seen \subseteq Seen', begun' \subseteq Background,
           stranded \subseteq stranded', stranded' \subseteq Seen',
           NEW s \in Session, NEW c \in ContextSet(asked.turns, Seen'),
           context' = [context EXCEPT ![s] = c],
           c.phase \notin {"starting", "open"} => c.turns = {} /\ c.sent = NoTurn,
           provider = "claudeAgent" => c.phase # "starting" /\ c.sent = NoTurn
              /\ (c.turns = {} \/ \E t \in Seen' : c.turns = {t}),
           registered' \in Session \cup {NoSession},
           registered' # NoSession => registered' \in {s, registered},
           registered' = s => c.phase \in {"starting", "open"}
    PROVE  /\ ContextInv'
           /\ context'[s] = c /\ \A r \in Session : r # s => context'[r] = context[r]
           /\ \A t : Runs(t) => Runs(t)' \/ t \in context[s].turns
           /\ context[s].turns \subseteq c.turns => \A t : Runs(t) => Runs(t)'
           /\ \A t \in c.turns : Runs(t)'
           /\ c.turns \subseteq Background \/ provider = "codex" => Calm
<1>1. context'[s] = c /\ \A r \in Session : r # s => context'[r] = context[r]
  BY DEF ContextInv
<1>2. context' \in [Session -> ContextSet(asked.turns, Seen')]
  <2>1. ContextSet(asked.turns, Seen) \subseteq ContextSet(asked.turns, Seen')
    BY DEF ContextSet
  <2> QED
    BY <2>1 DEF ContextInv
<1>3. ContextInv'
  <2>1. HasSession' => Live(registered)'
    BY <1>1 DEF ContextInv, HasSession, Live
  <2>2. \A r \in Session :
          /\ ~Live(r)' => context'[r].turns = {} /\ context'[r].sent = NoTurn
          /\ provider' = "claudeAgent" =>
               /\ context'[r].phase # "starting" /\ context'[r].sent = NoTurn
               /\ context'[r].turns = {} \/ \E t \in Seen' : context'[r].turns = {t}
    <3>1. ASSUME NEW r \in Session, r = s
          PROVE  /\ ~Live(r)' => context'[r].turns = {} /\ context'[r].sent = NoTurn
                 /\ provider' = "claudeAgent" =>
                      /\ context'[r].phase # "starting" /\ context'[r].sent = NoTurn
                      /\ context'[r].turns = {} \/ \E t \in Seen' : context'[r].turns = {t}
      BY <1>1, <3>1 DEF Live
    <3>2. ASSUME NEW r \in Session, r # s
          PROVE  /\ ~Live(r)' => context'[r].turns = {} /\ context'[r].sent = NoTurn
                 /\ provider' = "claudeAgent" =>
                      /\ context'[r].phase # "starting" /\ context'[r].sent = NoTurn
                      /\ context'[r].turns = {} \/ \E t \in Seen' : context'[r].turns = {t}
      BY <1>1, <3>2 DEF ContextInv, Live
    <3> QED
      BY <3>1, <3>2
  <2> QED
    BY <1>2, <2>1, <2>2 DEF ContextInv, HasSession, Live
<1>4. /\ \A t : Runs(t) => Runs(t)' \/ t \in context[s].turns
      /\ context[s].turns \subseteq c.turns => \A t : Runs(t) => Runs(t)'
      /\ \A t \in c.turns : Runs(t)'
  BY <1>1 DEF Runs
<1>5. c.turns \subseteq Background \/ provider = "codex" => Calm
  BY <1>1 DEF Calm
<1> QED
  BY <1>1, <1>3, <1>4, <1>5

LEMMA ContextCloses ==
    ASSUME ContextInv, HistoryInv, asked'.turns = asked.turns,
           UNCHANGED <<provider, begun, stranded>>,
           NEW s \in Session, context' = Closed(s), registered' = NoSession
    PROVE  ContextInv' /\ Calm /\ Seen \subseteq Seen' /\ Seen' = Seen
<1> DEFINE c == [phase |-> "closed", mode |-> context[s].mode, turns |-> {},
                 sent |-> NoTurn, prompts |-> 0]
<1>0. Seen' = Seen /\ asked.turns \in Nat
  BY SeenStays, Known
<1>1. context[s] \in ContextSet(asked.turns, Seen)
  BY DEF ContextInv
<1>2. context' = [context EXCEPT ![s] = c] /\ c \in ContextSet(asked.turns, Seen')
  <2>1. NoTurn \in 0 .. asked.turns /\ context[s].mode \in Mode
    BY <1>0, <1>1 DEF ContextSet, NoTurn
  <2>2. c \in ContextSet(asked.turns, Seen')
    BY <2>1 DEF ContextSet
  <2>3. context' = [context EXCEPT ![s] = [context[s] EXCEPT !.phase = "closed",
                                     !.turns = {}, !.sent = NoTurn, !.prompts = 0]]
    BY DEF Closed, ContextInv
  <2>4. c = [context[s] EXCEPT !.phase = "closed", !.turns = {}, !.sent = NoTurn,
                               !.prompts = 0]
    <3>1. PICK a : a = context[s] /\ a \in ContextSet(asked.turns, Seen)
      BY <1>1
    <3>2. PICK d : d = [a EXCEPT !.phase = "closed", !.turns = {}, !.sent = NoTurn,
                                 !.prompts = 0]
      OBVIOUS
    <3>3. /\ d \in ContextSet(asked.turns, Seen) /\ d.phase = "closed" /\ d.mode = a.mode
          /\ d.turns = {} /\ d.sent = NoTurn /\ d.prompts = 0
      BY <2>1, <3>1, <3>2 DEF ContextSet
    <3>4. d = c
      BY <3>1, <3>3 DEF ContextSet
    <3> QED
      BY <3>1, <3>2, <3>4
  <2> QED
    BY <2>2, <2>3, <2>4
<1>3. c.phase = "closed" /\ c.turns = {} /\ c.sent = NoTurn
  OBVIOUS
<1>4. begun \subseteq Background /\ stranded \subseteq Seen
  BY DEF ContextInv
<1> HIDE DEF c
<1> QED
  BY <1>0, <1>2, <1>3, <1>4, ContextChanges, TurnsAreNumbers DEF NoSession

(* The adapters' operations, one by one.                                      *)
LEMMA ExitIsEvent ==
    ASSUME NEW turns
    PROVE  /\ Event("exited", NoTurn) \in EventSet(turns)
           /\ ~Opens(Event("exited", NoTurn)) /\ \A t : Event("exited", NoTurn) \in EndOf(t)
           /\ \A how \in {"completed", "failed"}, t \in {NoTurn} \cup turns :
                /\ Event(how, t) \in EventSet(turns)
                /\ ~Opens(Event(how, t)) /\ Event(how, t) \in EndOf(t)
           /\ Event("error", NoTurn) \in EventSet(turns) /\ ~Opens(Event("error", NoTurn))
BY DEF EventSet, Event, Opens, EndOf, NoTurn

LEMMA EmitsEnd ==
    ASSUME ContextInv, Seen' = Seen, NEW s \in Session,
           NEW how \in {"completed", "failed"}, Emit(EndEvents(s, how))
    PROVE  AdapterStep
<1>1. CASE EndEvents(s, how) = <<Event("exited", NoTurn)>>
  BY <1>1, ExitIsEvent, OneEvent
<1>2. ASSUME NEW t \in Seen,
             EndEvents(s, how) = <<Event(how, t), Event("exited", NoTurn)>>
      PROVE  AdapterStep
  BY <1>2, ExitIsEvent, TwoEvents
<1> QED
  BY <1>1, <1>2, EndEventsOf

LEMMA RegisterIs ==
    ASSUME ContextInv, HistoryInv, asked'.turns = asked.turns, NEW mode \in Mode, Register(mode)
    PROVE  ContextInv' /\ AdapterStep /\ Calm /\ Min(Unmade) \in Session
<1> DEFINE s == Min(Unmade)
           c == [phase |-> IF provider = "codex" THEN "starting" ELSE "open", mode |-> mode,
                 turns |-> {}, sent |-> NoTurn, prompts |-> 0]
           e == IF provider = "codex" THEN Event("connecting", NoTurn)
                ELSE Event("ready", NoTurn)
<1>0. /\ Seen' = Seen /\ asked.turns \in Nat /\ UNCHANGED <<begun, stranded>>
      /\ begun \subseteq Background /\ stranded \subseteq Seen
  BY SeenStays, Known DEF Register, ContextInv
<1>1. s \in Unmade /\ s \in Session
  <2>1. Unmade \in SUBSET Nat /\ Unmade # {} /\ Unmade \subseteq Session
    BY TurnsAreNumbers DEF Unmade, Register
  <2> QED
    BY <2>1, LeastNumber
<1>2. c \in ContextSet(asked.turns, Seen')
  BY <1>0 DEF ContextSet, NoTurn
<1>3. context' = [context EXCEPT ![s] = c] /\ registered' = s /\ provider' = provider
  <2>1. PICK d : d = [Unborn EXCEPT !.phase = IF provider = "codex" THEN "starting" ELSE "open",
                                    !.mode = mode]
    OBVIOUS
  <2>2. d = c
    BY <2>1 DEF Unborn
  <2> QED
    BY <2>1, <2>2 DEF Register
<1>4. Emit(<<e>>)
  BY DEF Register
<1>5. e \in EventSet(Seen') /\ ~Opens(e)
  BY DEF EventSet, Event, Opens
<1>6. /\ c.phase \in {"starting", "open"} /\ c.turns = {} /\ c.sent = NoTurn
      /\ provider = "claudeAgent" => c.phase # "starting"
  OBVIOUS
<1>7. context[s].turns = {}
  BY <1>1 DEF Unmade, ContextInv, Live
<1> HIDE DEF s, c, e
<1>8. ContextInv' /\ Calm /\ \A t : Runs(t) => Runs(t)'
  BY <1>0, <1>1, <1>2, <1>3, <1>6, <1>7, ContextChanges
<1>9. AdapterStep
  BY <1>0, <1>4, <1>5, <1>8, OneEvent
<1> QED
  BY <1>1, <1>8, <1>9 DEF s

LEMMA HandshakeDoneIs ==
    ASSUME ContextInv, HistoryInv, asked'.turns = asked.turns, NEW s \in Session,
           HandshakeDone(s)
    PROVE  ContextInv' /\ AdapterStep /\ Calm
<1> DEFINE c == [phase |-> "open", mode |-> context[s].mode, turns |-> context[s].turns,
                 sent |-> context[s].sent, prompts |-> context[s].prompts]
           e == Event("ready", NoTurn)
<1>0. /\ Seen' = Seen /\ UNCHANGED <<begun, stranded>>
      /\ begun \subseteq Background /\ stranded \subseteq Seen
  BY SeenStays DEF HandshakeDone, ContextInv
<1>1. context[s] \in ContextSet(asked.turns, Seen) /\ context[s].phase = "starting"
  BY DEF ContextInv, HandshakeDone
<1>2. c \in ContextSet(asked.turns, Seen')
  BY <1>0, <1>1 DEF ContextSet
<1>3. context' = [context EXCEPT ![s] = c] /\ registered' = registered /\ provider' = provider
  <2>1. context' = [context EXCEPT ![s] = [context[s] EXCEPT !.phase = "open"]]
    BY DEF HandshakeDone, ContextInv
  <2> QED
    BY <1>1, <2>1 DEF ContextSet, HandshakeDone
<1>4. Emit(<<e>>) /\ e \in EventSet(Seen') /\ ~Opens(e)
  BY DEF HandshakeDone, EventSet, Event, Opens
<1>5. c.phase = "open" /\ c.turns = context[s].turns /\ provider = "codex"
  BY <1>1 DEF ContextInv
<1> HIDE DEF c, e
<1>6. ContextInv' /\ Calm /\ \A t : Runs(t) => Runs(t)'
  <2>1. registered \in Session \cup {NoSession}
    BY DEF ContextInv
  <2> QED
    BY <1>0, <1>2, <1>3, <1>5, <2>1, ContextChanges
<1> QED
  BY <1>0, <1>4, <1>6, OneEvent

LEMMA HandshakeFailedIs ==
    ASSUME ContextInv, HistoryInv, asked'.turns = asked.turns, HandshakeFailed
    PROVE  ContextInv' /\ AdapterStep /\ Calm
<1>1. registered' = NoSession /\ UNCHANGED <<provider, begun, stranded>> /\ Seen' = Seen
  BY SeenStays DEF HandshakeFailed
<1>2. CASE HasSession
  <2>1. registered \in Session
    BY <1>2 DEF HasSession, ContextInv
  <2>2. /\ context' = Closed(registered)
        /\ Emit(<<Event("error", NoTurn)>> \o EndEvents(registered, "failed"))
    BY <1>2 DEF HandshakeFailed
  <2>3. ContextInv' /\ Calm
    BY <1>1, <2>1, <2>2, ContextCloses
  <2>4. CASE EndEvents(registered, "failed") = <<Event("exited", NoTurn)>>
    <3>1. Emit(<<Event("error", NoTurn), Event("exited", NoTurn)>>)
      BY <2>2, <2>4, ShortSequences
    <3> QED
      BY <1>1, <2>3, <3>1, ExitIsEvent, TwoEvents
  <2>5. ASSUME NEW t \in Seen,
               EndEvents(registered, "failed") = <<Event("failed", t), Event("exited", NoTurn)>>
        PROVE  AdapterStep
    <3>1. Emit(<<Event("error", NoTurn), Event("failed", t), Event("exited", NoTurn)>>)
      <4>1. <<Event("error", NoTurn)>> \o <<Event("failed", t), Event("exited", NoTurn)>>
              = <<Event("error", NoTurn), Event("failed", t), Event("exited", NoTurn)>>
        BY ShortSequences
      <4> QED
        BY <2>2, <2>5, <4>1
    <3>2. Event("failed", t) \in EventSet(Seen') /\ ~Opens(Event("failed", t))
      BY <1>1, ExitIsEvent
    <3> QED
      BY <1>1, <3>1, <3>2, ExitIsEvent, EndsWithExit
  <2> QED
    BY <2>1, <2>3, <2>4, <2>5, EndEventsOf
<1>3. CASE ~HasSession
  <2>1. UNCHANGED <<context, registered>> /\ Emit(<<Event("error", NoTurn)>>)
    BY <1>1, <1>3 DEF HandshakeFailed, HasSession
  <2>2. ContextInv' /\ Calm /\ \A t : Runs(t) => Runs(t)'
    BY <1>1, <2>1 DEF ContextInv, HasSession, Live, Runs, Calm
  <2> QED
    BY <1>1, <2>1, <2>2, ExitIsEvent, OneEvent
<1> QED
  BY <1>2, <1>3

LEMMA StartRefusedIs ==
    ASSUME ContextInv, ReadInv, asked'.turns = asked.turns, StartRefused
    PROVE  ContextInv' /\ AdapterStep /\ Calm
<1>0. Seen' = Seen
  BY SeenStays DEF StartRefused
<1>1. ContextInv' /\ Calm /\ \A t : Runs(t) => Runs(t)'
  BY <1>0 DEF StartRefused, ContextInv, HasSession, Live, Runs, Calm
<1>2. CASE provider = "codex"
  BY <1>0, <1>1, <1>2, ExitIsEvent, OneEvent DEF StartRefused
<1>3. CASE provider # "codex"
  <2>1. runtimeEvents' = runtimeEvents
    BY <1>3, ConcatEmptySeq DEF StartRefused, Emit, ReadInv
  <2> QED
    BY <1>0, <1>1, <2>1, Quiet
<1> QED
  BY <1>1, <1>2, <1>3

LEMMA StopRegisteredIs ==
    ASSUME ContextInv, HistoryInv, asked'.turns = asked.turns, StopRegistered
    PROVE  ContextInv' /\ AdapterStep /\ Calm
<1>1. registered \in Session
  BY DEF StopRegistered, HasSession, ContextInv
<1>2. ContextInv' /\ Calm /\ Seen' = Seen
  BY <1>1, ContextCloses DEF StopRegistered
<1> QED
  BY <1>1, <1>2, EmitsEnd DEF StopRegistered

LEMMA ClosePreviousIs ==
    ASSUME ContextInv, ReadInv, HistoryInv, asked'.turns = asked.turns, HasSession,
           ClosePrevious
    PROVE  ContextInv' /\ AdapterStep /\ Calm
<1> DEFINE s == registered
           c == [phase |-> context[s].phase, mode |-> context[s].mode, turns |-> {},
                 sent |-> context[s].sent, prompts |-> context[s].prompts]
<1>0. /\ Seen' = Seen /\ UNCHANGED <<begun, stranded>>
      /\ begun \subseteq Background /\ stranded \subseteq Seen
  BY SeenStays DEF ClosePrevious, ContextInv
<1>1. /\ s \in Session /\ context[s] \in ContextSet(asked.turns, Seen)
      /\ context[s].phase \in {"starting", "open"}
      /\ provider = "claudeAgent"
      /\ context[s].phase # "starting" /\ context[s].sent = NoTurn
      /\ context[s].turns = {} \/ \E u \in Seen : context[s].turns = {u}
  BY DEF HasSession, ContextInv, Live, ClosePrevious
<1>2. c \in ContextSet(asked.turns, Seen')
  BY <1>0, <1>1 DEF ContextSet
<1>3. context' = [context EXCEPT ![s] = c] /\ registered' = registered /\ provider' = provider
  <2>1. context' = [context EXCEPT ![s] = [context[s] EXCEPT !.turns = {}]]
    BY DEF ClosePrevious, ContextInv
  <2> QED
    BY <1>1, <2>1 DEF ContextSet, ClosePrevious
<1>4. c.phase = context[s].phase /\ c.turns = {} /\ c.sent = context[s].sent
  OBVIOUS
<1>5. Emit(Events("completed", context[s].turns))
  BY DEF ClosePrevious
<1> HIDE DEF s, c
<1>6. ContextInv' /\ Calm /\ \A u : Runs(u) => Runs(u)' \/ u \in context[s].turns
  BY <1>0, <1>1, <1>2, <1>3, <1>4, ContextChanges DEF s
<1>7. CASE context[s].turns = {}
  <2>1. runtimeEvents' = runtimeEvents
    BY <1>5, <1>7, EventsOf, ConcatEmptySeq DEF Emit, ReadInv
  <2> QED
    BY <1>0, <1>6, <1>7, <2>1, Quiet
<1>8. ASSUME NEW u \in Seen, context[s].turns = {u}
      PROVE  AdapterStep
  <2>1. Emit(<<Event("completed", u)>>)
    BY <1>5, <1>8, EventsOf
  <2> QED
    BY <1>0, <1>6, <1>8, <2>1, ExitIsEvent, OneEvent
<1> QED
  BY <1>1, <1>6, <1>7, <1>8

(* A Claude context starts the turn it was told.                              *)
LEMMA ClaudeTurnIs ==
    ASSUME ContextInv, HistoryInv, asked'.turns = asked.turns, NEW s \in Session,
           NEW t \in 1 .. asked.turns, ClaudeTurn(s, t)
    PROVE  /\ ContextInv' /\ AdapterStep /\ provider' = provider
           /\ \A r \in Session : r # s => context'[r] = context[r]
           /\ context'[s] = context[s] \/ context'[s].turns = {t}
<1> DEFINE c == [phase |-> context[s].phase, mode |-> context[s].mode, turns |-> {t},
                 sent |-> context[s].sent, prompts |-> context[s].prompts]
           e == Event("turn.started", t)
<1>0. /\ Seen' = Seen /\ UNCHANGED <<provider, registered, begun>>
      /\ begun \subseteq Background /\ stranded \subseteq Seen /\ t \in Seen
      /\ registered \in Session \cup {NoSession} /\ context[s].turns \subseteq Seen
  BY SeenStays, SeenTurns DEF ClaudeTurn, ContextInv, ContextSet
<1>1. e \in EventSet(Seen') /\ e.turn = t /\ Emit(<<e>>)
  BY <1>0 DEF EventSet, Event, ClaudeTurn
<1>2. CASE /\ Live(s)
           /\ context' = [context EXCEPT ![s].turns = {t}]
           /\ stranded' = stranded \cup context[s].turns
  <2>1. context[s] \in ContextSet(asked.turns, Seen) /\ context[s].phase \in {"starting", "open"}
        /\ (provider = "claudeAgent" => context[s].phase # "starting" /\ context[s].sent = NoTurn)
    BY <1>2 DEF ContextInv, Live
  <2>2. c \in ContextSet(asked.turns, Seen')
    BY <1>0, <2>1 DEF ContextSet
  <2>3. context' = [context EXCEPT ![s] = c]
    <3>1. context' = [context EXCEPT ![s] = [context[s] EXCEPT !.turns = {t}]]
      BY <1>2 DEF ContextInv
    <3>2. [context[s] EXCEPT !.turns = {t}] = c
      BY <2>1 DEF ContextSet
    <3> QED
      BY <3>1, <3>2
  <2>4. c.phase = context[s].phase /\ c.turns = {t} /\ c.sent = context[s].sent
    OBVIOUS
  <2> HIDE DEF c, e
  <2>5. /\ ContextInv' /\ Runs(t)' /\ context'[s].turns = {t}
        /\ \A r \in Session : r # s => context'[r] = context[r]
        /\ \A u : Runs(u) => Runs(u)' \/ u \in context[s].turns
    <3>1. stranded \subseteq stranded' /\ stranded' \subseteq Seen'
      BY <1>0, <1>2
    <3> QED
      BY <1>0, <2>1, <2>2, <2>3, <2>4, <3>1, ContextChanges
  <2>6. \A u : Runs(u) => Runs(u)'
    BY <1>2, <2>5 DEF Runs
  <2> QED
    BY <1>0, <1>1, <2>5, <2>6, OneEvent
<1>3. CASE ~Live(s) /\ stranded' = stranded \cup {t} /\ context' = context
  <2>1. ContextInv'
    BY <1>0, <1>3 DEF ContextInv, HasSession, Live
  <2>2. Runs(t)' /\ \A u : Runs(u) => Runs(u)'
    BY <1>3 DEF Runs
  <2> QED
    BY <1>0, <1>1, <1>3, <2>1, <2>2, OneEvent DEF e, Event
<1> QED
  BY <1>2, <1>3 DEF ClaudeTurn

(* A Claude context's agent is told its turn, if the context lives.            *)
LEMMA PromptIs ==
    ASSUME ContextInv, ReadInv, HistoryInv, asked'.turns = asked.turns, NEW s \in Session,
           Prompt(s)
    PROVE  /\ ContextInv' /\ AdapterStep /\ provider' = provider
           /\ \A r \in Session : context'[r].turns = context[r].turns
           /\ \A r \in Session : r # s => context'[r] = context[r]
           /\ context[s].turns # {} => context'[s].prompts > 0
<1> DEFINE c == [phase |-> context[s].phase, mode |-> context[s].mode,
                 turns |-> context[s].turns, sent |-> context[s].sent,
                 prompts |-> context[s].prompts + 1]
<1>0. /\ Seen' = Seen
      /\ UNCHANGED <<provider, registered, runtimeEvents, begun, stranded>>
      /\ begun \subseteq Background /\ stranded \subseteq Seen
      /\ registered \in Session \cup {NoSession}
      /\ context[s] \in ContextSet(asked.turns, Seen)
      /\ ~Live(s) => context[s].turns = {}
  BY SeenStays DEF Prompt, ContextInv
<1>1. CASE Live(s)
  <2>1. c \in ContextSet(asked.turns, Seen')
    BY <1>0 DEF ContextSet
  <2>2. context' = [context EXCEPT ![s] = c]
    <3>1. context' = [context EXCEPT ![s] = [context[s] EXCEPT !.prompts = context[s].prompts + 1]]
      BY <1>1 DEF Prompt, ContextInv
    <3>2. [context[s] EXCEPT !.prompts = context[s].prompts + 1] = c
      BY <1>0 DEF ContextSet
    <3> QED
      BY <3>1, <3>2
  <2>3. /\ c.phase = context[s].phase /\ c.turns = context[s].turns
        /\ c.sent = context[s].sent /\ c.prompts > 0
    BY <1>0 DEF ContextSet
  <2>4. /\ context[s].phase \in {"starting", "open"}
        /\ provider = "claudeAgent" =>
             /\ context[s].phase # "starting" /\ context[s].sent = NoTurn
             /\ context[s].turns = {} \/ \E u \in Seen : context[s].turns = {u}
    BY <1>1 DEF ContextInv, Live
  <2> HIDE DEF c
  <2>5. /\ ContextInv' /\ (\A u : Runs(u) => Runs(u)') /\ context'[s] = c
        /\ \A r \in Session : r # s => context'[r] = context[r]
    <3>1. /\ c.phase \in {"starting", "open"}
          /\ provider = "claudeAgent" => c.phase # "starting" /\ c.sent = NoTurn
               /\ (c.turns = {} \/ \E u \in Seen' : c.turns = {u})
      BY <1>0, <2>3, <2>4
    <3>2. context[s].turns \subseteq c.turns
      BY <2>3
    <3> QED
      BY <1>0, <2>1, <2>2, <3>1, <3>2, ContextChanges
  <2> QED
    BY <1>0, <2>3, <2>5, Quiet
<1>2. CASE ~Live(s)
  <2>1. context' = context
    BY <1>2 DEF Prompt
  <2>2. ContextInv' /\ \A u : Runs(u) => Runs(u)'
    BY <1>0, <2>1 DEF ContextInv, HasSession, Live, Runs
  <2> QED
    BY <1>0, <1>2, <2>1, <2>2, Quiet
<1> QED
  BY <1>1, <1>2

LEMMA CodexRequestIs ==
    ASSUME ContextInv, ReadInv, HistoryInv, asked'.turns = asked.turns,
           NEW t \in 1 .. asked.turns, HasSession, CodexRequest(t)
    PROVE  ContextInv' /\ AdapterStep /\ Calm
<1> DEFINE s == registered
           c == [phase |-> context[s].phase, mode |-> context[s].mode,
                 turns |-> context[s].turns, sent |-> t, prompts |-> context[s].prompts]
<1>0. /\ Seen' = Seen /\ UNCHANGED <<begun, stranded>> /\ asked.turns \in Nat
      /\ begun \subseteq Background /\ stranded \subseteq Seen
  BY SeenStays, Known DEF CodexRequest, ContextInv
<1>1. /\ s \in Session /\ context[s] \in ContextSet(asked.turns, Seen)
      /\ context[s].phase \in {"starting", "open"} /\ provider = "codex"
  BY DEF HasSession, ContextInv, Live, CodexRequest
<1>2. c \in ContextSet(asked.turns, Seen')
  BY <1>0, <1>1 DEF ContextSet
<1>3. /\ context' = [context EXCEPT ![s] = c] /\ registered' = registered
      /\ provider' = provider /\ runtimeEvents' = runtimeEvents
  <2>1. context' = [context EXCEPT ![s] = [context[s] EXCEPT !.sent = t]]
    BY DEF CodexRequest, ContextInv
  <2> QED
    BY <1>1, <2>1 DEF ContextSet, CodexRequest
<1>4. c.phase = context[s].phase /\ c.turns = context[s].turns
  OBVIOUS
<1> HIDE DEF s, c
<1>5. ContextInv' /\ Calm /\ \A u : Runs(u) => Runs(u)'
  BY <1>0, <1>1, <1>2, <1>3, <1>4, ContextChanges DEF s
<1> QED
  BY <1>0, <1>3, <1>5, Quiet

LEMMA CodexTurnIs ==
    ASSUME ContextInv, HistoryInv, asked'.turns = asked.turns, NEW s \in Session, CodexTurn(s)
    PROVE  ContextInv' /\ AdapterStep /\ Calm
<1>1. PICK t : t = context[s].sent
  OBVIOUS
<1> DEFINE c == [phase |-> context[s].phase, mode |-> context[s].mode,
                 turns |-> context[s].turns \cup {t}, sent |-> NoTurn,
                 prompts |-> context[s].prompts]
           e == Event("turn.started", t)
<1>0. /\ Seen' = Seen /\ UNCHANGED <<begun, stranded>> /\ asked.turns \in Nat
      /\ begun \subseteq Background /\ stranded \subseteq Seen
  BY SeenStays, Known DEF CodexTurn, ContextInv
<1>2. /\ context[s] \in ContextSet(asked.turns, Seen) /\ t \in 1 .. asked.turns
      /\ context[s].phase \in {"starting", "open"} /\ provider = "codex" /\ t \in Seen
  BY <1>0, <1>1, SeenTurns DEF ContextInv, Live, CodexTurn, ContextSet, NoTurn
<1>3. c \in ContextSet(asked.turns, Seen')
  BY <1>0, <1>2 DEF ContextSet, NoTurn
<1>4. context' = [context EXCEPT ![s] = c] /\ registered' = registered /\ provider' = provider
  <2>1. context' = [context EXCEPT ![s] = [context[s] EXCEPT
                      !.turns = context[s].turns \cup {t}, !.sent = NoTurn]]
    BY <1>1 DEF CodexTurn, ContextInv
  <2> QED
    BY <1>2, <2>1 DEF ContextSet, CodexTurn
<1>5. e \in EventSet(Seen') /\ e.turn = t /\ Emit(<<e>>)
  BY <1>0, <1>1, <1>2 DEF EventSet, Event, CodexTurn
<1>6. /\ c.phase \in {"starting", "open"} /\ t \in c.turns
      /\ context[s].turns \subseteq c.turns
  BY <1>2
<1>7. registered \in Session \cup {NoSession}
  BY DEF ContextInv
<1> HIDE DEF c, e
<1>8. ContextInv' /\ Calm /\ Runs(t)' /\ \A u : Runs(u) => Runs(u)'
  BY <1>0, <1>2, <1>3, <1>4, <1>6, <1>7, ContextChanges
<1> QED
  BY <1>0, <1>5, <1>8, OneEvent

LEMMA TurnEndsIs ==
    ASSUME ContextInv, HistoryInv, asked'.turns = asked.turns, NEW s \in Session,
           NEW t \in Turn, TurnEnds(s, t)
    PROVE  ContextInv' /\ AdapterStep /\ Calm
<1> DEFINE c == [phase |-> context[s].phase, mode |-> context[s].mode,
                 turns |-> context[s].turns \ {t}, sent |-> context[s].sent,
                 prompts |-> context[s].prompts]
<1>0. /\ Seen' = Seen /\ UNCHANGED <<begun, stranded>>
      /\ begun \subseteq Background /\ stranded \subseteq Seen
  BY SeenStays DEF TurnEnds, ContextInv
<1>1. /\ context[s] \in ContextSet(asked.turns, Seen) /\ t \in context[s].turns
      /\ context[s].turns \subseteq Seen
      /\ context[s].phase \in {"starting", "open"} /\ provider = "codex"
  BY DEF ContextInv, Live, TurnEnds, ContextSet
<1>2. c \in ContextSet(asked.turns, Seen')
  BY <1>0, <1>1 DEF ContextSet
<1>3. context' = [context EXCEPT ![s] = c] /\ registered' = registered /\ provider' = provider
  <2>1. context' = [context EXCEPT ![s] = [context[s] EXCEPT !.turns = context[s].turns \ {t}]]
    BY DEF TurnEnds, ContextInv
  <2> QED
    BY <1>1, <2>1 DEF ContextSet, TurnEnds
<1>4. c.phase = context[s].phase /\ c.turns = context[s].turns \ {t}
  OBVIOUS
<1>5. PICK how \in {"completed", "failed"} : Emit(<<Event(how, t)>>)
  BY DEF TurnEnds
<1> HIDE DEF c
<1>6. /\ ContextInv' /\ Calm /\ context'[s] = c
      /\ \A r \in Session : r # s => context'[r] = context[r]
  <2>1. registered \in Session \cup {NoSession}
    BY DEF ContextInv
  <2> QED
    BY <1>0, <1>1, <1>2, <1>3, <1>4, <2>1, ContextChanges
<1>7. \A u : Runs(u) => Runs(u)' \/ u = t
  BY <1>0, <1>4, <1>6 DEF Runs
<1> QED
  BY <1>0, <1>1, <1>5, <1>6, <1>7, ExitIsEvent, OneEvent

LEMMA CodexErrorIs ==
    ASSUME ContextInv, HistoryInv, asked'.turns = asked.turns, NEW s \in Session,
           CodexError(s)
    PROVE  ContextInv' /\ AdapterStep /\ Calm
<1>1. PICK t \in {NoTurn} \cup context[s].turns : Emit(<<Event("error", t)>>)
  BY DEF CodexError
<1>2. UNCHANGED <<provider, context, registered, begun, stranded>> /\ Seen' = Seen
  BY SeenStays DEF CodexError
<1>3. ContextInv' /\ Calm /\ \A u : Runs(u) => Runs(u)'
  BY <1>2 DEF ContextInv, HasSession, Live, Runs, Calm
<1>4. PICK e : e = Event("error", t)
  OBVIOUS
<1>5. context[s].turns \subseteq Seen
  BY DEF ContextInv, ContextSet
<1>6. e \in EventSet(Seen') /\ (Opens(e) => e.turn \in context[s].turns)
  BY <1>2, <1>4, <1>5 DEF EventSet, Event, Opens
<1>7. Opens(e) => Runs(e.turn)'
  BY <1>2, <1>6 DEF Runs
<1> QED
  BY <1>1, <1>2, <1>3, <1>4, <1>6, <1>7, OneEvent

LEMMA BackgroundTurnIs ==
    ASSUME ContextInv, HistoryInv, asked'.turns = asked.turns, NEW s \in Session,
           BackgroundTurn(s)
    PROVE  ContextInv' /\ AdapterStep /\ Calm
<1>1. PICK b \in Background : /\ context' = [context EXCEPT ![s].turns = {b}]
                              /\ begun' = begun \cup {b}
                              /\ Emit(<<Event("turn.started", b)>>)
  BY DEF BackgroundTurn
<1> DEFINE c == [phase |-> context[s].phase, mode |-> context[s].mode, turns |-> {b},
                 sent |-> context[s].sent, prompts |-> context[s].prompts]
           e == Event("turn.started", b)
<1>2. /\ Seen \subseteq Seen' /\ b \in Seen' /\ begun' \subseteq Background
      /\ stranded' = stranded /\ stranded \subseteq Seen
      /\ registered' = registered /\ registered \in Session \cup {NoSession}
      /\ provider' = provider /\ provider = "claudeAgent" /\ context[s].turns = {}
  BY <1>1 DEF Seen, BackgroundTurn, ContextInv
<1>3. /\ context[s] \in ContextSet(asked.turns, Seen) /\ context[s].phase \in {"starting", "open"}
      /\ context[s].phase # "starting" /\ context[s].sent = NoTurn
  BY DEF ContextInv, Live, BackgroundTurn
<1>4. c \in ContextSet(asked.turns, Seen')
  BY <1>2, <1>3 DEF ContextSet
<1>5. context' = [context EXCEPT ![s] = c]
  <2>1. context' = [context EXCEPT ![s] = [context[s] EXCEPT !.turns = {b}]]
    BY <1>1 DEF ContextInv
  <2>2. [context[s] EXCEPT !.turns = {b}] = c
    BY <1>3 DEF ContextSet
  <2> QED
    BY <2>1, <2>2
<1>6. c.phase = context[s].phase /\ c.turns = {b} /\ c.sent = context[s].sent
  OBVIOUS
<1>7. e \in EventSet(Seen') /\ e.turn = b /\ Emit(<<e>>)
  BY <1>1, <1>2 DEF EventSet, Event
<1> HIDE DEF c, e
<1>8. ContextInv' /\ Calm /\ Runs(b)' /\ \A u : Runs(u) => Runs(u)'
  <2>1. c.turns \subseteq Background /\ context[s].turns \subseteq c.turns
    BY <1>2, <1>6
  <2> QED
    BY <1>2, <1>3, <1>4, <1>5, <1>6, <2>1, ContextChanges
<1> QED
  BY <1>2, <1>7, <1>8, OneEvent

LEMMA ResultIs ==
    ASSUME ContextInv, HistoryInv, asked'.turns = asked.turns, NEW s \in Session, Result(s)
    PROVE  ContextInv' /\ AdapterStep /\ Calm
<1>1. PICK rest \in Nat : context' = [context EXCEPT ![s].turns = {}, ![s].prompts = rest]
  BY DEF Result
<1>2. PICK t : t = Max({NoTurn} \cup context[s].turns)
  OBVIOUS
<1> DEFINE c == [phase |-> context[s].phase, mode |-> context[s].mode, turns |-> {},
                 sent |-> context[s].sent, prompts |-> rest]
<1>0. /\ Seen' = Seen /\ UNCHANGED <<provider, registered, begun, stranded>>
      /\ begun \subseteq Background /\ stranded \subseteq Seen
      /\ registered \in Session \cup {NoSession} /\ provider = "claudeAgent"
      /\ registered = s => context[s].phase \in {"starting", "open"}
  BY SeenStays, TurnsAreNumbers DEF Result, ContextInv, HasSession, Live, NoSession
<1>3. context[s] \in ContextSet(asked.turns, Seen) /\ context[s].phase # "starting"
      /\ context[s].sent = NoTurn
  BY <1>0 DEF ContextInv
<1>4. c \in ContextSet(asked.turns, Seen')
  BY <1>0, <1>3 DEF ContextSet
<1>5. context' = [context EXCEPT ![s] = c]
  <2>1. context' = [context EXCEPT ![s] = [context[s] EXCEPT !.turns = {}, !.prompts = rest]]
    BY <1>1 DEF ContextInv
  <2>2. [context[s] EXCEPT !.turns = {}, !.prompts = rest] = c
    <3>1. PICK a : a = context[s] /\ a \in ContextSet(asked.turns, Seen)
      BY <1>3
    <3>2. PICK d : d = [a EXCEPT !.turns = {}, !.prompts = rest]
      OBVIOUS
    <3>3. /\ d \in ContextSet(asked.turns, Seen) /\ d.phase = a.phase /\ d.mode = a.mode
          /\ d.turns = {} /\ d.sent = a.sent /\ d.prompts = rest
      BY <3>1, <3>2 DEF ContextSet
    <3>4. d = c
      BY <3>1, <3>3 DEF ContextSet
    <3> QED
      BY <3>1, <3>2, <3>4
  <2> QED
    BY <2>1, <2>2
<1>6. c.phase = context[s].phase /\ c.turns = {} /\ c.sent = NoTurn
  BY <1>3
<1> HIDE DEF c
<1>7. ContextInv' /\ Calm /\ \A u : Runs(u) => Runs(u)' \/ u \in context[s].turns
  BY <1>0, <1>3, <1>4, <1>5, <1>6, ContextChanges
<1>8. /\ context[s].turns \in {{}, {t}} /\ t \in {NoTurn} \cup Seen
  BY <1>0, <1>2, TheTurn
<1>9. \A u : Runs(u) => Runs(u)' \/ u = t
  BY <1>7, <1>8
<1>10. CASE Emit(<<Event("completed", t)>>)
  BY <1>0, <1>7, <1>8, <1>9, <1>10, ExitIsEvent, OneEvent
<1>11. CASE Emit(<<Event("error", t), Event("failed", t)>>)
  <2>1. PICK e, f : e = Event("error", t) /\ f = Event("failed", t)
    OBVIOUS
  <2>2. e \in EventSet(Seen') /\ f \in EventSet(Seen') /\ ~Opens(f) /\ f \in EndOf(t) /\ e.turn = t
    BY <1>0, <1>8, <2>1 DEF EventSet, Event, Opens, EndOf
  <2> QED
    BY <1>0, <1>7, <1>9, <1>11, <2>1, <2>2, TwoEvents
<1> QED
  BY <1>2, <1>7, <1>10, <1>11 DEF Result

LEMMA SessionExitsIs ==
    ASSUME ContextInv, HistoryInv, asked'.turns = asked.turns, NEW s \in Session,
           SessionExits(s)
    PROVE  ContextInv' /\ AdapterStep /\ Calm
<1>1. ContextInv' /\ Calm /\ Seen' = Seen
  BY ContextCloses DEF SessionExits, EntryAfterExit
<1>2. CASE Emit(EndEvents(s, "completed"))
  BY <1>1, <1>2, EmitsEnd
<1>3. PICK t : t = Max({NoTurn} \cup context[s].turns)
  OBVIOUS
<1>4. CASE provider = "claudeAgent" /\
           Emit(<<Event("error", t), Event("failed", t), Event("exited", NoTurn)>>)
  <2>1. t \in {NoTurn} \cup Seen
    BY <1>3, <1>4, TheTurn
  <2>2. Event("error", t) \in EventSet(Seen') /\ Event("failed", t) \in EventSet(Seen')
        /\ ~Opens(Event("failed", t)) /\ Event("failed", t) \in EndOf(Event("error", t).turn)
    BY <1>1, <2>1 DEF EventSet, Event, Opens, EndOf
  <2> QED
    BY <1>1, <1>4, <2>2, EndsWithExit
<1> QED
  BY <1>1, <1>2, <1>3, <1>4 DEF SessionExits

-----------------------------------------------------------------------------
(* The thread.                                                                *)

(* More turns are known, or no more: what is known stays known.                *)
LEMMA Grows ==
    ASSUME NEW m \in Nat, NEW n \in Nat, m <= n, NEW T, NEW U, T \subseteq U
    PROVE  /\ 1 .. m \subseteq 1 .. n /\ 0 .. m \subseteq 0 .. n
           /\ EventSet(T) \subseteq EventSet(U) /\ ContextSet(m, T) \subseteq ContextSet(n, U)
           /\ RequestSet(m) \subseteq RequestSet(n) /\ JobSet(m) \subseteq JobSet(n)
           /\ SessionSet(T) \subseteq SessionSet(U)
<1>1. 1 .. m \subseteq 1 .. n /\ 0 .. m \subseteq 0 .. n
  OBVIOUS
<1>2. ContextSet(m, T) \subseteq ContextSet(n, U)
  BY <1>1 DEF ContextSet
<1>3. JobSet(m) \subseteq JobSet(n)
  BY <1>1 DEF JobSet
<1> QED
  BY <1>1, <1>2, <1>3 DEF EventSet, RequestSet, SessionSet

LEMMA SeqGrows ==
    ASSUME NEW S, NEW T, S \subseteq T, NEW q \in Seq(S)
    PROVE  q \in Seq(T)
BY LenProperties, \A i \in 1 .. Len(q) : q[i] \in T

(* An adapter's step leaves the ends where they must be.                      *)
LEMMA AdapterKeepsGhost ==
    ASSUME ContextInv, HistoryInv, ReadInv, GhostInv, AdapterStep, UNCHANGED <<ingest, lost>>,
           asked'.turns = asked.turns,
           session' = session \/ (session' \in SessionSet(Seen) /\ session'.turn = NoTurn)
    PROVE  ReadInv' /\ GhostInv'
<1> DEFINE q == runtimeEvents
<1>0. /\ EventSet(Seen) \subseteq EventSet(Seen') /\ SessionSet(Seen) \subseteq SessionSet(Seen')
      /\ asked.turns \in Nat
  BY Known, Grows DEF AdapterStep
<1>1. PICK evs \in Seq(EventSet(Seen')) : Moves(evs)
  BY DEF AdapterStep
<1>2. q \in Seq(EventSet(Seen')) /\ q' = q \o evs
  BY <1>0, <1>1, SeqGrows DEF ReadInv, Moves
<1>3. /\ q \o evs \in Seq(EventSet(Seen')) /\ Len(q) \in Nat /\ Len(evs) \in Nat
      /\ Len(q \o evs) = Len(q) + Len(evs)
      /\ \A i \in 1 .. Len(q) + Len(evs) :
           (q \o evs)[i] = IF i <= Len(q) THEN q[i] ELSE evs[i - Len(q)]
  BY <1>2, ConcatProperties, LenProperties
<1>4. ReadInv'
  BY <1>0, <1>2, <1>3 DEF ReadInv, Reading, Event, Absent
<1> HIDE DEF q
<1>5. ASSUME NEW t, NEW k \in 0 .. Len(q), Runs(t) \/ EndsAfter(q, k, t)
      PROVE  Runs(t)' \/ EndsAfter(q \o evs, k, t)
  <2>1. CASE EndsAfter(q, k, t)
    BY <1>2, <2>1, EndsConcat
  <2>2. CASE Runs(t)
    <3>1. t \in Seen
      BY <2>2 DEF Runs, ContextInv, ContextSet
    <3>2. Runs(t)' \/ EndsAfter(evs, 0, t)
      BY <1>1, <2>2, <3>1 DEF Moves
    <3> QED
      BY <1>2, <3>2, EndsConcat
  <2> QED
    BY <1>5, <2>1, <2>2
<1>6. GhostInv'
  <2>1. ingest' # Reading' => session'.turn \in {NoTurn, ingest'.session.turn}
    BY DEF GhostInv, Reading, Event, Absent
  <2>2. ASSUME NEW t \in {session'.turn, ingest'.session.turn}, t \notin {NoTurn} \cup lost'
        PROVE  Runs(t)' \/ EndsAfter(q', 0, t) \/ ingest'.event \in EndOf(t)
    <3>1. t \in {session.turn, ingest.session.turn} /\ t \notin {NoTurn} \cup lost
      BY <2>2
    <3>2. Runs(t) \/ EndsAfter(q, 0, t) \/ ingest.event \in EndOf(t)
      BY <3>1 DEF GhostInv, q
    <3> QED
      BY <1>2, <1>3, <1>5, <3>2
  <2>3. PICK a : a = ingest.event
    OBVIOUS
  <2>4. Opens(a) => Runs(a.turn)' \/ EndsAfter(q', 0, a.turn)
    <3>1. Opens(a) => Runs(a.turn) \/ EndsAfter(q, 0, a.turn)
      BY <2>3 DEF GhostInv, q
    <3> QED
      BY <1>2, <1>3, <1>5, <3>1
  <2>5. ASSUME NEW i \in 1 .. Len(q \o evs), NEW e, e = (q \o evs)[i], Opens(e)
        PROVE  Runs(e.turn)' \/ EndsAfter(q \o evs, i, e.turn)
    <3>1. CASE i <= Len(q)
      <4>1. i \in 1 .. Len(q) /\ e = q[i]
        BY <1>3, <2>5, <3>1
      <4>2. Runs(e.turn) \/ EndsAfter(q, i, e.turn)
        BY <2>5, <4>1 DEF GhostInv, q
      <4> QED
        BY <1>3, <1>5, <4>1, <4>2
    <3>2. CASE ~(i <= Len(q))
      <4>1. i - Len(q) \in 1 .. Len(evs) /\ e = evs[i - Len(q)] /\ Len(q) + (i - Len(q)) = i
        BY <1>3, <2>5, <3>2
      <4>2. PICK j \in 1 .. Len(evs) : j = i - Len(q)
        BY <4>1
      <4>3. Opens(evs[j]) => Runs(evs[j].turn)' \/ EndsAfter(evs, j, evs[j].turn)
        BY <1>1 DEF Moves
      <4>4. Runs(e.turn)' \/ EndsAfter(evs, j, e.turn)
        BY <2>5, <4>1, <4>2, <4>3
      <4>5. EndsAfter(evs, j, e.turn) => EndsAfter(q \o evs, Len(q) + j, e.turn)
        BY <1>2, EndsConcat
      <4> QED
        BY <4>1, <4>2, <4>4, <4>5
    <3> QED
      BY <3>1, <3>2
  <2> QED
    BY <1>2, <2>1, <2>2, <2>3, <2>4, <2>5 DEF GhostInv, q
<1> QED
  BY <1>4, <1>6

(* The reactor goes on with its turn, or with none; it is still to tell what   *)
(* it was about to tell.                                                       *)
GoesOn ==
    /\ job'["reactor"].kind = "turn" =>
         /\ job["reactor"].kind = "turn" /\ job'["reactor"].turn = job["reactor"].turn
         /\ job["reactor"].step = "answer" => job'["reactor"].step = "answer"
    /\ job["reactor"].step = "prompt" => job'["reactor"] = job["reactor"]

LEMMA OrderStands ==
    ASSUME OrderInv, UNCHANGED <<requests, sent>>, asked'.turns = asked.turns, GoesOn
    PROVE  OrderInv'
<1>1. \A i \in DOMAIN requests : TurnRequest(i)' = TurnRequest(i)
  BY DEF TurnRequest
<1>2. SentInOrder'
  BY DEF OrderInv, SentInOrder
<1> QED
  BY <1>1, <1>2 DEF OrderInv, GoesOn, TurnRequest

LEMMA WorkStands ==
    ASSUME ProviderInv, Calm, GoesOn, failed \subseteq failed'
    PROVE  WorkInv'
<1> SUFFICES ASSUME NEW s \in Session, NEW t \in context'[s].turns
             PROVE  \/ t \in failed' \cup Background \/ provider' = "codex"
                    \/ context'[s].prompts > 0 \/ Prompts(s, t)'
  BY DEF WorkInv
<1>1. CASE t \in Background \/ provider = "codex"
  BY <1>1 DEF Calm
<1>2. CASE t \in context[s].turns /\ context'[s].prompts = context[s].prompts
  <2>1. \/ t \in failed \cup Background \/ provider = "codex"
        \/ context[s].prompts > 0 \/ Prompts(s, t)
    BY <1>2 DEF ProviderInv, WorkInv
  <2>2. Prompts(s, t) => Prompts(s, t)'
    BY DEF Prompts, GoesOn, At
  <2> QED
    BY <1>2, <2>1, <2>2 DEF Calm
<1> QED
  BY <1>1, <1>2 DEF Calm

(* A step that leaves the requests and what was sent, and the thread's session *)
(* but for ending its turn.                                                    *)
LEMMA StepKeepsInv ==
    ASSUME ProviderInv, ContextInv', JobInv', HistoryInv', AdapterStep, Calm, GoesOn,
           UNCHANGED <<requests, sent, ingest, lost>>, asked'.turns = asked.turns,
           failed \subseteq failed',
           session' = session \/ (session' \in SessionSet(Seen) /\ session'.turn = NoTurn)
    PROVE  ProviderInv'
BY AdapterKeepsGhost, OrderStands, WorkStands DEF ProviderInv

(* A step that leaves the adapter alone.                                       *)
LEMMA AdapterStands ==
    ASSUME ProviderInv, UNCHANGED adapter, asked'.turns = asked.turns
    PROVE  ContextInv' /\ AdapterStep /\ Calm
<1>0. Seen' = Seen
  BY SeenStays DEF adapter
<1>1. ContextInv' /\ Calm /\ \A t : Runs(t) => Runs(t)'
  BY <1>0 DEF ProviderInv, ContextInv, adapter, HasSession, Live, Runs, Calm
<1>2. runtimeEvents' = runtimeEvents
  BY DEF adapter
<1> QED
  BY <1>0, <1>1, <1>2, Quiet DEF ProviderInv

(* What becomes of a job.                                                     *)
LEMMA JobChanges ==
    ASSUME ProviderInv, asked'.turns = asked.turns, NEW p \in Proc, NEW j \in JobSet(asked.turns),
           job' = [job EXCEPT ![p] = j],
           j.step \in {"ensure", "start", "handshake", "upsert", "bind"} => j.mode \in Mode,
           j.step \in {"handshake", "switch"} => j.made \in Session,
           j.step = "switch" => j.kind = "turn", j.step # "prompt",
           job[p].step # "prompt",
           j.kind = "turn" => job[p].kind = "turn" /\ j.turn = job[p].turn
              /\ (job[p].step = "answer" => j.step = "answer")
    PROVE  JobInv' /\ GoesOn
<1>1. job \in [Proc -> JobSet(asked.turns)] /\ "reactor" \in Proc
  BY DEF ProviderInv, JobInv, Proc
<1>2. job' \in [Proc -> JobSet(asked.turns)]
  BY <1>1
<1>3. \A q \in Proc : job'[q] = IF q = p THEN j ELSE job[q]
  BY <1>1
<1>4. GoesOn
  BY <1>1, <1>3 DEF GoesOn
<1> QED
  BY <1>2, <1>3, <1>4 DEF ProviderInv, JobInv

LEMMA IdleIsJob ==
    ASSUME HistoryInv
    PROVE  Idle \in JobSet(asked.turns) /\ Idle.step = "idle" /\ Idle.kind = "idle"
BY Known DEF Idle, JobSet, NoTurn, NoSession

LEMMA JobEnds ==
    ASSUME ProviderInv, asked'.turns = asked.turns, NEW p \in Proc, Done(p),
           job[p].step # "prompt"
    PROVE  JobInv' /\ GoesOn
BY IdleIsJob, JobChanges DEF Done, ProviderInv

(* A job that goes to another step.                                           *)
LEMMA JobStep ==
    ASSUME ProviderInv, asked' = asked, NEW p \in Proc,
           NEW step \in {"upsert", "bind", "route", "deliver", "unbind", "stopAdapter", "stopped"},
           Go(p, step), step \in {"upsert", "bind"} => job[p].mode \in Mode,
           job[p].step \notin {"answer", "prompt"}
    PROVE  JobInv' /\ GoesOn
<1>1. job[p] \in JobSet(asked.turns)
  BY DEF ProviderInv, JobInv
<1>2. PICK j : j = [job[p] EXCEPT !.step = step]
  OBVIOUS
<1>3. /\ j \in JobSet(asked.turns) /\ j.step = step /\ j.mode = job[p].mode
      /\ j.kind = job[p].kind /\ j.turn = job[p].turn
  BY <1>1, <1>2 DEF JobSet
<1>4. job' = [job EXCEPT ![p] = j]
  BY <1>2 DEF Go, ProviderInv, JobInv
<1> QED
  BY <1>3, <1>4, JobChanges

(* A job that fails leaves its turn among the failed ones.                     *)
LEMMA FailKeeps ==
    ASSUME ProviderInv, NEW p \in Proc, Fail(p), UNCHANGED <<readModel, binding>>,
           job[p].step # "prompt"
    PROVE  /\ JobInv' /\ GoesOn /\ HistoryInv' /\ UNCHANGED <<asked, sent, lost, session>>
           /\ failed \subseteq failed'
<1>1. JobInv' /\ GoesOn
  BY JobEnds DEF Fail
<1>2. job[p].kind = "turn" => job[p].turn \in 1 .. asked.turns
  BY Known DEF ProviderInv, JobInv, JobSet, NoTurn
<1>3. HistoryInv'
  BY <1>2 DEF Fail, ProviderInv, HistoryInv, readModel
<1> QED
  BY <1>1, <1>3 DEF Fail, readModel

LEMMA HistoryStands ==
    ASSUME ProviderInv, UNCHANGED <<readModel, history>>, binding' \in Mode \cup {NoMode}
    PROVE  HistoryInv' /\ UNCHANGED <<asked, sent, lost, session, failed>>
BY DEF ProviderInv, HistoryInv, readModel, history

-----------------------------------------------------------------------------
(* The steps, one by one.                                                     *)

LEMMA EnsureKeeps == ProviderInv /\ Ensure => ProviderInv'
<1> SUFFICES ASSUME ProviderInv, Ensure PROVE ProviderInv'
  OBVIOUS
<1> DEFINE j == job["reactor"]
<1>1. /\ "reactor" \in Proc /\ j.step = "ensure" /\ j.mode \in Mode /\ j \in JobSet(asked.turns)
      /\ asked' = asked
  BY DEF Ensure, At, Proc, ProviderInv, JobInv, history
<1>2. \/ Go("reactor", "route") \/ Done("reactor")
      \/ job' = [job EXCEPT !["reactor"].step = "start", !["reactor"].fresh = TRUE]
  BY DEF Ensure
<1>3. JobInv' /\ GoesOn
  <2>1. CASE Go("reactor", "route")
    BY <1>1, <2>1, JobStep
  <2>2. CASE Done("reactor")
    BY <1>1, <2>2, JobEnds
  <2>3. CASE job' = [job EXCEPT !["reactor"].step = "start", !["reactor"].fresh = TRUE]
    <3>1. PICK d : d = [j EXCEPT !.step = "start", !.fresh = TRUE]
      OBVIOUS
    <3>2. job' = [job EXCEPT !["reactor"] = d]
      BY <2>3, <3>1 DEF ProviderInv, JobInv
    <3>3. /\ d \in JobSet(asked.turns) /\ d.step = "start" /\ d.mode = j.mode
          /\ d.kind = j.kind /\ d.turn = j.turn
      BY <1>1, <3>1 DEF JobSet
    <3> QED
      BY <1>1, <3>2, <3>3, JobChanges
  <2> QED
    BY <1>2, <2>1, <2>2, <2>3
<1>4. binding' \in Mode \cup {NoMode}
  BY DEF Ensure, ProviderInv, HistoryInv
<1> QED
  BY <1>3, <1>4, AdapterStands, HistoryStands, StepKeepsInv DEF Ensure, history

LEMMA StartKeeps == ASSUME ProviderInv, NEW p \in Proc, Start(p) PROVE ProviderInv'
<1> DEFINE j == job[p]
<1>1. /\ j.step = "start" /\ j.mode \in Mode /\ j \in JobSet(asked.turns)
      /\ asked' = asked /\ asked.turns \in Nat
  BY Known DEF Start, At, ProviderInv, JobInv, history
<1>2. Register(j.mode)
  BY DEF Start
<1>3. ContextInv' /\ AdapterStep /\ Calm /\ Min(Unmade) \in Session
  <2> HIDE DEF j
  <2> QED
    BY <1>1, <1>2, RegisterIs DEF ProviderInv
<1>4. PICK m : m = Min(Unmade)
  OBVIOUS
<1>5. PICK d : d = [j EXCEPT !.made = m,
                             !.step = IF provider = "codex" THEN "handshake" ELSE "upsert"]
  OBVIOUS
<1>6. job' = [job EXCEPT ![p] = d]
  BY <1>4, <1>5 DEF Start, ProviderInv, JobInv
<1>7. /\ d \in JobSet(asked.turns) /\ d.step \in {"handshake", "upsert"} /\ d.mode = j.mode
      /\ d.made \in Session /\ d.kind = j.kind /\ d.turn = j.turn
  BY <1>1, <1>3, <1>4, <1>5 DEF JobSet
<1>8. JobInv' /\ GoesOn
  BY <1>1, <1>6, <1>7, JobChanges
<1> QED
  BY <1>3, <1>8, HistoryStands, StepKeepsInv DEF Start, history, ProviderInv, HistoryInv

LEMMA StartFailsKeeps == ASSUME ProviderInv, NEW p \in Proc, StartFails(p) PROVE ProviderInv'
<1>1. /\ JobInv' /\ GoesOn /\ HistoryInv' /\ UNCHANGED <<asked, sent, lost, session>>
      /\ failed \subseteq failed'
  BY FailKeeps DEF At, StartFails
<1>2. ContextInv' /\ AdapterStep /\ Calm
  BY <1>1, Known, AdapterStands, StartRefusedIs DEF StartFails, ProviderInv
<1> QED
  BY <1>1, <1>2, StepKeepsInv DEF StartFails

LEMMA HandshakeKeeps == ASSUME ProviderInv, NEW p \in Proc, Handshake(p) PROVE ProviderInv'
<1>1. /\ job[p].step = "handshake" /\ job[p].mode \in Mode /\ job[p].made \in Session
      /\ asked' = asked /\ asked.turns \in Nat
  BY Known DEF Handshake, At, ProviderInv, JobInv, history
<1>2. ContextInv' /\ AdapterStep /\ Calm
  BY <1>1, HandshakeDoneIs DEF Handshake, ProviderInv
<1>3. JobInv' /\ GoesOn
  BY <1>1, JobStep DEF Handshake
<1> QED
  BY <1>2, <1>3, HistoryStands, StepKeepsInv DEF Handshake, history, ProviderInv, HistoryInv

LEMMA HandshakeFailsKeeps ==
    ASSUME ProviderInv, NEW p \in Proc, HandshakeFails(p) PROVE ProviderInv'
<1>1. /\ JobInv' /\ GoesOn /\ HistoryInv' /\ UNCHANGED <<asked, sent, lost, session>>
      /\ failed \subseteq failed'
  BY FailKeeps DEF At, HandshakeFails
<1>2. ContextInv' /\ AdapterStep /\ Calm
  BY <1>1, Known, HandshakeFailedIs DEF HandshakeFails, ProviderInv
<1> QED
  BY <1>1, <1>2, StepKeepsInv DEF HandshakeFails

LEMMA UpsertKeeps == ASSUME ProviderInv, NEW p \in Proc, Upsert(p) PROVE ProviderInv'
<1>1. job[p].step = "upsert" /\ job[p].mode \in Mode /\ asked' = asked
  BY DEF Upsert, At, ProviderInv, JobInv, history
<1>2. JobInv' /\ GoesOn
  BY <1>1, JobStep DEF Upsert
<1>3. binding' \in Mode \cup {NoMode}
  BY <1>1 DEF Upsert
<1> QED
  BY <1>2, <1>3, AdapterStands, HistoryStands, StepKeepsInv DEF Upsert, history

LEMMA BindKeeps == ProviderInv /\ Bind => ProviderInv'
<1> SUFFICES ASSUME ProviderInv, Bind PROVE ProviderInv'
  OBVIOUS
<1>1. /\ "reactor" \in Proc /\ job["reactor"].step = "bind" /\ job["reactor"].mode \in Mode
      /\ asked' = asked /\ asked.turns \in Nat
  BY Known DEF Bind, At, Proc, ProviderInv, JobInv, history
<1>2. JobInv' /\ GoesOn
  BY <1>1, JobStep, JobEnds DEF Bind
<1>3. session' \in SessionSet(Seen) /\ session'.turn = NoTurn
  BY <1>1 DEF Bind, SessionSet, NoTurn
<1>4. HistoryInv' /\ UNCHANGED <<asked, sent, lost, failed>>
  BY DEF Bind, ProviderInv, HistoryInv, history
<1> QED
  BY <1>2, <1>3, <1>4, AdapterStands, StepKeepsInv DEF Bind

LEMMA RouteKeeps == ASSUME ProviderInv, NEW p \in Proc, Route(p) PROVE ProviderInv'
<1> DEFINE j == job[p]
<1>1. /\ j.step = "route" /\ j \in JobSet(asked.turns) /\ asked' = asked
      /\ binding \in Mode
  BY DEF Route, At, ProviderInv, JobInv, HistoryInv, history
<1>2. JobInv' /\ GoesOn
  <2>1. CASE HasSession
    <3>1. Go(p, "deliver")
      BY <2>1 DEF Route, Go
    <3> QED
      BY <1>1, <3>1, JobStep
  <2>2. CASE ~HasSession
    <3>1. PICK d : d = [j EXCEPT !.step = "start", !.mode = binding, !.fresh = FALSE]
      OBVIOUS
    <3>2. job' = [job EXCEPT ![p] = d]
      BY <2>2, <3>1 DEF Route, ProviderInv, JobInv
    <3>3. /\ d \in JobSet(asked.turns) /\ d.step = "start" /\ d.mode = binding
          /\ d.kind = j.kind /\ d.turn = j.turn
      BY <1>1, <3>1 DEF JobSet
    <3> QED
      BY <1>1, <3>2, <3>3, JobChanges
  <2> QED
    BY <2>1, <2>2
<1> QED
  BY <1>1, <1>2, AdapterStands, HistoryStands, StepKeepsInv
     DEF Route, history, ProviderInv, HistoryInv

LEMMA RouteFailsKeeps == ASSUME ProviderInv, NEW p \in Proc, RouteFails(p) PROVE ProviderInv'
<1>1. /\ JobInv' /\ GoesOn /\ HistoryInv' /\ UNCHANGED <<asked, sent, lost, session>>
      /\ failed \subseteq failed'
  BY FailKeeps DEF At, RouteFails
<1> QED
  BY <1>1, AdapterStands, StepKeepsInv DEF RouteFails

LEMMA DeliverKeeps == ASSUME ProviderInv, NEW p \in Proc, Deliver(p) PROVE ProviderInv'
<1>1. JobInv' /\ GoesOn
  BY JobEnds DEF Deliver, At, history
<1> QED
  BY <1>1, AdapterStands, HistoryStands, StepKeepsInv
     DEF Deliver, history, ProviderInv, HistoryInv

LEMMA DeliverFailsKeeps ==
    ASSUME ProviderInv, NEW p \in Proc, DeliverFails(p) PROVE ProviderInv'
<1>1. /\ JobInv' /\ GoesOn /\ HistoryInv' /\ UNCHANGED <<asked, sent, lost, session>>
      /\ failed \subseteq failed'
  BY FailKeeps DEF At, DeliverFails
<1> QED
  BY <1>1, AdapterStands, StepKeepsInv DEF DeliverFails

LEMMA TurnStartsKeeps ==
    ASSUME ProviderInv, NEW s \in Session, TurnStarts(s) PROVE ProviderInv'
<1>1. asked' = asked /\ asked.turns \in Nat /\ "reactor" \in Proc
  BY Known DEF TurnStarts, history, Proc, ProviderInv
<1>2. ContextInv' /\ AdapterStep /\ Calm
  BY <1>1, CodexTurnIs DEF TurnStarts, ProviderInv
<1>3. JobInv' /\ GoesOn
  <2>1. CASE Done("reactor") /\ At("reactor", "answer")
    BY <1>1, <2>1, JobEnds DEF At
  <2>2. CASE UNCHANGED job
    BY <1>1, <2>2 DEF GoesOn, JobInv, ProviderInv
  <2> QED
    BY <2>1, <2>2 DEF TurnStarts
<1> QED
  BY <1>2, <1>3, HistoryStands, StepKeepsInv DEF TurnStarts, history, ProviderInv, HistoryInv

LEMMA TurnRequestFailsKeeps == ProviderInv /\ TurnRequestFails => ProviderInv'
<1> SUFFICES ASSUME ProviderInv, TurnRequestFails PROVE ProviderInv'
  OBVIOUS
<1>1. /\ JobInv' /\ GoesOn /\ HistoryInv' /\ UNCHANGED <<asked, sent, lost, session>>
      /\ failed \subseteq failed'
  BY FailKeeps DEF At, TurnRequestFails, Proc
<1> QED
  BY <1>1, AdapterStands, StepKeepsInv DEF TurnRequestFails

LEMMA StopKeeps == ProviderInv /\ Stop => ProviderInv'
<1> SUFFICES ASSUME ProviderInv, Stop PROVE ProviderInv'
  OBVIOUS
<1>1. "reactor" \in Proc /\ job["reactor"].step = "stop" /\ asked' = asked
  BY DEF Stop, At, Proc, history
<1>2. JobInv' /\ GoesOn
  <2>1. CASE Done("reactor")
    BY <1>1, <2>1, JobEnds
  <2>2. CASE Go("reactor", IF HasSession THEN "stopAdapter" ELSE "unbind")
    BY <1>1, <2>2, JobStep
  <2> QED
    BY <2>1, <2>2 DEF Stop
<1> QED
  BY <1>2, AdapterStands, HistoryStands, StepKeepsInv
     DEF Stop, history, ProviderInv, HistoryInv

LEMMA StopAdapterKeeps == ProviderInv /\ StopAdapter => ProviderInv'
<1> SUFFICES ASSUME ProviderInv, StopAdapter PROVE ProviderInv'
  OBVIOUS
<1>1. /\ "reactor" \in Proc /\ job["reactor"].step = "stopAdapter" /\ asked' = asked
      /\ asked.turns \in Nat
  BY Known DEF StopAdapter, At, Proc, history, ProviderInv
<1>2. JobInv' /\ GoesOn
  <2>1. CASE Done("reactor")
    BY <1>1, <2>1, JobEnds
  <2>2. CASE Go("reactor", "unbind")
    BY <1>1, <2>2, JobStep
  <2> QED
    BY <2>1, <2>2 DEF StopAdapter
<1>3. ContextInv' /\ AdapterStep /\ Calm
  BY <1>1, StopRegisteredIs, AdapterStands DEF StopAdapter, ProviderInv
<1> QED
  BY <1>2, <1>3, HistoryStands, StepKeepsInv
     DEF StopAdapter, history, ProviderInv, HistoryInv

LEMMA UnbindKeeps == ProviderInv /\ Unbind => ProviderInv'
<1> SUFFICES ASSUME ProviderInv, Unbind PROVE ProviderInv'
  OBVIOUS
<1>1. "reactor" \in Proc /\ job["reactor"].step = "unbind" /\ asked' = asked
  BY DEF Unbind, At, Proc
<1>2. JobInv' /\ GoesOn
  BY <1>1, JobStep DEF Unbind
<1>3. HistoryInv' /\ UNCHANGED <<session, sent, lost, failed>>
  BY DEF Unbind, ProviderInv, HistoryInv, readModel
<1> QED
  BY <1>1, <1>2, <1>3, AdapterStands, StepKeepsInv DEF Unbind

LEMMA SetStoppedKeeps == ProviderInv /\ SetStopped => ProviderInv'
<1> SUFFICES ASSUME ProviderInv, SetStopped PROVE ProviderInv'
  OBVIOUS
<1>1. /\ "reactor" \in Proc /\ job["reactor"].step = "stopped" /\ asked' = asked
      /\ asked.turns \in Nat
  BY Known DEF SetStopped, At, Proc, history, ProviderInv
<1>2. JobInv' /\ GoesOn
  BY <1>1, JobEnds DEF SetStopped
<1>3. session' \in SessionSet(Seen) /\ session'.turn = NoTurn
  <2>1. session \in SessionSet(Seen)
    BY DEF ProviderInv, ReadInv
  <2>2. (IF session = Absent THEN DefaultMode ELSE session.mode) \in Mode \cup {NoMode}
    BY <2>1, ModeAssumption DEF SessionSet
  <2>3. PICK m : m = IF session = Absent THEN DefaultMode ELSE session.mode
    OBVIOUS
  <2> QED
    BY <1>1, <2>2, <2>3 DEF SetStopped, SessionSet, NoTurn
<1>4. HistoryInv' /\ UNCHANGED <<asked, sent, lost, failed>>
  BY DEF SetStopped, ProviderInv, HistoryInv, history
<1> QED
  BY <1>2, <1>3, <1>4, AdapterStands, StepKeepsInv DEF SetStopped

LEMMA ProviderEndsKeeps == ProviderInv /\ ProviderEnds => ProviderInv'
<1> SUFFICES ASSUME ProviderInv, ProviderEnds PROVE ProviderInv'
  OBVIOUS
<1>1. asked' = asked /\ asked.turns \in Nat
  BY Known DEF ProviderEnds, history, ProviderInv
<1>2. ContextInv' /\ AdapterStep /\ Calm
  BY <1>1, SessionExitsIs, BackgroundTurnIs, ResultIs, TurnEndsIs DEF ProviderEnds, ProviderInv
<1>3. JobInv' /\ GoesOn
  BY <1>1 DEF ProviderEnds, ProviderInv, JobInv, GoesOn
<1> QED
  BY <1>2, <1>3, HistoryStands, StepKeepsInv
     DEF ProviderEnds, history, ProviderInv, HistoryInv

LEMMA ProviderErrsKeeps == ProviderInv /\ ProviderErrs => ProviderInv'
<1> SUFFICES ASSUME ProviderInv, ProviderErrs PROVE ProviderInv'
  OBVIOUS
<1>1. asked'.turns = asked.turns
  BY DEF ProviderErrs, ProviderInv, HistoryInv
<1>2. ContextInv' /\ AdapterStep /\ Calm
  BY <1>1, CodexErrorIs DEF ProviderErrs, ProviderInv
<1>3. JobInv' /\ GoesOn
  BY <1>1 DEF ProviderErrs, ProviderInv, JobInv, GoesOn
<1>4. HistoryInv' /\ UNCHANGED <<session, sent, lost, failed, requests, ingest>>
  BY DEF ProviderErrs, ProviderInv, HistoryInv, readModel
<1> QED
  BY <1>1, <1>2, <1>3, <1>4, StepKeepsInv

LEMMA ProviderStutters == ProviderInv /\ UNCHANGED vars => ProviderInv'
<1> SUFFICES ASSUME ProviderInv, UNCHANGED vars PROVE ProviderInv'
  OBVIOUS
<1>1. JobInv' /\ GoesOn
  BY DEF vars, history, ProviderInv, JobInv, GoesOn
<1> QED
  BY <1>1, AdapterStands, HistoryStands, StepKeepsInv DEF vars, history, ProviderInv, HistoryInv

-----------------------------------------------------------------------------
(* The steps that ask, take a request, send a turn, ingest or restart.         *)

(* A command of the user.                                                     *)
LEMMA AskKeeps ==
    ASSUME ProviderInv, NEW kind, NEW turn, Ask(kind, turn), runtimeMode' \in Mode,
           \/ kind = "turn" /\ turn = asked.turns + 1 /\ turn \in Turn
           \/ kind \in {"mode", "call", "stop"} /\ turn = NoTurn
    PROVE  ProviderInv'
<1>1. PICK m \in Nat : m = asked.turns
  BY Known DEF ProviderInv
<1>2. PICK n : n = asked'.turns
  OBVIOUS
<1>3. /\ n \in Nat /\ m <= n /\ (kind = "turn" => n = m + 1 /\ turn = n)
      /\ asked' \in [turns : {NoTurn} \cup Turn, others : Nat, restarts : Nat]
  <2>1. asked \in [turns : {NoTurn} \cup Turn, others : Nat, restarts : Nat]
    BY DEF ProviderInv, HistoryInv
  <2>2. CASE kind = "turn"
    BY <1>1, <1>2, <2>1, <2>2 DEF Ask
  <2>3. CASE kind # "turn"
    BY <1>1, <1>2, <2>1, <2>3 DEF Ask
  <2> QED
    BY <2>2, <2>3
<1>4. UNCHANGED <<adapter, session, binding, job, ingest, sent, failed, lost, terminal>>
  BY DEF Ask
<1>5. Seen \subseteq Seen' /\ 1 .. m \subseteq 1 .. n
  BY <1>1, <1>2, <1>3, <1>4 DEF Seen, adapter
<1>6. /\ 1 .. m \subseteq 1 .. n /\ 0 .. m \subseteq 0 .. n
      /\ EventSet(Seen) \subseteq EventSet(Seen')
      /\ ContextSet(m, Seen) \subseteq ContextSet(n, Seen')
      /\ RequestSet(m) \subseteq RequestSet(n) /\ JobSet(m) \subseteq JobSet(n)
      /\ SessionSet(Seen) \subseteq SessionSet(Seen')
  BY <1>3, <1>5, Grows
<1>7. ContextInv'
  BY <1>1, <1>2, <1>6, <1>4, <1>5 DEF ProviderInv, ContextInv, HasSession, Live, adapter
<1>8. JobInv'
  BY <1>1, <1>2, <1>6, <1>4 DEF ProviderInv, JobInv
<1>9. HistoryInv'
  BY <1>1, <1>2, <1>3, <1>6, <1>4 DEF ProviderInv, HistoryInv
<1>10. ReadInv'
  <2>1. runtimeEvents \in Seq(EventSet(Seen'))
    BY <1>6, SeqGrows DEF ProviderInv, ReadInv
  <2> QED
    BY <1>1, <1>2, <1>6, <1>4, <2>1 DEF ProviderInv, ReadInv, adapter, Reading
<1>11. GhostInv'
  BY <1>4 DEF ProviderInv, GhostInv, adapter, Runs, Reading
<1>12. WorkInv'
  BY <1>4 DEF ProviderInv, WorkInv, Prompts, At, adapter
<1>13. OrderInv'
  <2>1. sent \in Seq(1 .. n) /\ requests \in Seq(RequestSet(n))
    <3>1. sent \in Seq(1 .. m) /\ requests \in Seq(RequestSet(m))
      BY <1>1 DEF ProviderInv, OrderInv
    <3>2. sent \in Seq(1 .. n)
      BY <1>6, <3>1, SeqGrows
    <3>3. requests \in Seq(RequestSet(n))
      BY <1>6, <3>1, SeqGrows
    <3> QED
      BY <3>2, <3>3
  <2>2. PICK r : r = Request(kind, turn)
    OBVIOUS
  <2>3. r \in RequestSet(n) /\ r.kind = kind /\ r.turn = turn
    BY <1>1, <1>3, <2>2 DEF Request, RequestSet
  <2>4. PICK q : q = Append(requests, r)
    OBVIOUS
  <2>5. requests' = q
    BY <2>2, <2>4 DEF Ask
  <2>6. /\ q \in Seq(RequestSet(n)) /\ Len(requests) \in Nat
        /\ DOMAIN requests = 1 .. Len(requests) /\ DOMAIN q = 1 .. Len(requests) + 1
        /\ q[Len(requests) + 1] = r /\ \A i \in DOMAIN requests : q[i] = requests[i]
    BY <2>1, <2>3, <2>4, AppendProperties, LenProperties
  <2>7. \A i \in DOMAIN q : i \in DOMAIN requests \/ i = Len(requests) + 1
    BY <2>6
  <2>8. \A i \in DOMAIN requests : TurnRequest(i) => requests[i].turn \in 1 .. m
    <3>1. \A i \in DOMAIN requests : requests[i] \in RequestSet(m)
      BY <1>1, <2>6, ElementOfSeq DEF ProviderInv, OrderInv
    <3> QED
      BY <3>1 DEF RequestSet, TurnRequest
  <2>9. \A i \in DOMAIN sent : sent[i] \in 1 .. m
    BY <1>1, LenProperties, ElementOfSeq DEF ProviderInv, OrderInv
  <2>10. job["reactor"].kind = "turn" => job["reactor"].turn \in 0 .. m
    BY <1>1 DEF ProviderInv, JobInv, JobSet, Proc
  <2>11. \A i \in DOMAIN q :
           IF i \in DOMAIN requests THEN q[i] = requests[i] /\ (q[i].kind = "turn" => q[i].turn < m + 1)
           ELSE i = Len(requests) + 1 /\ (q[i].kind = "turn" => q[i].turn = m + 1)
    <3>1. r.kind = "turn" => r.turn = m + 1
      BY <1>3, <2>3
    <3>2. \A i \in DOMAIN requests : requests[i].kind = "turn" => requests[i].turn < m + 1
      BY <2>8 DEF TurnRequest
    <3> QED
      BY <2>6, <2>7, <3>1, <3>2
  <2>12. \A i, j \in DOMAIN q : i < j /\ q[i].kind = "turn" /\ q[j].kind = "turn"
                                  => q[i].turn < q[j].turn
    <3>1. TAKE i, j \in DOMAIN q
    <3>2. HAVE i < j /\ q[i].kind = "turn" /\ q[j].kind = "turn"
    <3>3. CASE j \in DOMAIN requests
      <4>1. i \in DOMAIN requests
        BY <2>6, <3>2, <3>3
      <4> QED
        BY <2>11, <3>2, <3>3, <4>1 DEF ProviderInv, OrderInv, TurnRequest
    <3>4. CASE j \notin DOMAIN requests
      <4>1. i \in DOMAIN requests
        BY <2>6, <2>7, <3>2, <3>4
      <4> QED
        BY <2>11, <3>2, <3>4, <4>1
    <3> QED
      BY <3>3, <3>4
  <2>13. \A j \in DOMAIN q : q[j].kind = "turn" =>
           /\ \A i \in DOMAIN sent : sent[i] < q[j].turn
           /\ job["reactor"].kind = "turn" => job["reactor"].turn < q[j].turn
    <3>1. TAKE j \in DOMAIN q
    <3>2. HAVE q[j].kind = "turn"
    <3>3. CASE j \in DOMAIN requests
      BY <2>11, <3>2, <3>3 DEF ProviderInv, OrderInv, TurnRequest
    <3>4. CASE j \notin DOMAIN requests
      BY <2>9, <2>10, <2>11, <3>2, <3>4
    <3> QED
      BY <3>3, <3>4
  <2>14. SentInOrder'
    BY <1>4 DEF ProviderInv, OrderInv, SentInOrder
  <2>15. sent' = sent /\ job' = job
    BY <1>4
  <2>16. job["reactor"].kind = "turn" /\ job["reactor"].step # "answer" =>
           \A i \in DOMAIN sent : sent[i] < job["reactor"].turn
    BY DEF ProviderInv, OrderInv
  <2> QED
    BY <1>2, <2>1, <2>5, <2>6, <2>12, <2>13, <2>14, <2>15, <2>16 DEF OrderInv, TurnRequest
<1> QED
  BY <1>7, <1>8, <1>9, <1>10, <1>11, <1>13, <1>12 DEF ProviderInv

LEMMA AsksKeep ==
    ProviderInv /\ (StartTurn \/ SetMode \/ CallSession \/ StopSession) => ProviderInv'
BY AskKeeps DEF StartTurn, SetMode, CallSession, StopSession, ProviderInv, HistoryInv

LEMMA RevertKeeps == ProviderInv /\ Revert => ProviderInv'
<1> SUFFICES ASSUME ProviderInv, Revert PROVE ProviderInv'
  OBVIOUS
<1>1. "revert" \in Proc /\ asked'.turns = asked.turns
  BY DEF Proc, Revert, ProviderInv, HistoryInv
<1>2. PICK d : d = [Idle EXCEPT !.kind = "rollback", !.step = "route"]
  OBVIOUS
<1>3. d \in JobSet(asked.turns) /\ d.kind = "rollback" /\ d.step = "route"
  <2>1. Idle \in JobSet(asked.turns)
    BY IdleIsJob DEF ProviderInv
  <2> QED
    BY <1>2, <2>1 DEF JobSet
<1>4. job' = [job EXCEPT !["revert"] = d] /\ job["revert"].step = "idle"
  BY <1>2 DEF Revert, Idle
<1>5. JobInv' /\ GoesOn
  BY <1>1, <1>3, <1>4, JobChanges
<1>6. HistoryInv' /\ UNCHANGED <<session, sent, lost, failed, requests, ingest>>
  BY DEF Revert, ProviderInv, HistoryInv, readModel
<1> QED
  BY <1>1, <1>5, <1>6, AdapterStands, StepKeepsInv DEF Revert

LEMMA BeginKeeps == ProviderInv /\ Begin => ProviderInv'
<1> SUFFICES ASSUME ProviderInv, Begin PROVE ProviderInv'
  OBVIOUS
<1>1. PICK r : r = requests[1]
  OBVIOUS
<1>2. PICK q : q = requests'
  OBVIOUS
<1>3. /\ r \in RequestSet(asked.turns) /\ Len(requests) \in Nat \ {0}
      /\ q \in Seq(RequestSet(asked.turns)) /\ Len(q) = Len(requests) - 1
      /\ \A i \in 1 .. Len(requests) - 1 : q[i] = requests[i + 1]
  <2>1. requests' = RemoveAt(requests, 1)
    BY DEF Begin, NextIndex
  <2> QED
    BY <1>1, <1>2, <2>1, TakesFirst DEF Begin, ProviderInv, OrderInv
<1>4. PICK j : job' = [job EXCEPT !["reactor"] = j] /\
               \/ j = Idle
               \/ \E step \in {"ensure", "route", "stop", "stopped"} :
                    j = [Idle EXCEPT !.kind = r.kind, !.turn = r.turn, !.step = step,
                                     !.mode = runtimeMode, !.bound = Bound(session),
                                     !.changed = (runtimeMode # session.mode)]
  <2>1. r.kind \in {"turn", "mode", "call", "stop"}
    BY <1>3 DEF RequestSet
  <2> QED
    BY <1>1, <2>1 DEF Begin, NextIndex
<1>5. j \in JobSet(asked.turns) /\ (j = Idle \/ (j.kind = r.kind /\ j.turn = r.turn))
      /\ (j.step = "ensure" => j.mode \in Mode)
      /\ j.step \in {"idle", "ensure", "route", "stop", "stopped"}
  <2>1. Idle \in JobSet(asked.turns) /\ Idle.step = "idle"
    BY IdleIsJob DEF ProviderInv
  <2>2. r.kind \in {"turn", "mode", "call", "stop"} /\ r.turn \in 0 .. asked.turns
    BY <1>3, Known DEF RequestSet, ProviderInv, NoTurn
  <2>3. runtimeMode \in Mode /\ Bound(session) \in BOOLEAN
    BY DEF ProviderInv, HistoryInv, Bound
  <2>4. CASE j = Idle
    BY <2>1, <2>4
  <2>5. ASSUME NEW step \in {"ensure", "route", "stop", "stopped"},
               j = [Idle EXCEPT !.kind = r.kind, !.turn = r.turn, !.step = step,
                                !.mode = runtimeMode, !.bound = Bound(session),
                                !.changed = (runtimeMode # session.mode)]
        PROVE  /\ j \in JobSet(asked.turns) /\ j.kind = r.kind /\ j.turn = r.turn
               /\ j.step = step /\ j.mode = runtimeMode
    <3>1. PICK c \in BOOLEAN : c = (runtimeMode # session.mode)
      OBVIOUS
    <3>2. PICK b \in BOOLEAN : b = Bound(session)
      BY <2>3
    <3>3. j = [Idle EXCEPT !.kind = r.kind, !.turn = r.turn, !.step = step,
                           !.mode = runtimeMode, !.bound = b, !.changed = c]
      BY <2>5, <3>1, <3>2
    <3> QED
      BY <2>1, <2>2, <2>3, <3>3 DEF JobSet
  <2> QED
    BY <1>4, <2>1, <2>3, <2>4, <2>5
<1>6. "reactor" \in Proc /\ job["reactor"] = Idle /\ asked' = asked
      /\ UNCHANGED <<adapter, readModel, binding, ingest, sent, failed, lost>>
  BY DEF Begin, Proc
<1>7. job \in [Proc -> JobSet(asked.turns)] /\ job'["reactor"] = j
      /\ \A p \in Proc : p # "reactor" => job'[p] = job[p]
  BY <1>4, <1>6 DEF ProviderInv, JobInv
<1>8. r.kind = "turn" => r.turn \in 1 .. asked.turns /\ r.turn # NoTurn
  BY <1>3 DEF RequestSet, NoTurn
<1>9. Idle.kind = "idle" /\ Idle.step = "idle"
  BY DEF Idle
<1>10. JobInv'
  BY <1>4, <1>5, <1>6, <1>7, <1>8, <1>9 DEF ProviderInv, JobInv
<1>11. HistoryInv' /\ ContextInv' /\ AdapterStep /\ Calm
  BY <1>6, AdapterStands DEF ProviderInv, HistoryInv, readModel
<1>12. ReadInv' /\ GhostInv'
  BY <1>6, <1>11, AdapterKeepsGhost DEF ProviderInv, readModel
<1>13. WorkInv'
  <2>1. \A s, t : ~Prompts(s, t)
    BY <1>6, <1>9 DEF Prompts, At
  <2> QED
    BY <1>6, <2>1 DEF ProviderInv, WorkInv, adapter
<1>14. OrderInv'
  <2>1. /\ DOMAIN requests = 1 .. Len(requests) /\ DOMAIN q = 1 .. Len(requests) - 1
        /\ \A i \in DOMAIN q : i + 1 \in DOMAIN requests /\ 1 < i + 1 /\ q[i] = requests[i + 1]
        /\ 1 \in DOMAIN requests
    <3>1. DOMAIN requests = 1 .. Len(requests) /\ DOMAIN q = 1 .. Len(q)
      BY <1>3, LenProperties DEF ProviderInv, OrderInv
    <3> QED
      BY <1>3, <3>1
  <2>2. \A i, k \in DOMAIN q : i < k /\ q[i].kind = "turn" /\ q[k].kind = "turn"
                                 => q[i].turn < q[k].turn
    <3>1. TAKE i, k \in DOMAIN q
    <3>2. HAVE i < k /\ q[i].kind = "turn" /\ q[k].kind = "turn"
    <3>3. i + 1 \in DOMAIN requests /\ k + 1 \in DOMAIN requests /\ i + 1 < k + 1
      BY <2>1, <3>2
    <3> QED
      BY <2>1, <3>2, <3>3 DEF ProviderInv, OrderInv, TurnRequest
  <2>3. \A k \in DOMAIN q : q[k].kind = "turn" =>
          /\ \A i \in DOMAIN sent : sent[i] < q[k].turn
          /\ j.kind = "turn" => j.turn < q[k].turn
    <3>1. TAKE k \in DOMAIN q
    <3>2. HAVE q[k].kind = "turn"
    <3>3. j.kind = "turn" => r.kind = "turn" /\ j.turn = r.turn
      BY <1>5, <1>9
    <3> QED
      BY <1>1, <2>1, <3>2, <3>3 DEF ProviderInv, OrderInv, TurnRequest
  <2>4. j.kind = "turn" => \A i \in DOMAIN sent : sent[i] < j.turn
    BY <1>1, <1>5, <1>9, <2>1 DEF ProviderInv, OrderInv, TurnRequest
  <2>5. SentInOrder'
    BY <1>6 DEF ProviderInv, OrderInv, SentInOrder
  <2>6. sent \in Seq(1 .. asked.turns)
    BY DEF ProviderInv, OrderInv
  <2> QED
    BY <1>2, <1>3, <1>6, <1>7, <2>2, <2>3, <2>4, <2>5, <2>6 DEF OrderInv, TurnRequest
<1> QED
  BY <1>10, <1>11, <1>12, <1>14, <1>13 DEF ProviderInv

(* The turn the reactor is about to send is the next one sent.                 *)
LEMMA NextIsSent ==
    ASSUME ProviderInv, NEW t, t = job["reactor"].turn, job["reactor"].kind = "turn",
           job["reactor"].step # "answer", sent' = Append(sent, t), requests' = requests,
           asked'.turns = asked.turns,
           job'["reactor"].kind = "turn" =>
             job'["reactor"].step = "answer" /\ job'["reactor"].turn = t
    PROVE  OrderInv'
<1>1. t \in 1 .. asked.turns /\ asked.turns \in Nat
  BY Known DEF ProviderInv, JobInv, JobSet, Proc, NoTurn
<1>2. PICK q : q = sent'
  OBVIOUS
<1>3. /\ q \in Seq(1 .. asked.turns) /\ Len(sent) \in Nat
      /\ DOMAIN sent = 1 .. Len(sent) /\ DOMAIN q = 1 .. Len(sent) + 1
      /\ q[Len(sent) + 1] = t /\ \A i \in DOMAIN sent : q[i] = sent[i]
  <2>1. sent \in Seq(1 .. asked.turns) /\ q = Append(sent, t)
    BY <1>2 DEF ProviderInv, OrderInv
  <2> QED
    BY <1>1, <2>1, AppendProperties, LenProperties
<1>4. \A i \in DOMAIN sent : sent[i] < t /\ sent[i] \in Nat
  <2>1. \A i \in DOMAIN sent : sent[i] \in 1 .. asked.turns
    BY <1>3, ElementOfSeq DEF ProviderInv, OrderInv
  <2> QED
    BY <1>1, <2>1 DEF ProviderInv, OrderInv
<1>5. \A i \in DOMAIN q : IF i \in DOMAIN sent THEN q[i] = sent[i] ELSE i = Len(sent) + 1 /\ q[i] = t
  BY <1>3
<1>6. \A i, j \in DOMAIN q : i < j => q[i] < q[j]
  <2>1. TAKE i, j \in DOMAIN q
  <2>2. HAVE i < j
  <2>3. i \in DOMAIN sent
    BY <1>3, <2>2
  <2> QED
    BY <1>4, <1>5, <2>2, <2>3 DEF ProviderInv, OrderInv, SentInOrder
<1>7. \A j \in DOMAIN requests : TurnRequest(j) =>
         /\ \A i \in DOMAIN q : q[i] < requests[j].turn
         /\ t < requests[j].turn
  BY <1>5 DEF ProviderInv, OrderInv
<1>8. requests \in Seq(RequestSet(asked.turns)) /\
       \A i, j \in DOMAIN requests :
         i < j /\ TurnRequest(i) /\ TurnRequest(j) => requests[i].turn < requests[j].turn
  BY DEF ProviderInv, OrderInv
<1>9. SentInOrder'
  BY <1>2, <1>6 DEF SentInOrder
<1> QED
  BY <1>2, <1>3, <1>7, <1>8, <1>9 DEF OrderInv, TurnRequest

LEMMA DeliverTurnKeeps == ProviderInv /\ DeliverTurn => ProviderInv'
<1> SUFFICES ASSUME ProviderInv, DeliverTurn PROVE ProviderInv'
  OBVIOUS
<1>1. PICK t : t = job["reactor"].turn
  OBVIOUS
<1>2. /\ "reactor" \in Proc /\ job["reactor"] \in JobSet(asked.turns)
      /\ job["reactor"].step = "deliver" /\ job["reactor"].kind = "turn"
      /\ asked' = asked /\ asked.turns \in Nat /\ t \in 1 .. asked.turns /\ HasSession
      /\ UNCHANGED <<readModel, binding, requests, ingest, asked, failed, lost>>
  BY <1>1, Known DEF DeliverTurn, At, Proc, ProviderInv, JobInv, JobSet, NoTurn
<1>3. PICK step \in {"switch", "answer"} :
        job' = [job EXCEPT !["reactor"].step = step, !["reactor"].made = registered]
  BY DEF DeliverTurn
<1>4. PICK d : d = [job["reactor"] EXCEPT !.step = step, !.made = registered]
  OBVIOUS
<1>5. job' = [job EXCEPT !["reactor"] = d] /\ job'["reactor"] = d
  BY <1>2, <1>3, <1>4 DEF ProviderInv, JobInv
<1>6. /\ d \in JobSet(asked.turns) /\ d.step = step /\ d.made \in Session
      /\ d.kind = "turn" /\ d.turn = t
  <2>1. registered \in Session
    BY <1>2 DEF ProviderInv, ContextInv, HasSession
  <2> QED
    BY <1>1, <1>2, <1>4, <2>1 DEF JobSet
<1>7. JobInv' /\ GoesOn
  BY <1>1, <1>2, <1>5, <1>6, JobChanges
<1>8. \/ step = "switch" /\ ClosePrevious /\ sent' = sent
      \/ step = "answer" /\ CodexRequest(t) /\ sent' = Append(sent, t)
  <2>1. At("reactor", "switch")' = (step = "switch")
    BY <1>5, <1>6 DEF At
  <2> QED
    BY <1>1, <2>1 DEF DeliverTurn
<1>9. ContextInv' /\ AdapterStep /\ Calm
  BY <1>2, <1>8, ClosePreviousIs, CodexRequestIs DEF ProviderInv
<1>10. HistoryInv'
  BY <1>2 DEF ProviderInv, HistoryInv, readModel
<1>11. CASE sent' = sent
  BY <1>2, <1>7, <1>9, <1>10, <1>11, StepKeepsInv DEF readModel
<1>12. CASE step = "answer" /\ sent' = Append(sent, t)
  <2>1. OrderInv'
    BY <1>1, <1>2, <1>5, <1>6, <1>12, NextIsSent
  <2>2. ReadInv' /\ GhostInv' /\ WorkInv'
    BY <1>2, <1>7, <1>9, AdapterKeepsGhost, WorkStands DEF ProviderInv, readModel
  <2> QED
    BY <1>7, <1>9, <1>10, <2>1, <2>2 DEF ProviderInv
<1> QED
  BY <1>8, <1>11, <1>12

(* The turn starts and is to be told to the agent.                             *)
LEMMA TurnBeginsKeeps == ProviderInv /\ TurnBegins => ProviderInv'
<1> SUFFICES ASSUME ProviderInv, TurnBegins PROVE ProviderInv'
  OBVIOUS
<1>1. PICK t, s : t = job["reactor"].turn /\ s = job["reactor"].made
  OBVIOUS
<1>2. /\ "reactor" \in Proc /\ job["reactor"] \in JobSet(asked.turns)
      /\ job["reactor"].step = "switch" /\ job["reactor"].kind = "turn" /\ s \in Session
      /\ asked' = asked /\ asked.turns \in Nat /\ t \in 1 .. asked.turns
      /\ UNCHANGED <<readModel, binding, requests, ingest, history>>
  BY <1>1, Known DEF TurnBegins, At, Proc, ProviderInv, JobInv, JobSet, NoTurn, history
<1>3. /\ ContextInv' /\ AdapterStep /\ provider' = provider
      /\ \A r \in Session : r # s => context'[r] = context[r]
      /\ context'[s] = context[s] \/ context'[s].turns = {t}
  BY <1>1, <1>2, ClaudeTurnIs DEF TurnBegins, ProviderInv
<1>4. PICK d : d = [job["reactor"] EXCEPT !.step = "prompt"]
  OBVIOUS
<1>5. job' = [job EXCEPT !["reactor"] = d] /\ job'["reactor"] = d
      /\ \A p \in Proc : p # "reactor" => job'[p] = job[p]
  BY <1>2, <1>4 DEF TurnBegins, Go, ProviderInv, JobInv
<1>6. /\ d \in JobSet(asked.turns) /\ d.step = "prompt" /\ d.made = s
      /\ d.kind = "turn" /\ d.turn = t /\ t # NoTurn
  BY <1>1, <1>2, <1>4 DEF JobSet, NoTurn
<1>7. JobInv'
  BY <1>2, <1>5, <1>6 DEF ProviderInv, JobInv
<1>8. GoesOn
  BY <1>1, <1>2, <1>5, <1>6 DEF GoesOn
<1>9. HistoryInv'
  BY <1>2 DEF ProviderInv, HistoryInv, readModel, history
<1>10. ReadInv' /\ GhostInv' /\ OrderInv'
  BY <1>2, <1>3, <1>8, AdapterKeepsGhost, OrderStands DEF ProviderInv, readModel, history
<1>11. WorkInv'
  <2> SUFFICES ASSUME NEW r \in Session, NEW u \in context'[r].turns
               PROVE  \/ u \in failed' \cup Background \/ provider' = "codex"
                      \/ context'[r].prompts > 0 \/ Prompts(r, u)'
    BY DEF WorkInv
  <2>1. CASE context'[r] = context[r]
    <3>1. \/ u \in failed \cup Background \/ provider = "codex"
          \/ context[r].prompts > 0 \/ Prompts(r, u)
      BY <2>1 DEF ProviderInv, WorkInv
    <3>2. ~Prompts(r, u)
      BY <1>2 DEF Prompts, At
    <3> QED
      BY <1>2, <1>3, <2>1, <3>1, <3>2 DEF history
  <2>2. CASE r = s /\ u = t
    BY <1>5, <1>6, <2>2 DEF Prompts, At
  <2> QED
    BY <1>3, <2>1, <2>2
<1> QED
  BY <1>3, <1>7, <1>9, <1>10, <1>11 DEF ProviderInv

(* The agent is told, and the turn is sent, unless the context was stopped.    *)
LEMMA SendPromptKeeps == ProviderInv /\ SendPrompt => ProviderInv'
<1> SUFFICES ASSUME ProviderInv, SendPrompt PROVE ProviderInv'
  OBVIOUS
<1>1. PICK t, s : t = job["reactor"].turn /\ s = job["reactor"].made
  OBVIOUS
<1>2. /\ "reactor" \in Proc /\ job["reactor"] \in JobSet(asked.turns)
      /\ job["reactor"].step = "prompt" /\ job["reactor"].kind = "turn" /\ s \in Session
      /\ asked' = asked /\ asked.turns \in Nat /\ t \in 1 .. asked.turns
      /\ UNCHANGED <<readModel, binding, requests, ingest, asked, failed, lost>>
  BY <1>1, Known DEF SendPrompt, At, Proc, ProviderInv, JobInv, JobSet, NoTurn
<1>3. /\ ContextInv' /\ AdapterStep /\ provider' = provider
      /\ \A r \in Session : context'[r].turns = context[r].turns
      /\ \A r \in Session : r # s => context'[r] = context[r]
      /\ context[s].turns # {} => context'[s].prompts > 0
  BY <1>1, <1>2, PromptIs DEF SendPrompt, ProviderInv
<1>4. /\ job' = [job EXCEPT !["reactor"] = Idle] /\ job'["reactor"] = Idle
      /\ \A p \in Proc : p # "reactor" => job'[p] = job[p]
  BY <1>2 DEF SendPrompt, Done, ProviderInv, JobInv
<1>5. Idle \in JobSet(asked.turns) /\ Idle.step = "idle" /\ Idle.kind = "idle"
  BY IdleIsJob DEF ProviderInv
<1>6. JobInv'
  BY <1>2, <1>4, <1>5 DEF ProviderInv, JobInv
<1>7. HistoryInv'
  BY <1>2 DEF ProviderInv, HistoryInv, readModel
<1>8. ReadInv' /\ GhostInv'
  BY <1>2, <1>3, AdapterKeepsGhost DEF ProviderInv, readModel
<1>9. OrderInv'
  <2>1. CASE sent' = Append(sent, t)
    BY <1>1, <1>2, <1>4, <1>5, <2>1, NextIsSent
  <2>2. CASE sent' = sent
    <3>1. SentInOrder' /\ \A i \in DOMAIN requests : TurnRequest(i)' = TurnRequest(i)
      BY <1>2, <2>2 DEF ProviderInv, OrderInv, SentInOrder, TurnRequest
    <3> QED
      BY <1>2, <1>4, <1>5, <2>2, <3>1 DEF ProviderInv, OrderInv, TurnRequest
  <2> QED
    BY <1>1, <2>1, <2>2 DEF SendPrompt
<1>10. WorkInv'
  <2> SUFFICES ASSUME NEW r \in Session, NEW u \in context'[r].turns
               PROVE  \/ u \in failed' \cup Background \/ provider' = "codex"
                      \/ context'[r].prompts > 0 \/ Prompts(r, u)'
    BY DEF WorkInv
  <2>1. u \in context[r].turns
    BY <1>3
  <2>2. CASE r = s
    BY <1>3, <2>1, <2>2
  <2>3. CASE r # s
    <3>1. \/ u \in failed \cup Background \/ provider = "codex"
          \/ context[r].prompts > 0 \/ Prompts(r, u)
      BY <2>1 DEF ProviderInv, WorkInv
    <3>2. ~Prompts(r, u)
      BY <1>1, <2>3 DEF Prompts
    <3> QED
      BY <1>2, <1>3, <2>3, <3>1, <3>2
  <2> QED
    BY <2>2, <2>3
<1> QED
  BY <1>3, <1>6, <1>7, <1>8, <1>9, <1>10 DEF ProviderInv

(* The turn that was to be told is reported as failed.                         *)
LEMMA SendFailsKeeps == ProviderInv /\ SendFails => ProviderInv'
<1> SUFFICES ASSUME ProviderInv, SendFails PROVE ProviderInv'
  OBVIOUS
<1>1. PICK t : t = job["reactor"].turn
  OBVIOUS
<1>2. /\ "reactor" \in Proc /\ job["reactor"] \in JobSet(asked.turns)
      /\ job["reactor"].step \in {"switch", "prompt"} /\ job["reactor"].kind = "turn"
      /\ asked.turns \in Nat /\ t \in 1 .. asked.turns
  BY <1>1, Known DEF SendFails, Proc, ProviderInv, JobInv, JobSet, NoTurn
<1>3. /\ UNCHANGED <<adapter, readModel, binding, requests, ingest, asked, sent, lost>>
      /\ failed' = failed \cup {t} /\ Done("reactor")
  BY <1>1, <1>2 DEF SendFails, Fail
<1>4. /\ job' = [job EXCEPT !["reactor"] = Idle] /\ job'["reactor"] = Idle
      /\ \A p \in Proc : p # "reactor" => job'[p] = job[p]
  BY <1>2, <1>3 DEF Done, ProviderInv, JobInv
<1>5. Idle \in JobSet(asked.turns) /\ Idle.step = "idle" /\ Idle.kind = "idle"
  BY IdleIsJob DEF ProviderInv
<1>6. JobInv'
  BY <1>3, <1>4, <1>5 DEF ProviderInv, JobInv
<1>7. HistoryInv'
  BY <1>2, <1>3 DEF ProviderInv, HistoryInv, readModel
<1>8. ContextInv' /\ AdapterStep /\ Calm
  BY <1>3, AdapterStands
<1>9. ReadInv' /\ GhostInv'
  BY <1>3, <1>8, AdapterKeepsGhost DEF ProviderInv, readModel
<1>10. OrderInv'
  <2>1. SentInOrder' /\ \A i \in DOMAIN requests : TurnRequest(i)' = TurnRequest(i)
    BY <1>3 DEF ProviderInv, OrderInv, SentInOrder, TurnRequest
  <2> QED
    BY <1>3, <1>4, <1>5, <2>1 DEF ProviderInv, OrderInv, TurnRequest
<1>11. WorkInv'
  <2> SUFFICES ASSUME NEW r \in Session, NEW u \in context'[r].turns
               PROVE  \/ u \in failed' \cup Background \/ provider' = "codex"
                      \/ context'[r].prompts > 0 \/ Prompts(r, u)'
    BY DEF WorkInv
  <2>1. \/ u \in failed \cup Background \/ provider = "codex"
        \/ context[r].prompts > 0 \/ Prompts(r, u)
    BY <1>3 DEF ProviderInv, WorkInv, adapter
  <2>2. Prompts(r, u) => u = t
    BY <1>1 DEF Prompts
  <2> QED
    BY <1>3, <2>1, <2>2 DEF adapter
<1> QED
  BY <1>6, <1>7, <1>8, <1>9, <1>10, <1>11 DEF ProviderInv

LEMMA IngestReadKeeps == ProviderInv /\ IngestRead => ProviderInv'
<1> SUFFICES ASSUME ProviderInv, IngestRead PROVE ProviderInv'
  OBVIOUS
<1>1. PICK e : e = Head(runtimeEvents)
  OBVIOUS
<1>2. PICK q : q = runtimeEvents
  OBVIOUS
<1>3. /\ q \in Seq(EventSet(Seen)) /\ q # <<>> /\ runtimeEvents' = Tail(q)
      /\ e = Head(q) /\ ingest' = [event |-> e, session |-> session] /\ ingest = Reading
      /\ UNCHANGED <<provider, context, registered, begun, stranded>>
      /\ UNCHANGED <<readModel, binding, requests, job, history>> /\ Seen' = Seen
  BY <1>1, <1>2, SeenStays DEF IngestRead, ProviderInv, ReadInv, history
<1>4. /\ e \in EventSet(Seen) /\ Tail(q) \in Seq(EventSet(Seen))
      /\ Len(q) \in Nat \ {0} /\ Len(Tail(q)) = Len(q) - 1 /\ e = q[1]
      /\ \A i \in 1 .. Len(Tail(q)) : Tail(q)[i] = q[i + 1]
  BY <1>3, EmptySeq, HeadTailProperties
<1>5. ContextInv' /\ JobInv' /\ HistoryInv'
  BY <1>3 DEF ProviderInv, ContextInv, JobInv, HistoryInv, HasSession, Live, readModel, history
<1>6. OrderInv'
  BY <1>3, OrderStands DEF ProviderInv, GoesOn, history
<1>7. WorkInv'
  BY <1>3 DEF ProviderInv, WorkInv, Prompts, At, history
<1>8. ReadInv'
  BY <1>3, <1>4 DEF ProviderInv, ReadInv, readModel
<1>9. \A t : Runs(t)' = Runs(t)
  BY <1>3 DEF Runs
<1>10. \A t : /\ EndsAfter(q, 0, t) => e \in EndOf(t) \/ EndsAfter(Tail(q), 0, t)
             /\ \A k \in Nat : EndsAfter(q, k + 1, t) => EndsAfter(Tail(q), k, t)
  BY <1>3, EndsTail
<1>11. ingest'.event = e /\ ingest'.session = session /\ session' = session /\ lost' = lost
  BY <1>3 DEF readModel, history
<1>12. GhostInv'
  <2>1. ASSUME NEW t, t = session.turn, t \notin {NoTurn} \cup lost
        PROVE  Runs(t) \/ EndsAfter(Tail(q), 0, t) \/ e \in EndOf(t)
    <3>1. Runs(t) \/ EndsAfter(q, 0, t) \/ ingest.event \in EndOf(t)
      BY <1>2, <2>1 DEF ProviderInv, GhostInv
    <3>2. ingest.event \notin EndOf(t)
      BY <1>3 DEF Reading, EndOf, Event
    <3> QED
      BY <1>10, <3>1, <3>2
  <2>2. Opens(e) => Runs(e.turn) \/ EndsAfter(Tail(q), 0, e.turn)
    <3>1. Opens(e) => Runs(e.turn) \/ EndsAfter(q, 0 + 1, e.turn)
      BY <1>2, <1>4 DEF ProviderInv, GhostInv
    <3> QED
      BY <1>10, <3>1
  <2>3. ASSUME NEW i \in 1 .. Len(Tail(q)), NEW f, f = Tail(q)[i], Opens(f)
        PROVE  Runs(f.turn) \/ EndsAfter(Tail(q), i, f.turn)
    <3>1. i + 1 \in 1 .. Len(q) /\ f = q[i + 1] /\ i \in Nat
      BY <1>4, <2>3
    <3>2. Runs(f.turn) \/ EndsAfter(q, i + 1, f.turn)
      BY <1>2, <2>3, <3>1 DEF ProviderInv, GhostInv
    <3> QED
      BY <1>10, <3>1, <3>2
  <2>4. PICK t : t = session.turn
    OBVIOUS
  <2>5. session'.turn = t /\ ingest'.session.turn = t
    BY <1>11, <2>4
  <2> QED
    BY <1>3, <1>9, <1>11, <2>1, <2>2, <2>3, <2>4, <2>5 DEF GhostInv
<1> QED
  BY <1>5, <1>6, <1>8, <1>12, <1>7 DEF ProviderInv

(* What the ingestion makes of the thread's session.                          *)
LEMMA Dispatched ==
    ASSUME ProviderInv, IngestDispatch
    PROVE  /\ session' \in SessionSet(Seen)
           /\ \/ session' = session /\ ~Applies(ingest.event, ingest.session.turn)
              \/ /\ Applies(ingest.event, ingest.session.turn)
                 /\ session'.turn = TurnAfter(ingest.event, ingest.session.turn)
<1>1. PICK e, s : e = ingest.event /\ s = ingest.session
  OBVIOUS
<1>2. e \in EventSet(Seen) /\ s \in SessionSet(Seen)
  BY <1>1 DEF IngestDispatch, ProviderInv, ReadInv
<1>3. PICK m : m = IF s = Absent THEN DefaultMode ELSE s.mode
  OBVIOUS
<1>4. m \in Mode \cup {NoMode} /\ s.turn \in {NoTurn} \cup Seen
  BY <1>2, <1>3, ModeAssumption DEF SessionSet, Absent, NoTurn
<1>5. PICK c : c = [status |-> StatusAfter(e, s.turn), turn |-> TurnAfter(e, s.turn), mode |-> m]
  OBVIOUS
<1>6. session' = IF ~Applies(e, s.turn) THEN session ELSE c
  BY <1>1, <1>3, <1>5 DEF IngestDispatch
<1>7. c \in SessionSet(Seen)
  <2>1. CASE e.type = "connecting"
    BY <1>4, <1>5, <2>1 DEF StatusAfter, TurnAfter, SessionSet
  <2>2. CASE e.type = "ready"
    BY <1>4, <1>5, <2>2 DEF StatusAfter, TurnAfter, SessionSet
  <2>3. CASE e.type = "turn.started"
    BY <1>2, <1>4, <1>5, <2>3 DEF StatusAfter, TurnAfter, SessionSet, EventSet
  <2>4. CASE e.type \in {"completed", "failed", "exited"}
    BY <1>2, <1>4, <1>5, <2>4 DEF StatusAfter, TurnAfter, SessionSet, NoTurn
  <2>5. CASE e.type = "error"
    BY <1>2, <1>4, <1>5, <2>5 DEF StatusAfter, TurnAfter, SessionSet, EventSet, NoTurn
  <2> QED
    BY <1>2, <2>1, <2>2, <2>3, <2>4, <2>5 DEF EventSet
<1>8. session \in SessionSet(Seen)
  BY DEF ProviderInv, ReadInv
<1> QED
  BY <1>1, <1>5, <1>6, <1>7, <1>8

LEMMA IngestDispatchKeeps == ProviderInv /\ IngestDispatch => ProviderInv'
<1> SUFFICES ASSUME ProviderInv, IngestDispatch PROVE ProviderInv'
  OBVIOUS
<1>1. PICK e, s : e = ingest.event /\ s = ingest.session
  OBVIOUS
<1>2. PICK q : q = runtimeEvents
  OBVIOUS
<1>3. e \in EventSet(Seen) /\ ingest # Reading /\ ingest' = Reading /\ Seen' = Seen
      /\ UNCHANGED <<adapter, runtimeMode, binding, requests, job, history>>
  BY <1>1, SeenStays DEF IngestDispatch, ProviderInv, ReadInv, adapter, history
<1>4. /\ session' \in SessionSet(Seen)
      /\ \/ session' = session /\ ~Applies(e, s.turn)
         \/ Applies(e, s.turn) /\ session'.turn = TurnAfter(e, s.turn)
  BY <1>1, Dispatched
<1>5. ContextInv' /\ AdapterStep /\ Calm
  BY <1>3, AdapterStands DEF history
<1>6. JobInv' /\ HistoryInv' /\ ReadInv' /\ OrderInv' /\ WorkInv'
  <2>1. GoesOn
    BY <1>3 DEF GoesOn
  <2>2. OrderInv'
    BY <1>3, <2>1, OrderStands DEF ProviderInv, history
  <2>3. ReadInv'
    BY <1>3, <1>4 DEF ProviderInv, ReadInv, adapter, history
  <2> QED
    BY <1>3, <1>5, <2>1, <2>2, <2>3, WorkStands DEF ProviderInv, JobInv, HistoryInv, history
<1>7. PICK t : t = session'.turn
  OBVIOUS
<1>8. t \notin {NoTurn} \cup lost => Runs(t) \/ EndsAfter(q, 0, t)
  <2> SUFFICES ASSUME t \notin {NoTurn} \cup lost PROVE Runs(t) \/ EndsAfter(q, 0, t)
    OBVIOUS
  <2>1. \A u \in {session.turn, s.turn} : u \notin {NoTurn} \cup lost =>
          Runs(u) \/ EndsAfter(q, 0, u) \/ e \in EndOf(u)
    BY <1>1, <1>2 DEF ProviderInv, GhostInv
  <2>2. session.turn \in {NoTurn, s.turn}
    BY <1>1, <1>3 DEF ProviderInv, GhostInv
  <2>3. Opens(e) => Runs(e.turn) \/ EndsAfter(q, 0, e.turn)
    BY <1>1, <1>2 DEF ProviderInv, GhostInv
  <2>4. CASE session' = session /\ ~Applies(e, s.turn)
    <3>1. t = session.turn /\ t = s.turn
      BY <1>7, <2>2, <2>4
    <3>2. e \notin EndOf(t)
      BY <2>4, <3>1 DEF Applies, EndOf, Event
    <3> QED
      BY <2>1, <3>1, <3>2
  <2>5. CASE Applies(e, s.turn) /\ t = TurnAfter(e, s.turn)
    <3>1. CASE e.type \in {"turn.started", "error"}
      <4>1. t = e.turn /\ Opens(e)
        BY <2>5, <3>1 DEF TurnAfter, Opens
      <4> QED
        BY <2>3, <4>1
    <3>2. CASE e.type \notin {"turn.started", "error"}
      <4>1. t = s.turn /\ e.type \in {"connecting", "ready"}
        BY <1>3, <2>5, <3>2 DEF TurnAfter, EventSet
      <4>2. e \notin EndOf(t)
        BY <4>1 DEF EndOf, Event
      <4> QED
        BY <2>1, <4>1, <4>2
    <3> QED
      BY <3>1, <3>2
  <2> QED
    BY <1>4, <1>7, <2>4, <2>5
<1>9. GhostInv'
  <2>1. runtimeEvents' = q /\ lost' = lost /\ \A u : Runs(u)' = Runs(u)
    BY <1>2, <1>3 DEF adapter, history, Runs
  <2>2. ingest'.session.turn = NoTurn /\ ~Opens(ingest'.event)
    BY <1>3 DEF Reading, Absent, Opens, Event
  <2>3. Reading' = Reading
    BY DEF Reading, Event, Absent
  <2>4. \A i \in 1 .. Len(q) : Opens(q[i]) => Runs(q[i].turn) \/ EndsAfter(q, i, q[i].turn)
    BY <1>2 DEF ProviderInv, GhostInv
  <2>5. \A u \in {session'.turn, ingest'.session.turn} : u \notin {NoTurn} \cup lost' =>
          Runs(u)' \/ EndsAfter(runtimeEvents', 0, u) \/ ingest'.event \in EndOf(u)
    BY <1>7, <1>8, <2>1, <2>2
  <2>6. \A i \in 1 .. Len(runtimeEvents') : Opens(runtimeEvents'[i]) =>
          Runs(runtimeEvents[i].turn)' \/ EndsAfter(runtimeEvents', i, runtimeEvents'[i].turn)
    <3>1. ASSUME NEW i \in 1 .. Len(q), NEW f, f = q[i], Opens(f)
          PROVE  Runs(f.turn)' \/ EndsAfter(q, i, f.turn)
      BY <2>1, <2>4, <3>1
    <3> QED
      BY <2>1, <3>1
  <2> QED
    BY <1>3, <2>2, <2>3, <2>5, <2>6 DEF GhostInv
<1> QED
  BY <1>5, <1>6, <1>9 DEF ProviderInv

LEMMA RestartKeeps == ProviderInv /\ Restart => ProviderInv'
<1> SUFFICES ASSUME ProviderInv, Restart PROVE ProviderInv'
  OBVIOUS
<1>1. /\ asked.turns \in Nat /\ asked'.turns = asked.turns /\ Seen' = Seen
      /\ asked' \in [turns : {NoTurn} \cup Turn, others : Nat, restarts : Nat]
  <2>1. asked'.turns = asked.turns /\ begun' = begun
    BY DEF Restart, ProviderInv, HistoryInv
  <2> QED
    BY <2>1, Known, SeenStays DEF Restart, ProviderInv, HistoryInv
<1>2. \A s \in Session : /\ context'[s] \in ContextSet(asked.turns, Seen)
                         /\ context'[s].phase \in {"unborn", "closed"}
                         /\ context'[s].turns = {} /\ context'[s].sent = NoTurn
  <2>1. PICK u : u = Unborn
    OBVIOUS
  <2>2. u \in ContextSet(asked.turns, Seen) /\ u.phase = "unborn" /\ u.turns = {} /\ u.sent = NoTurn
    BY <1>1, <2>1, ModeAssumption DEF Unborn, ContextSet, NoTurn
  <2>3. PICK c : c = [u EXCEPT !.phase = "closed"]
    OBVIOUS
  <2>4. c \in ContextSet(asked.turns, Seen) /\ c.phase = "closed" /\ c.turns = {} /\ c.sent = NoTurn
    BY <2>2, <2>3 DEF ContextSet
  <2>5. \A s \in Session : context'[s] \in {u, c}
    BY <2>1, <2>3 DEF Restart
  <2> QED
    BY <2>2, <2>4, <2>5
<1>3. ContextInv'
  <2>1. context' \in [Session -> ContextSet(asked.turns, Seen)]
    <3>1. context' = [s \in Session |-> context'[s]]
      BY DEF Restart
    <3> QED
      BY <1>2, <3>1
  <2>2. UNCHANGED <<provider, begun, stranded>> /\ registered' = NoSession
    BY DEF Restart
  <2> QED
    BY <1>1, <1>2, <2>1, <2>2 DEF ProviderInv, ContextInv, HasSession, Live
<1>4. JobInv'
  <2>1. \A p \in Proc : job'[p] = Idle
    BY DEF Restart
  <2>2. job' \in [Proc -> JobSet(asked.turns)]
    BY IdleIsJob DEF Restart, ProviderInv
  <2> QED
    BY <1>1, <2>1, <2>2 DEF JobInv, Idle
<1>5. HistoryInv'
  <2>1. lost' = Seen /\ Seen \subseteq Turn \cup Background
    BY SeenTurns DEF Restart, Seen, ProviderInv
  <2> QED
    BY <1>1, <2>1 DEF Restart, ProviderInv, HistoryInv, readModel
<1>6. ReadInv' /\ GhostInv'
  <2>1. /\ runtimeEvents' = <<>> /\ ingest' = Reading /\ session' = session
        /\ lost' = Seen
    BY DEF Restart, Seen, readModel
  <2>2. session.turn \in {NoTurn} \cup Seen
    BY DEF ProviderInv, ReadInv, SessionSet, Absent
  <2>3. <<>> \in Seq(EventSet(Seen)) /\ Len(<<>>) = 0
    BY EmptySeq
  <2>4. ReadInv'
    BY <1>1, <2>1, <2>3 DEF ProviderInv, ReadInv, Reading, Event, Absent
  <2>5. GhostInv'
    BY <2>1, <2>2, <2>3 DEF GhostInv, Reading, Event, Absent, Opens, NoTurn
  <2> QED
    BY <2>4, <2>5
<1>7. OrderInv'
  <2>1. requests' = <<>> /\ sent' = sent /\ job'["reactor"] = Idle
    BY DEF Restart, Proc
  <2>2. requests' \in Seq(RequestSet(asked.turns)) /\ DOMAIN requests' = {}
    BY <2>1, EmptySeq
  <2>3. SentInOrder' /\ sent' \in Seq(1 .. asked.turns)
    BY <2>1 DEF ProviderInv, OrderInv, SentInOrder
  <2>4. job'["reactor"].kind = "idle"
    BY <2>1 DEF Idle
  <2> QED
    BY <1>1, <2>2, <2>3, <2>4 DEF OrderInv
<1> QED
  BY <1>2, <1>3, <1>4, <1>5, <1>6, <1>7 DEF ProviderInv, WorkInv

LEMMA ProviderStarts == Init => ProviderInv
<1> SUFFICES ASSUME Init PROVE ProviderInv
  OBVIOUS
<1>1. asked.turns = 0 /\ HistoryInv
  BY ModeAssumption DEF Init, HistoryInv, NoTurn
<1>2. ContextInv
  BY <1>1, ModeAssumption
     DEF Init, AdapterInit, ContextInv, ContextSet, Unborn, NoTurn, NoSession, HasSession, Live
<1>3. JobInv
  BY <1>1, IdleIsJob DEF Init, JobInv, Idle
<1>4. WorkInv
  BY DEF Init, AdapterInit, WorkInv, Unborn
<1>5. ReadInv
  BY EmptySeq DEF Init, AdapterInit, ReadInv, SessionSet
<1>6. OrderInv
  BY EmptySeq DEF Init, OrderInv, SentInOrder, Idle, Proc
<1>7. GhostInv
  BY EmptySeq DEF Init, AdapterInit, GhostInv, Reading, Absent, Event, Opens
<1> QED
  BY <1>1, <1>2, <1>3, <1>5, <1>6, <1>7, <1>4 DEF ProviderInv

-----------------------------------------------------------------------------
LEMMA ProviderStep == ProviderInv /\ [Next]_vars => ProviderInv'
BY AsksKeep, RevertKeeps, BeginKeeps, EnsureKeeps, BindKeeps, DeliverTurnKeeps,
   TurnBeginsKeeps, SendPromptKeeps, SendFailsKeeps, ProviderErrsKeeps,
   TurnRequestFailsKeeps, StopKeeps, StopAdapterKeeps, UnbindKeeps, SetStoppedKeeps,
   StartKeeps, StartFailsKeeps, HandshakeKeeps, HandshakeFailsKeeps, UpsertKeeps,
   RouteKeeps, RouteFailsKeeps, DeliverKeeps, DeliverFailsKeeps, TurnStartsKeeps,
   IngestReadKeeps, IngestDispatchKeeps, ProviderEndsKeeps, RestartKeeps, ProviderStutters
   DEF Next, ReactorStep, CallerStep, Ingest

LEMMA ProviderInvHolds == Spec => []ProviderInv
<1>1. Init => ProviderInv
  BY ProviderStarts
<1>2. ProviderInv /\ [Next]_vars => ProviderInv'
  BY ProviderStep
<1> QED
  BY <1>1, <1>2, PTL DEF Spec

(* Type correctness: a Claude context never runs two turns nor owes an        *)
(* acknowledgement, a context that is closed runs none, and the thread's       *)
(* session names a turn whenever it says running                              *)
(* (ClaudeAdapter.ts:2888-3007, codexAppServerManager.ts:944-964,              *)
(* ProviderRuntimeIngestion.ts:929-951).                                      *)
THEOREM ProviderTypes == Spec => []TypeOK
<1>1. ProviderInv => TypeOK
  <2> SUFFICES ASSUME ProviderInv PROVE TypeOK
    OBVIOUS
  <2>1. /\ asked.turns \in Nat /\ 1 .. asked.turns \subseteq Turn
        /\ Seen \subseteq Turn \cup Background /\ NoTurn \notin Seen
    BY Known, SeenTurns DEF ProviderInv
  <2>2. 0 .. asked.turns \subseteq Turn \cup {NoTurn}
    BY <2>1 DEF NoTurn
  <2>3. context \in [Session -> [phase : {"unborn", "starting", "open", "closed"},
                                 mode : Mode, turns : SUBSET (Turn \cup Background),
                                 sent : Turn \cup {NoTurn}, prompts : Nat]]
    BY <2>1, <2>2 DEF ProviderInv, ContextInv, ContextSet
  <2>4. \A i \in DOMAIN runtimeEvents :
          /\ runtimeEvents[i].type \in EventType
          /\ runtimeEvents[i].turn \in Turn \cup Background \cup {NoTurn}
    <3>1. \A i \in DOMAIN runtimeEvents : runtimeEvents[i] \in EventSet(Seen)
      BY LenProperties, ElementOfSeq DEF ProviderInv, ReadInv
    <3> QED
      BY <2>1, <3>1 DEF EventSet, EventType
  <2>5. \A s \in Session : provider = "claudeAgent" => Cardinality(context[s].turns) <= 1
    <3>1. Cardinality({}) <= 1 /\ \A t : Cardinality({t}) <= 1
      BY FS_EmptySet, FS_Singleton
    <3>2. ASSUME NEW s \in Session, provider = "claudeAgent", NEW T, T = context[s].turns
          PROVE  T = {} \/ \E t : T = {t}
      BY <3>2 DEF ProviderInv, ContextInv
    <3> QED
      BY <3>1, <3>2
  <2>6. AdapterTypeOK
    BY <2>1, <2>3, <2>4, <2>5 DEF AdapterTypeOK, ProviderInv, ContextInv
  <2>7. /\ session.turn \in Turn \cup Background \cup {NoTurn} /\ session.mode \in Mode \cup {NoMode}
        /\ session.status = "running" => session.turn # NoTurn
        /\ (session = Absent) = (session.status = "none")
    <3>1. CASE session = Absent
      BY <3>1 DEF Absent
    <3>2. CASE session # Absent
      <4>1. /\ session.turn \in {NoTurn} \cup Seen /\ session.mode \in Mode \cup {NoMode}
            /\ session.status # "none"
            /\ session.status = "running" => session.turn \in Seen
        BY <3>2 DEF ProviderInv, ReadInv, SessionSet
      <4> QED
        BY <2>1, <3>2, <4>1
    <3> QED
      BY <3>1, <3>2
  <2>8. \A p \in Proc : job[p].made \in Session \cup {NoSession}
    BY DEF ProviderInv, JobInv, JobSet
  <2> QED
    BY <2>1, <2>6, <2>7, <2>8 DEF TypeOK, ProviderInv, HistoryInv
<1> QED
  BY <1>1, ProviderInvHolds, PTL

(* Through restarts, recoveries and timeouts turns reach a provider in the     *)
(* order the user asked for them, each at most once                           *)
(* (ProviderCommandReactor.ts:586-606, ProviderService.ts:379-451).            *)
THEOREM TurnsAreSentInOrder == Spec => []SentInOrder
<1>1. ProviderInv => SentInOrder
  BY DEF ProviderInv, OrderInv
<1> QED
  BY <1>1, ProviderInvHolds, PTL

(* No interleaving of the reactor, the adapters, a send that fails half way    *)
(* and the ingestion's stale reads leaves a thread with a turn nobody will     *)
(* close, but for the turns a restart cuts off and those a context will never  *)
(* name again; whose turn a living context runs is at work on it, unless the   *)
(* turn was reported as failed or its agent began it                           *)
(* (ProviderRuntimeIngestion.ts:875-994, ClaudeAdapter.ts:2888-3007).          *)
THEOREM NoGhostTurnStays == Spec => []NoGhostTurn
<1>1. ProviderInv => NoGhostTurn
  <2> SUFFICES ASSUME ProviderInv, NEW t, t = session.turn,
                      t \notin {NoTurn} \cup lost \cup stranded
               PROVE  \/ Ending(t)
                      \/ \E s \in Session : Live(s) /\ t \in context[s].turns
                                             /\ (AtWork(s) \/ t \in failed \cup Background)
    BY DEF NoGhostTurn
  <2>1. PICK q : q = runtimeEvents
    OBVIOUS
  <2>2. Runs(t) \/ EndsAfter(q, 0, t) \/ ingest.event \in EndOf(t)
    BY <2>1 DEF ProviderInv, GhostInv
  <2>3. DOMAIN q = 1 .. Len(q)
    BY <2>1, LenProperties DEF ProviderInv, ReadInv
  <2>4. EndsAfter(q, 0, t) => \E i \in DOMAIN q : q[i] \in EndOf(t)
    BY <2>3 DEF EndsAfter
  <2>5. CASE Runs(t)
    <3>1. PICK s \in Session : t \in context[s].turns
      BY <2>5 DEF Runs
    <3>2. Live(s)
      BY <3>1 DEF ProviderInv, ContextInv
    <3>3. \/ t \in failed \cup Background \/ provider = "codex"
          \/ context[s].prompts > 0 \/ Prompts(s, t)
      BY <3>1 DEF ProviderInv, WorkInv
    <3> QED
      BY <3>1, <3>2, <3>3 DEF AtWork, Prompts
  <2> QED
    BY <2>1, <2>2, <2>4, <2>5 DEF Ending
<1> QED
  BY <1>1, ProviderInvHolds, PTL

(* What may clear the active turn, or replace it.                              *)
LEMMA TurnLeaves ==
    ASSUME ProviderInv, [Next]_vars, session.turn # NoTurn, session'.turn # session.turn
    PROVE  \/ job["reactor"].step \in {"bind", "stopped"}
           \/ ingest.event \in EndOf(session.turn) \cup {Event("error", NoTurn)}
<1>1. session' # session
  OBVIOUS
<1>2. Bind \/ SetStopped \/ IngestDispatch
  BY <1>1 DEF vars, readModel, adapter, history, Next, ReactorStep, CallerStep, Ingest,
     StartTurn, SetMode, CallSession, StopSession, Ask, Revert, Begin, Ensure, DeliverTurn,
     TurnRequestFails, Stop, StopAdapter, Unbind, Start, StartFails, Handshake,
     HandshakeFails, Upsert, Route, RouteFails, Deliver, DeliverFails, TurnStarts,
     IngestRead, ProviderEnds, Restart, TurnBegins, SendPrompt, SendFails, ProviderErrs
<1>3. CASE Bind
  BY <1>3 DEF Bind, At
<1>4. CASE SetStopped
  BY <1>4 DEF SetStopped, At
<1>5. CASE IngestDispatch
  <2>1. PICK e, t : e = ingest.event /\ t = session.turn
    OBVIOUS
  <2>2. e \in EventSet(Seen) /\ t # NoTurn /\ ingest.session.turn = t
    BY <1>5, <2>1 DEF IngestDispatch, ProviderInv, ReadInv, GhostInv
  <2>3. Applies(e, t) /\ TurnAfter(e, t) # t
    BY <1>5, <2>1, <2>2, Dispatched
  <2>4. CASE e.type \in {"connecting", "ready", "turn.started"}
    BY <2>2, <2>3, <2>4 DEF Applies, TurnAfter
  <2>5. CASE e.type \in {"completed", "failed"}
    <3>1. e.turn = t
      BY <2>2, <2>3, <2>5 DEF Applies
    <3>2. e = Event(e.type, t)
      BY <2>2, <2>5, <3>1 DEF EventSet, Event
    <3> QED
      BY <2>1, <2>5, <3>2 DEF EndOf
  <2>6. CASE e.type = "exited"
    <3>1. e = Event("exited", NoTurn)
      BY <2>2, <2>6 DEF EventSet, Event
    <3> QED
      BY <2>1, <3>1 DEF EndOf
  <2>7. CASE e.type = "error"
    <3>1. e.turn = NoTurn
      BY <2>2, <2>3, <2>7 DEF Applies, TurnAfter
    <3>2. e = Event("error", NoTurn)
      BY <2>2, <2>7, <3>1 DEF EventSet, Event
    <3> QED
      BY <2>1, <3>2
  <2> QED
    BY <2>2, <2>4, <2>5, <2>6, <2>7 DEF EventSet
<1> QED
  BY <1>2, <1>3, <1>4, <1>5

(* While a turn is active only its own end, an exit, an error of the thread,   *)
(* or the reactor's binding or stopping takes it away, whichever of the        *)
(* ingestion's reads is stale (ProviderRuntimeIngestion.ts:875-994).           *)
THEOREM OnlyEndsClose == Spec => OnlyItsEndCloses
<1>1. ProviderInv /\ [Next]_vars
        => [session.turn # NoTurn /\ session'.turn # session.turn =>
              \/ job["reactor"].step \in {"bind", "stopped"}
              \/ ingest.event \in EndOf(session.turn) \cup {Event("error", NoTurn)}]_vars
  BY TurnLeaves
<1> QED
  BY <1>1, ProviderInvHolds, PTL DEF Spec, OnlyItsEndCloses
=============================================================================
