---------------------- MODULE OrchestrationEngine_proofs ----------------------
(***************************************************************************)
(* Theorems about OrchestrationEngine, for every decider, projection,      *)
(* history and set of calls: the ledger it implements, and what becomes of *)
(* its event log - what the subscribers got, what a caller was told, which *)
(* read model the worker decides against, and that the log is a serial     *)
(* execution of the accepted commands.                                     *)
(***************************************************************************)
EXTENDS OrchestrationEngine, FiniteSetTheorems, SequenceTheorems,
        WellFoundedInduction, TLAPS

\* The worker's position determines which envelope it may name.
Busy == pc \in {"lookup", "tx", "install", "publish", "reconcile", "reject", "reply"}
EnvelopeHeld == Busy => cur \in Call
TypeInv == TypeOK /\ EnvelopeHeld

(* The engine starts with every variable in its type and no envelope held.   *)
LEMMA TypeInit == Init => TypeInv
<1> SUFFICES ASSUME Init PROVE TypeInv
  OBVIOUS
<1>1. NoTx \in Tx
  BY ModelAssumption DEF NoTx, Tx
<1>2. Plain("new") \in Answer
  BY DEF Plain, Answer
<1>3. NoReceipt \in Receipt
  BY DEF NoReceipt, Receipt
<1> QED
  BY <1>1, <1>2, <1>3, HistoryAssumption, ModelAssumption
  DEF Init, TypeInv, TypeOK, EnvelopeHeld, Busy

(* Every step of the callers, the worker, the boot and a crash keeps the      *)
(* types, and the worker holds an envelope exactly while it works on one.     *)
LEMMA TypeStep == TypeInv /\ [Next]_vars => TypeInv'
<1> SUFFICES ASSUME TypeInv, [Next]_vars PROVE TypeInv'
  OBVIOUS
<1> USE DEF TypeInv, TypeOK, EnvelopeHeld, Busy, Running, MayFail
<1>a. NoTx \in Tx /\ [NoTx EXCEPT !.model = readModel] \in Tx
  <2>1. <<>> \in Seq(Event) /\ <<>> \in Seq(Body)
    OBVIOUS
  <2>2. NoTx \in Tx
    BY <2>1, ModelAssumption DEF NoTx, Tx
  <2>3. readModel \in Model
    OBVIOUS
  <2> HIDE DEF TypeInv, TypeOK
  <2> QED
    BY <2>2, <2>3 DEF Tx
<1>b. \A k \in {"new", "waiting", "rejected", "previously", "failed", "gone"} :
        Plain(k) \in Answer
  BY DEF Plain, Answer
<1>1. CASE BootCatchUp
  <2>1. log[dbSeq + 1] \in Event
    BY <1>1 DEF BootCatchUp
  <2>2. db' \in Table
    BY <1>1, <2>1, ProjectAssumption DEF BootCatchUp, Event
  <2> QED
    BY <1>1, <2>2 DEF BootCatchUp, volatile
<1>2. CASE BootDone
  BY <1>2, ProjectAssumption DEF BootDone, durable
<1>3. CASE Restart
  BY <1>3 DEF Restart, durable, volatile
<1>4. CASE Crash
  BY <1>4, <1>a, <1>b, ModelAssumption DEF Crash, durable
<1>5. ASSUME NEW p \in Call, Dispatch(p) PROVE TypeInv'
  BY <1>5, <1>b DEF Dispatch, durable
<1>6. ASSUME NEW p \in Call, Abandon(p) PROVE TypeInv'
  BY <1>6, <1>b DEF Abandon, durable, volatile
<1>7. CASE Take
  BY <1>7 DEF Take, durable
<1>8. CASE ReplayReceipt
  <2>1. Cmd \in Command
    BY <1>8, CallAssumption DEF ReplayReceipt, Cmd, Duplicate
  <2>2. verdict' \in Answer
    BY <1>8, <2>1, <1>b DEF ReplayReceipt, Answer, Receipt, Duplicate
  <2> QED
    BY <1>8, <2>2 DEF ReplayReceipt, durable, Duplicate
<1>9. CASE LookupFails
  BY <1>9, <1>a, <1>b DEF LookupFails, durable
<1>10. CASE DecideRejects
  BY <1>10, <1>a, <1>b DEF DecideRejects, durable, Duplicate
<1>11. CASE DecideAccepts
  <2>1. Cmd \in Command
    BY <1>11, CallAssumption DEF DecideAccepts, Cmd, Duplicate
  <2>2. EventsOf(readModel, Cmd) \in Seq(Body)
    BY <1>11, <2>1, EventsAssumption DEF DecideAccepts, Duplicate
  <2>3. tx' \in Tx
    BY <1>11, <2>2 DEF DecideAccepts, Tx, Duplicate
  <2> QED
    BY <1>11, <2>3 DEF DecideAccepts, durable, Duplicate
<1>c. pc = "tx" /\ tx.todo # <<>> => /\ NextEvent \in Event
                                     /\ Head(tx.todo) \in Body
                                     /\ Tail(tx.todo) \in Seq(Body)
  <2> SUFFICES ASSUME pc = "tx", tx.todo # <<>>
               PROVE /\ NextEvent \in Event
                     /\ Head(tx.todo) \in Body
                     /\ Tail(tx.todo) \in Seq(Body)
    OBVIOUS
  <2>1. Cmd \in Command
    BY CallAssumption DEF Cmd
  <2>2. tx.todo \in Seq(Body) /\ tx.done \in Seq(Event)
    BY DEF Tx
  <2>3. Len(tx.done) + 1 \in Nat
    BY <2>2
  <2> QED
    BY <2>1, <2>2, <2>3 DEF NextEvent, Event
<1>12. CASE WriteEvent
  <2>1. tx.done \in Seq(Event) /\ tx.model \in Model /\ tx.db \in Table
    BY DEF Tx
  <2>2. Append(tx.done, NextEvent) \in Seq(Event)
    BY <1>12, <1>c, <2>1 DEF WriteEvent
  <2>3. tx' \in Tx
    BY <1>12, <1>c, <2>1, <2>2, ApplyAssumption, ProjectAssumption DEF WriteEvent, Tx
  <2> QED
    BY <1>12, <2>3 DEF WriteEvent, durable
<1>13. CASE TxFails
  <2>1. tx.done \in Seq(Event) /\ tx.db \in Table
    BY DEF Tx
  <2>2. tx.todo # <<>> => Append(tx.done, NextEvent) \in Seq(Event)
    BY <1>13, <1>c, <2>1 DEF TxFails
  <2>3. ASSUME NEW w \in Seq(Event), RollBack(w)
        PROVE log' \in Seq(Event) /\ db' \in Table /\ dbSeq' \in Nat
              /\ receipts' \in [Command -> Receipt]
    <3>1. CASE Atomic
      BY <2>3, <3>1 DEF RollBack
    <3>2. CASE ~Atomic
      <4>1. log' = log \o w /\ db' = tx.db /\ receipts' = receipts
        BY <2>3, <3>2 DEF RollBack
      <4>2. dbSeq' = dbSeq \/ dbSeq' = Len(log) + Len(tx.done)
        BY <2>3, <3>2 DEF RollBack
      <4>3. log \o w \in Seq(Event)
        BY <2>3
      <4>4. Len(log) \in Nat /\ Len(tx.done) \in Nat
        BY <2>1
      <4> QED
        BY <2>1, <4>1, <4>2, <4>3, <4>4
    <3> QED
      BY <3>1, <3>2
  <2>4. log' \in Seq(Event) /\ db' \in Table /\ dbSeq' \in Nat
        /\ receipts' \in [Command -> Receipt]
    BY <1>13, <2>1, <2>2, <2>3 DEF TxFails
  <2> QED
    BY <1>13, <2>4, <1>a, <1>b DEF TxFails
<1>14. CASE Commit
  <2>1. tx.done \in Seq(Event) /\ tx.db \in Table
    BY DEF Tx
  <2>2. log' \in Seq(Event) /\ Len(log') \in Nat
    BY <1>14, <2>1 DEF Commit
  <2>3. [status |-> "accepted", seq |-> Len(log')] \in Receipt
    BY <2>2 DEF Receipt
  <2> QED
    BY <1>14, <2>1, <2>2, <2>3 DEF Commit, volatile
<1>15. CASE Install
  <2>1. tx.done \in Seq(Event) /\ tx.model \in Model
    BY DEF Tx
  <2>2. verdict' \in Answer
    BY <1>15 DEF Install, Answer
  <2> QED
    BY <1>15, <1>a, <2>1, <2>2 DEF Install, durable
<1>16. CASE PublishOne
  BY <1>16 DEF PublishOne, durable
<1>17. CASE PublishDone
  BY <1>17 DEF PublishDone, durable, volatile
<1>18. CASE ReconcileRead
  <2>1. tx.done \in Seq(Event) /\ tx.model \in Model
    BY DEF Tx
  <2> DEFINE e == log[startSeq + Len(tx.done) + 1]
  <2>2. e \in Event
    BY <1>18, <2>1 DEF ReconcileRead, Reconciled
  <2>3. Apply(tx.model, e.body) \in Model
    BY <2>1, <2>2, ApplyAssumption DEF Event
  <2>4. tx' = [tx EXCEPT !.done = Append(@, e), !.model = Apply(@, e.body)]
    BY <1>18 DEF ReconcileRead, Reconciled
  <2>5. Append(tx.done, e) \in Seq(Event)
    BY <2>1, <2>2
  <2> HIDE DEF e
  <2>6. tx' \in Tx
    BY <2>3, <2>4, <2>5 DEF Tx
  <2> QED
    BY <1>18, <2>6 DEF ReconcileRead, durable, Reconciled
<1>19. CASE ReconcileDone
  <2>1. tx.done \in Seq(Event) /\ tx.model \in Model
    BY DEF Tx
  <2> QED
    BY <1>19, <1>a, <2>1 DEF ReconcileDone, durable, Reconciled
<1>20. CASE ReconcileFails
  BY <1>20, <1>a DEF ReconcileFails, durable
<1>21. CASE RejectReceipt
  <2>1. [status |-> "rejected", seq |-> snapSeq] \in Receipt
    BY DEF Receipt
  <2> QED
    BY <1>21, <2>1 DEF RejectReceipt, volatile
<1>22. CASE Reply
  BY <1>22, <1>b DEF Reply, durable, Settle
<1>23. CASE UNCHANGED vars
  BY <1>23 DEF vars
<1> QED
  BY <1>1, <1>2, <1>3, <1>4, <1>5, <1>6, <1>7, <1>8, <1>9, <1>10, <1>11, <1>12,
     <1>13, <1>14, <1>15, <1>16, <1>17, <1>18, <1>19, <1>20, <1>21, <1>22, <1>23
  DEF Next, Boot, Worker

(* Every variable keeps its type in every run of the engine.                 *)
THEOREM TypeCorrect == Spec => []TypeOK
<1>1. Spec => []TypeInv
  BY TypeInit, TypeStep, PTL DEF Spec
<1> QED
  BY <1>1, PTL DEF TypeInv

-----------------------------------------------------------------------------
(* Memory and store.  With an atomic store, memory has taken in the whole log *)
(* whenever the worker is not between a commit and its installation, and a    *)
(* reconciliation finds nothing.                                             *)
SyncInv ==
    Atomic =>
        /\ dbSeq <= Len(log)
        /\ Running => dbSeq = Len(log)
        /\ Settled \/ pc = "reconcile" => snapSeq = Len(log)
        /\ pc \in {"lookup", "tx", "reconcile"} => startSeq = snapSeq
        /\ pc = "reconcile" => tx.done = <<>>

(* Memory, tables and log agree as far as the boot has come when it starts.   *)
LEMMA SyncInit == Init => SyncInv
<1> SUFFICES ASSUME Init PROVE SyncInv
  OBVIOUS
<1>1. Len(log) \in Nat
  BY HistoryAssumption DEF Init
<1> QED
  BY <1>1 DEF Init, SyncInv, Running, Settled

(* Every step keeps the positions together: a transaction moves both, a       *)
(* rolled back one neither, and a reconciliation finds nothing to add when    *)
(* the store is atomic.                                                       *)
LEMMA SyncStep == TypeInv /\ SyncInv /\ [Next]_vars => SyncInv'
<1> SUFFICES ASSUME TypeInv, SyncInv, [Next]_vars, Atomic PROVE SyncInv'
  BY DEF SyncInv
<1> USE DEF SyncInv, Running, Settled
<1>t. /\ log \in Seq(Event) /\ Len(log) \in Nat /\ dbSeq \in Nat
      /\ tx \in Tx /\ tx.done \in Seq(Event) /\ tx.todo \in Seq(Body)
  BY DEF TypeInv, TypeOK, Tx
<1>1. CASE BootCatchUp
  BY <1>1, <1>t DEF BootCatchUp, volatile
<1>2. CASE BootDone
  BY <1>2, <1>t DEF BootDone, durable
<1>3. CASE Restart
  BY <1>3 DEF Restart, durable, volatile
<1>4. CASE Crash
  BY <1>4 DEF Crash, durable
<1>5. ASSUME NEW p \in Call, Dispatch(p) PROVE SyncInv'
  BY <1>5 DEF Dispatch, durable
<1>6. ASSUME NEW p \in Call, Abandon(p) PROVE SyncInv'
  BY <1>6 DEF Abandon, durable, volatile
<1>7. CASE Take
  BY <1>7 DEF Take, durable
<1>8. CASE ReplayReceipt
  BY <1>8 DEF ReplayReceipt, durable, Duplicate
<1>9. CASE LookupFails
  BY <1>9 DEF LookupFails, durable, NoTx
<1>10. CASE DecideRejects
  BY <1>10 DEF DecideRejects, durable, NoTx, Duplicate
<1>11. CASE DecideAccepts
  BY <1>11 DEF DecideAccepts, durable, Duplicate
<1>12. CASE WriteEvent
  BY <1>12 DEF WriteEvent, durable
<1>13. CASE TxFails
  <2>1. UNCHANGED <<log, db, dbSeq>>
    BY <1>13 DEF TxFails, RollBack
  <2> QED
    BY <1>13, <2>1 DEF TxFails, NoTx
<1>14. CASE Commit
  <2>1. log' \in Seq(Event) /\ Len(log') \in Nat
    BY <1>14, <1>t DEF Commit
  <2> QED
    BY <1>14, <2>1 DEF Commit, volatile
<1>15. CASE Install
  BY <1>15 DEF Install, durable
<1>16. CASE PublishOne
  BY <1>16 DEF PublishOne, durable
<1>17. CASE PublishDone
  BY <1>17 DEF PublishDone, durable, volatile
<1>18. CASE ReconcileRead
  <2>1. Len(tx.done) = 0
    BY <1>18 DEF ReconcileRead, Reconciled
  <2>2. FALSE
    BY <1>18, <1>t, <2>1 DEF ReconcileRead, Reconciled
  <2> QED
    BY <2>2
<1>19. CASE ReconcileDone
  <2>1. Len(tx.done) = 0
    BY <1>19 DEF ReconcileDone, Reconciled
  <2> QED
    BY <1>19, <1>t, <2>1 DEF ReconcileDone, durable, Reconciled
<1>20. CASE ReconcileFails
  BY <1>20 DEF ReconcileFails, durable
<1>21. CASE RejectReceipt
  BY <1>21 DEF RejectReceipt, volatile
<1>22. CASE Reply
  BY <1>22 DEF Reply, durable, Settle
<1>23. CASE UNCHANGED vars
  BY <1>23 DEF vars
<1> QED
  BY <1>1, <1>2, <1>3, <1>4, <1>5, <1>6, <1>7, <1>8, <1>9, <1>10, <1>11, <1>12,
     <1>13, <1>14, <1>15, <1>16, <1>17, <1>18, <1>19, <1>20, <1>21, <1>22, <1>23
  DEF Next, Boot, Worker

-----------------------------------------------------------------------------
(* The refinement of CommandLedger.  The invariant says what the worker's     *)
(* transaction and verdict imply about the receipt of the command it holds.  *)
LedgerInv ==
    Atomic =>
        /\ pc \in {"tx", "reject"} => receipts[Cmd].status = "none"
        /\ pc = "tx" => /\ \A i \in 1 .. Len(tx.done) : tx.done[i].cmd = Cmd
                        /\ tx.done # <<>> \/ tx.todo # <<>>
        /\ pc = "install" => receipts[Cmd] = [status |-> "accepted", seq |-> Len(log)]
        /\ pc = "reject" => verdict.kind = "rejected"
        /\ pc \in {"reconcile", "publish", "reject", "reply"} =>
             \/ verdict.kind = "accepted" /\ receipts[Cmd].status = "accepted"
                                          /\ receipts[Cmd].seq = verdict.seq
             \/ verdict.kind = "rejected" /\ receipts[Cmd].status # "accepted"
                  /\ (pc # "reply" => receipts[Cmd].status = "none")
             \/ verdict.kind = "previously" /\ receipts[Cmd].status # "accepted"
             \/ verdict = Plain("failed")

(* Every step keeps what the refinement needs to know of the worker: what its *)
(* verdict may be while it still has the envelope, and whose events its       *)
(* transaction holds.                                                         *)
LEMMA LedgerInvStep ==
    TypeInv /\ SyncInv /\ LedgerInv /\ [Next]_vars => LedgerInv'
<1> SUFFICES ASSUME TypeInv, SyncInv, LedgerInv, [Next]_vars, Atomic PROVE LedgerInv'
  BY DEF LedgerInv
<1> USE DEF LedgerInv, Cmd, Plain
<1>t. /\ log \in Seq(Event) /\ Len(log) \in Nat
      /\ tx \in Tx /\ tx.done \in Seq(Event) /\ tx.todo \in Seq(Body)
  BY DEF TypeInv, TypeOK, Tx
<1>c. Busy => CommandOf[cur] \in Command
  BY CallAssumption DEF TypeInv, EnvelopeHeld
<1>r. receipts \in [Command -> Receipt] /\ verdict \in Answer
  BY DEF TypeInv, TypeOK
<1>1. CASE BootCatchUp
  BY <1>1 DEF BootCatchUp, volatile
<1>2. CASE BootDone
  BY <1>2 DEF BootDone, durable
<1>3. CASE Restart
  BY <1>3 DEF Restart, durable, volatile
<1>4. CASE Crash
  BY <1>4 DEF Crash, durable
<1>5. ASSUME NEW p \in Call, Dispatch(p) PROVE LedgerInv'
  BY <1>5 DEF Dispatch, durable
<1>6. ASSUME NEW p \in Call, Abandon(p) PROVE LedgerInv'
  BY <1>6 DEF Abandon, durable, volatile
<1>7. CASE Take
  BY <1>7 DEF Take, durable
<1>8. CASE ReplayReceipt
  BY <1>8, <1>r, <1>c DEF ReplayReceipt, durable, Receipt, Busy, Duplicate
<1>9. CASE LookupFails
  BY <1>9 DEF LookupFails, durable
<1>10. CASE DecideRejects
  BY <1>10 DEF DecideRejects, durable, Duplicate
<1>11. CASE DecideAccepts
  <2>1. EventsOf(readModel, Cmd) # <<>>
    BY <1>11, <1>c, EventsAssumption DEF DecideAccepts, TypeInv, TypeOK, Busy, Duplicate
  <2> QED
    BY <1>11, <2>1 DEF DecideAccepts, durable, Duplicate
<1>12. CASE WriteEvent
  <2>1. NextEvent.cmd = Cmd
    BY DEF NextEvent
  <2>2. tx'.done = Append(tx.done, NextEvent)
    BY <1>12 DEF WriteEvent
  <2>3. /\ tx'.done # <<>>
        /\ \A i \in 1 .. Len(tx'.done) : tx'.done[i].cmd = Cmd
    <3>1. pc = "tx" /\ \A i \in 1 .. Len(tx.done) : tx.done[i].cmd = Cmd
      BY <1>12 DEF WriteEvent
    <3>2. \A i \in 1 .. Len(tx'.done) :
            i \in 1 .. Len(tx.done) \/ i = Len(tx.done) + 1
      BY <1>t, <2>2
    <3>3. tx'.done # <<>> /\ tx'.done[Len(tx.done) + 1] = NextEvent
      BY <1>t, <2>2
    <3>4. \A i \in 1 .. Len(tx.done) : tx'.done[i] = tx.done[i]
      BY <1>t, <2>2
    <3> QED
      BY <2>1, <3>1, <3>2, <3>3, <3>4
  <2> QED
    BY <1>12, <2>3 DEF WriteEvent, durable
<1>13. CASE TxFails
  BY <1>13 DEF TxFails, RollBack
<1>14. CASE Commit
  BY <1>14, <1>r, <1>c DEF Commit, volatile, Busy
<1>15. CASE Install
  BY <1>15 DEF Install, durable
<1>16. CASE PublishOne
  BY <1>16 DEF PublishOne, durable
<1>17. CASE PublishDone
  BY <1>17 DEF PublishDone, durable, volatile
<1>18. CASE ReconcileRead
  BY <1>18 DEF ReconcileRead, durable, Reconciled
<1>19. CASE ReconcileDone
  BY <1>19 DEF ReconcileDone, durable, Reconciled
<1>20. CASE ReconcileFails
  BY <1>20 DEF ReconcileFails, durable
<1>21. CASE RejectReceipt
  BY <1>21, <1>r, <1>c DEF RejectReceipt, volatile, Busy
<1>22. CASE Reply
  BY <1>22 DEF Reply, durable, Settle
<1>23. CASE UNCHANGED vars
  BY <1>23 DEF vars
<1> QED
  BY <1>1, <1>2, <1>3, <1>4, <1>5, <1>6, <1>7, <1>8, <1>9, <1>10, <1>11, <1>12,
     <1>13, <1>14, <1>15, <1>16, <1>17, <1>18, <1>19, <1>20, <1>21, <1>22, <1>23
  DEF Next, Boot, Worker

(* The engine starts as the ledger does: no verdicts, no answers.             *)
LEMMA LedgerInitStep == Init => LedgerInv /\ Ledger!Init
<1> SUFFICES ASSUME Init PROVE LedgerInv /\ Ledger!Init
  OBVIOUS
<1>1. LedgerInv
  BY DEF Init, LedgerInv
<1>2. Ledger!Init
  BY DEF Init, Ledger!Init, Ledger!Undecided, Ledger!Open, NoReceipt, Plain,
         LedgerAnswer
<1> QED
  BY <1>1, <1>2

(* A step that changes neither the log, nor a receipt, nor what a call was     *)
(* told leaves the ledger alone.                                              *)
LEMMA LedgerStutters ==
    ASSUME UNCHANGED <<log, receipts, answer>>
    PROVE  UNCHANGED Ledger!vars
  BY DEF Ledger!vars

(* Every step of the engine is a step of the ledger or invisible to it:       *)
(* Commit accepts, RejectReceipt rejects, Reply tells, a crash or a caller    *)
(* that leaves loses.                                                         *)
LEMMA LedgerStep ==
    Atomic /\ TypeInv /\ SyncInv /\ LedgerInv /\ [Next]_vars
        => [Ledger!Next]_Ledger!vars
<1> SUFFICES ASSUME Atomic, TypeInv, SyncInv, LedgerInv, [Next]_vars
             PROVE  Ledger!Next \/ UNCHANGED Ledger!vars
  OBVIOUS
<1> USE DEF Plain
<1>t. /\ log \in Seq(Event) /\ Len(log) \in Nat
      /\ tx.done \in Seq(Event) /\ tx.todo \in Seq(Body)
      /\ receipts \in [Command -> Receipt] /\ verdict \in Answer
      /\ answer \in [Call -> Answer]
  BY DEF TypeInv, TypeOK, Tx
<1>c. Busy => Cmd \in Command /\ cur \in Call
  BY CallAssumption DEF TypeInv, EnvelopeHeld, Cmd
<1>4. CASE Crash
  <2> DEFINE S == {p \in Call : answer[p].kind = "waiting"}
  <2>1. UNCHANGED <<log, receipts>>
    BY <1>4 DEF Crash, durable
  <2>2. CASE S = {}
    <3>1. answer' = answer
      BY <1>4, <1>t, <2>2 DEF Crash
    <3> QED
      BY <2>1, <3>1, LedgerStutters
  <2>3. CASE S # {}
    <3>1. \A p \in Call : LedgerAnswer(answer'[p]) =
            IF p \in S THEN [kind |-> "gone", seq |-> 0] ELSE LedgerAnswer(answer[p])
      BY <1>4 DEF Crash, LedgerAnswer
    <3>2. \A p \in S : LedgerAnswer(answer[p]).kind = "open"
      BY DEF LedgerAnswer
    <3>3. Ledger!Lose(S)
      BY <2>1, <2>3, <3>1, <3>2 DEF Ledger!Lose, Ledger!Open
    <3>4. S \in SUBSET Call
      OBVIOUS
    <3> QED
      BY <3>3, <3>4 DEF Ledger!Next
  <2> QED
    BY <2>2, <2>3
<1>5. ASSUME NEW p \in Call, Dispatch(p) PROVE UNCHANGED Ledger!vars
  <2>1. UNCHANGED <<log, receipts>>
    BY <1>5 DEF Dispatch, durable
  <2>2. \A q \in Call : LedgerAnswer(answer'[q]) = LedgerAnswer(answer[q])
    BY <1>5, <1>t DEF Dispatch, LedgerAnswer
  <2> QED
    BY <2>1, <2>2 DEF Ledger!vars
<1>6. ASSUME NEW p \in Call, Abandon(p) PROVE Ledger!Next
  <2>1. UNCHANGED <<log, receipts>>
    BY <1>6 DEF Abandon, durable
  <2>2. \A q \in Call : LedgerAnswer(answer'[q]) =
          IF q \in {p} THEN [kind |-> "gone", seq |-> 0] ELSE LedgerAnswer(answer[q])
    BY <1>6, <1>t DEF Abandon, LedgerAnswer
  <2>3. LedgerAnswer(answer[p]).kind = "open"
    BY <1>6 DEF Abandon, LedgerAnswer
  <2>4. Ledger!Lose({p})
    BY <2>1, <2>2, <2>3 DEF Ledger!Lose, Ledger!Open
  <2> QED
    BY <2>4 DEF Ledger!Next
<1>13. CASE TxFails
  BY <1>13, LedgerStutters DEF TxFails, RollBack
<1>14. CASE Commit
  <2>1. Cmd \in Command /\ receipts[Cmd].status = "none"
    BY <1>14, <1>c DEF Commit, Busy, LedgerInv
  <2>2. tx.done # <<>> /\ \A i \in 1 .. Len(tx.done) : tx.done[i].cmd = Cmd
    BY <1>14 DEF Commit, LedgerInv
  <2>3. log' = log \o tx.done /\ answer' = answer
        /\ receipts' = [receipts EXCEPT ![Cmd] =
                          [status |-> "accepted", seq |-> Len(log')]]
    BY <1>14 DEF Commit
  <2>4. Len(log') = Len(log) + Len(tx.done) /\ Len(tx.done) > 0
    BY <1>t, <2>2, <2>3
  <2>5. \A i \in 1 .. Len(log) : log'[i] = log[i]
    BY <1>t, <2>3
  <2>6. \A i \in Len(log) + 1 .. Len(log') : log'[i].cmd = Cmd
    <3> SUFFICES ASSUME NEW i \in Len(log) + 1 .. Len(log') PROVE log'[i].cmd = Cmd
      OBVIOUS
    <3>1. i - Len(log) \in 1 .. Len(tx.done) /\ log'[i] = tx.done[i - Len(log)]
      BY <1>t, <2>3, <2>4
    <3> QED
      BY <2>2, <3>1
  <2>7. Ledger!Accept(Cmd)
    BY <1>t, <2>1, <2>3, <2>4, <2>5, <2>6 DEF Ledger!Accept, Ledger!Undecided
  <2> QED
    BY <2>1, <2>7 DEF Ledger!Next
<1>21. CASE RejectReceipt
  <2>1. Cmd \in Command /\ receipts[Cmd].status = "none"
    BY <1>21, <1>c DEF RejectReceipt, Busy, LedgerInv
  <2>2. snapSeq = Len(log)
    BY <1>21 DEF RejectReceipt, SyncInv, Settled
  <2>3. log' = log /\ answer' = answer
    BY <1>21 DEF RejectReceipt
  <2>4. CASE receipts' = [receipts EXCEPT ![Cmd] =
                            [status |-> "rejected", seq |-> snapSeq]]
    BY <2>1, <2>2, <2>3, <2>4 DEF Ledger!Next, Ledger!Reject, Ledger!Undecided
  <2>5. CASE UNCHANGED receipts
    BY <2>3, <2>5, LedgerStutters
  <2> QED
    BY <1>21, <2>4, <2>5 DEF RejectReceipt
<1>22. CASE Reply
  <2>1. UNCHANGED <<log, receipts>> /\ cur \in Call
    BY <1>22, <1>c DEF Reply, durable, Busy, Settle
  <2>2. CASE answer[cur].kind # "waiting"
    <3>1. answer' = answer
      BY <1>22, <1>t, <2>1, <2>2 DEF Reply, Settle
    <3> QED
      BY <2>1, <3>1, LedgerStutters
  <2>3. CASE answer[cur].kind = "waiting"
    <3>1. answer' = [answer EXCEPT ![cur] = verdict]
      BY <1>22, <2>3 DEF Reply, Settle
    <3>2. LedgerAnswer(answer[cur]).kind = "open"
      BY <2>3 DEF LedgerAnswer
    <3>3. [p \in Call |-> LedgerAnswer(answer'[p])] =
          [[p \in Call |-> LedgerAnswer(answer[p])] EXCEPT ![cur] = LedgerAnswer(verdict)]
      BY <1>t, <2>1, <3>1
    <3>4. Cmd = CommandOf[cur]
      BY DEF Cmd
    <3>5. \/ /\ receipts[CommandOf[cur]].status = "accepted"
             /\ LedgerAnswer(verdict) =
                  [kind |-> "accepted", seq |-> receipts[CommandOf[cur]].seq]
          \/ /\ receipts[CommandOf[cur]].status # "accepted"
             /\ LedgerAnswer(verdict) = [kind |-> "rejected", seq |-> 0]
          \/ LedgerAnswer(verdict) = [kind |-> "failed", seq |-> 0]
      <4>1. verdict = [kind |-> verdict.kind, seq |-> verdict.seq]
        BY <1>t DEF Answer
      <4>2. CASE verdict.kind = "accepted"
        BY <1>22, <3>4, <4>1, <4>2 DEF Reply, LedgerInv, LedgerAnswer, Settle
      <4>3. CASE verdict.kind \in {"rejected", "previously"}
        BY <1>22, <3>4, <4>3 DEF Reply, LedgerInv, LedgerAnswer, Settle
      <4>4. CASE verdict = Plain("failed")
        BY <4>4 DEF LedgerAnswer
      <4> QED
        BY <1>22, <4>2, <4>3, <4>4 DEF Reply, LedgerInv, Settle
    <3>6. Ledger!Tell(cur)
      BY <2>1, <3>2, <3>3, <3>5 DEF Ledger!Tell, Ledger!Open
    <3> QED
      BY <2>1, <3>6 DEF Ledger!Next
  <2> QED
    BY <2>2, <2>3
<1>23. CASE Boot \/ Restart
  BY <1>23, LedgerStutters
  DEF Boot, BootCatchUp, BootDone, Restart, durable, volatile
<1>24. CASE Take \/ ReplayReceipt \/ LookupFails \/ DecideRejects \/ DecideAccepts
            \/ WriteEvent \/ Install
  BY <1>24, LedgerStutters
  DEF Take, ReplayReceipt, LookupFails, DecideRejects, DecideAccepts, WriteEvent,
      Install, durable, Duplicate
<1>25. CASE PublishOne \/ PublishDone \/ ReconcileRead \/ ReconcileDone \/ ReconcileFails
  BY <1>25, LedgerStutters
  DEF PublishOne, PublishDone, ReconcileRead, ReconcileDone, ReconcileFails,
      durable, volatile, Reconciled
<1>26. CASE UNCHANGED vars
  BY <1>26, LedgerStutters DEF vars
<1> QED
  BY <1>4, <1>5, <1>6, <1>13, <1>14, <1>21, <1>22, <1>23, <1>24, <1>25, <1>26
  DEF Next, Worker

(* With a transactional store the engine implements the ledger: one verdict   *)
(* per command, a log that only grows by whole commands, and answers that    *)
(* agree with the verdicts, through retries, store failures and crashes.     *)
THEOREM EngineImplementsLedger == Atomic => (Spec => ImplementsLedger)
<1> SUFFICES ASSUME Atomic PROVE Spec => ImplementsLedger
  OBVIOUS
<1>1. Init => TypeInv /\ SyncInv /\ LedgerInv /\ Ledger!Init
  BY TypeInit, SyncInit, LedgerInitStep
<1>2. TypeInv /\ SyncInv /\ LedgerInv /\ [Next]_vars
        => TypeInv' /\ SyncInv' /\ LedgerInv'
  BY TypeStep, SyncStep, LedgerInvStep
<1>3. TypeInv /\ SyncInv /\ LedgerInv /\ [Next]_vars => [Ledger!Next]_Ledger!vars
  BY LedgerStep
<1> QED
  BY <1>1, <1>2, <1>3, PTL DEF Spec, ImplementsLedger, Ledger!Spec

-----------------------------------------------------------------------------
(* What a recursive function computes is proved by a least counterexample:    *)
(* the induction theorem over Nat takes an operator, this takes a set.        *)

(* Some relation on Nat is well-founded and is the order.                     *)
LEMMA NatOrder ==
    \E R : IsWellFoundedOn(R, Nat) /\ \A x, y \in Nat : <<x, y>> \in R <=> x < y
<1>1. \A x, y \in Nat : <<x, y>> \in OpToRel(<, Nat) <=> x < y
  BY DEF OpToRel
<1> QED
  BY <1>1, NatLessThanWellFounded, Zenon

(* A nonempty set of naturals has a least element.                            *)
LEMMA LeastNumber ==
    ASSUME NEW S \in SUBSET Nat, S # {}
    PROVE  \E m \in S : \A n \in S : m <= n
<1>1. PICK R : IsWellFoundedOn(R, Nat) /\ \A x, y \in Nat : <<x, y>> \in R <=> x < y
  BY NatOrder
<1>2. PICK x \in S : \A y \in S : ~(<<y, x>> \in R)
  <2>1. IsWellFoundedOn(R, Nat) /\ S \subseteq Nat
    BY <1>1
  <2> QED
    BY <2>1, WFMin, Zenon
<1>3. \A y \in S : ~(y < x)
  BY <1>1, <1>2
<1> QED
  BY <1>3

(* Hence a set that holds 0 and, with each number below k, the next one,      *)
(* holds all numbers up to k.                                                 *)
LEMMA UpTo ==
    ASSUME NEW k \in Nat, NEW S, 0 \in S, \A n \in 0 .. k : n \in S /\ n < k => n + 1 \in S
    PROVE  \A n \in 0 .. k : n \in S
<1> DEFINE T == (0 .. k) \ S
<1> SUFFICES ASSUME T # {} PROVE FALSE
  OBVIOUS
<1>1. PICK m \in T : \A n \in T : m <= n
  <2>1. T \in SUBSET Nat
    OBVIOUS
  <2> HIDE DEF T
  <2> QED
    BY <2>1, LeastNumber
<1>2. m # 0 /\ m - 1 \in 0 .. k
  BY <1>1
<1>3. m - 1 \in S
  BY <1>1, <1>2
<1> QED
  BY <1>1, <1>2, <1>3

-----------------------------------------------------------------------------
(* The replay of a log.                                                       *)
Nothing == [db |-> EmptyTable, model |-> Load(EmptyTable)]
ReplayBody(b, f, s) ==
    [n \in 0 .. Len(s) |-> IF n = 0 THEN Nothing ELSE Standing(b, n, f[n - 1], s[n])]

(* The recursive definition of ReplayTo has a solution.                       *)
LEMMA ReplayToExists ==
    ASSUME NEW b, NEW s \in Seq(Event)
    PROVE  ReplayTo(b, s) = ReplayBody(b, ReplayTo(b, s), s)
<1> DEFINE F(f, k) == \A n \in 0 .. k :
               f[n] = IF n = 0 THEN Nothing ELSE Standing(b, n, f[n - 1], s[n])
           S == {k \in Nat : \E f : f = [n \in 0 .. k |-> f[n]] /\ F(f, k)}
<1>1. 0 \in S
  <2> DEFINE f == [n \in 0 .. 0 |-> Nothing]
  <2>1. f = [n \in 0 .. 0 |-> f[n]] /\ F(f, 0)
    OBVIOUS
  <2> QED
    BY <2>1
<1>2. ASSUME NEW n \in 0 .. Len(s), n \in S PROVE n + 1 \in S
  <2>1. PICK f : f = [i \in 0 .. n |-> f[i]] /\ F(f, n)
    BY <1>2
  <2> DEFINE g == [i \in 0 .. n + 1 |->
                     IF i = n + 1 THEN Standing(b, n + 1, f[n], s[n + 1]) ELSE f[i]]
  <2>2. \A i \in 0 .. n : g[i] = f[i]
    OBVIOUS
  <2>3. g[n + 1] = Standing(b, n + 1, g[n], s[n + 1])
    OBVIOUS
  <2>4. ASSUME NEW i \in 0 .. n + 1
        PROVE  g[i] = IF i = 0 THEN Nothing ELSE Standing(b, i, g[i - 1], s[i])
    <3>1. CASE i = n + 1
      BY <2>3, <3>1
    <3>2. CASE i \in 1 .. n
      <4>1. g[i] = f[i] /\ g[i - 1] = f[i - 1]
        BY <2>2, <3>2
      <4>2. f[i] = Standing(b, i, f[i - 1], s[i])
        <5>1. i \in 0 .. n /\ i # 0
          BY <3>2
        <5> QED
          BY <2>1, <5>1
      <4> QED
        BY <4>1, <4>2, <3>2
    <3>3. CASE i = 0
      <4>1. 0 \in 0 .. n /\ f[0] = Nothing
        BY <2>1
      <4>2. g[0] = f[0]
        BY <2>2, <4>1
      <4> QED
        BY <3>3, <4>1, <4>2
    <3> QED
      BY <3>1, <3>2, <3>3
  <2>5. g = [i \in 0 .. n + 1 |-> g[i]]
    OBVIOUS
  <2>6. n + 1 \in Nat
    OBVIOUS
  <2> HIDE DEF g
  <2> QED
    BY <2>4, <2>5, <2>6
<1>3. Len(s) \in S
  <2> HIDE DEF S
  <2>1. Len(s) \in Nat /\ Len(s) \in 0 .. Len(s)
    OBVIOUS
  <2>2. \A n \in 0 .. Len(s) : n \in S /\ n < Len(s) => n + 1 \in S
    BY <1>2
  <2>3. \A n \in 0 .. Len(s) : n \in S
    BY <1>1, <2>1, <2>2, UpTo
  <2> QED
    BY <2>1, <2>3
<1>4. PICK f : f = [n \in 0 .. Len(s) |-> f[n]] /\ F(f, Len(s))
  BY <1>3
<1>5. f = ReplayBody(b, f, s)
  BY <1>4 DEF ReplayBody
<1>6. ReplayTo(b, s) = CHOOSE r : r = ReplayBody(b, r, s)
  BY DEF ReplayTo, ReplayBody, Nothing
<1> HIDE DEF F, S
<1> QED
  BY <1>5, <1>6

(* ReplayTo, one event at a time.                                             *)
LEMMA ReplayToStep ==
    ASSUME NEW b, NEW s \in Seq(Event)
    PROVE  /\ ReplayTo(b, s)[0] = Nothing
           /\ \A n \in 1 .. Len(s) :
                ReplayTo(b, s)[n] = Standing(b, n, ReplayTo(b, s)[n - 1], s[n])
<1> DEFINE r == ReplayTo(b, s)
<1>1. r = ReplayBody(b, r, s)
  BY ReplayToExists
<1> HIDE DEF r
<1>2. \A n \in 0 .. Len(s) :
        ReplayBody(b, r, s)[n] = IF n = 0 THEN Nothing ELSE Standing(b, n, r[n - 1], s[n])
  BY DEF ReplayBody
<1>3. \A n \in 0 .. Len(s) :
        r[n] = IF n = 0 THEN Nothing ELSE Standing(b, n, r[n - 1], s[n])
  BY <1>1, <1>2
<1>4. 0 \in 0 .. Len(s)
  OBVIOUS
<1> QED
  BY <1>3, <1>4 DEF r

(* The tables take in each event, and so does a memory after its boot.         *)
LEMMA ReplayEvent ==
    ASSUME NEW b \in Nat, NEW s \in Seq(Event), NEW n \in Nat, n < Len(s)
    PROVE  /\ ReplayTo(b, s)[n + 1].db = Project(ReplayTo(b, s)[n].db, s[n + 1].body)
           /\ b <= n => ReplayTo(b, s)[n + 1].model
                          = Apply(ReplayTo(b, s)[n].model, s[n + 1].body)
<1>1. Len(s) \in Nat
  OBVIOUS
<1>2. n + 1 \in 1 .. Len(s) /\ (n + 1) - 1 = n /\ (b <= n => ~(n + 1 <= b))
  BY <1>1
<1> DEFINE x == ReplayTo(b, s)[n]
           y == ReplayTo(b, s)[n + 1]
<1>3. y = Standing(b, n + 1, x, s[n + 1])
  BY <1>2, ReplayToStep
<1> HIDE DEF x, y
<1>4. y.db = Project(x.db, s[n + 1].body)
      /\ (b <= n => y.model = Apply(x.model, s[n + 1].body))
  BY <1>2, <1>3 DEF Standing
<1> QED
  BY <1>4 DEF x, y

(* At its boot a process has what the tables hold.                             *)
LEMMA ReplayLoads ==
    ASSUME NEW b \in Nat, NEW s \in Seq(Event), NEW n \in 0 .. Len(s), n <= b
    PROVE  ReplayTo(b, s)[n].model = Load(ReplayTo(b, s)[n].db)
<1>1. CASE n = 0
  BY <1>1, ReplayToStep DEF Nothing
<1>2. CASE n # 0
  <2>1. n \in 1 .. Len(s)
    BY <1>2
  <2>2. ReplayTo(b, s)[n] = Standing(b, n, ReplayTo(b, s)[n - 1], s[n])
    BY <2>1, ReplayToStep
  <2> QED
    BY <2>2 DEF Standing
<1> QED
  BY <1>1, <1>2

(* What a log leaves after n events depends on its first n events only.       *)
LEMMA ReplayAgrees ==
    ASSUME NEW b, NEW s \in Seq(Event), NEW t \in Seq(Event), Len(s) <= Len(t),
           \A i \in 1 .. Len(s) : s[i] = t[i]
    PROVE  \A n \in 0 .. Len(s) : ReplayTo(b, t)[n] = ReplayTo(b, s)[n]
<1> DEFINE S == {n \in 0 .. Len(s) : ReplayTo(b, t)[n] = ReplayTo(b, s)[n]}
<1>1. 0 \in S
  BY ReplayToStep
<1>2. ASSUME NEW n \in 0 .. Len(s), n \in S /\ n < Len(s) PROVE n + 1 \in S
  <2>1. n + 1 \in 1 .. Len(s) /\ n + 1 \in 1 .. Len(t) /\ (n + 1) - 1 = n
    BY <1>2
  <2>2. ReplayTo(b, t)[n + 1] = Standing(b, n + 1, ReplayTo(b, t)[n], t[n + 1])
    BY <2>1, ReplayToStep
  <2>3. ReplayTo(b, s)[n + 1] = Standing(b, n + 1, ReplayTo(b, s)[n], s[n + 1])
    BY <2>1, ReplayToStep
  <2> QED
    BY <1>2, <2>1, <2>2, <2>3
<1>3. Len(s) \in Nat
  OBVIOUS
<1>4. \A n \in 0 .. Len(s) : n \in S
  <2> HIDE DEF S
  <2> QED
    BY <1>1, <1>2, <1>3, UpTo
<1> QED
  BY <1>4

(* A log leaves what it did, and then one more event is taken in.             *)
LEMMA ReplayAppend ==
    ASSUME NEW b \in Nat, NEW s \in Seq(Event), NEW e \in Event
    PROVE  /\ Replay(b, Append(s, e)).db = Project(Replay(b, s).db, e.body)
           /\ b <= Len(s) => Replay(b, Append(s, e)).model
                               = Apply(Replay(b, s).model, e.body)
<1> DEFINE t == Append(s, e)
<1>1. /\ t \in Seq(Event) /\ Len(t) = Len(s) + 1 /\ t[Len(s) + 1] = e
      /\ \A i \in 1 .. Len(s) : s[i] = t[i]
  BY AppendProperties
<1> HIDE DEF t
<1>2. Len(s) \in Nat /\ Len(s) < Len(t) /\ Len(s) <= Len(t)
  BY <1>1
<1>3. ReplayTo(b, t)[Len(s)] = ReplayTo(b, s)[Len(s)]
  BY <1>1, <1>2, ReplayAgrees
<1>4. /\ ReplayTo(b, t)[Len(s) + 1].db = Project(ReplayTo(b, t)[Len(s)].db, e.body)
      /\ b <= Len(s) => ReplayTo(b, t)[Len(s) + 1].model
                          = Apply(ReplayTo(b, t)[Len(s)].model, e.body)
  BY <1>1, <1>2, ReplayEvent
<1> QED
  BY <1>1, <1>3, <1>4 DEF t, Replay

-----------------------------------------------------------------------------
(* What the subscribers got.  Behind PublishedInOrder: memory is what was      *)
(* published and what still is to be, the events to publish are the log's      *)
(* next, and so are those a transaction has committed or a reconciliation has  *)
(* read.  A reconciliation that fails leaves memory behind the store, so the   *)
(* store must not keep what a failed transaction wrote, or the reconciliation  *)
(* must not fail.                                                             *)
Heals == Atomic \/ "reconcile" \notin Faults

\* The events s follow position n of the log l.
Continues(l, n, s) == /\ n + Len(s) <= Len(l)
                      /\ \A i \in 1 .. Len(s) : s[i] = l[n + i]

PublishInv ==
    /\ dbSeq <= Len(log)
    /\ ~Running => bootSeq = 0 /\ published = <<>>
    /\ bootSeq + Len(published) + Len(outgoing) = snapSeq
    /\ Continues(log, bootSeq, published)
    /\ Continues(log, bootSeq + Len(published), outgoing)
    /\ pc # "publish" => outgoing = <<>>
    /\ Settled => snapSeq = Len(log)
    /\ pc \in {"lookup", "tx", "reconcile"} => startSeq = snapSeq
    /\ pc = "install" => Len(log) = snapSeq + Len(tx.done)
    /\ pc \in {"install", "reconcile"} => Continues(log, snapSeq, tx.done)

(* Events that follow a position still follow it when the log grows.          *)
LEMMA ContinuesGrows ==
    ASSUME NEW l \in Seq(Event), NEW w \in Seq(Event), NEW n \in Nat, NEW s \in Seq(Event),
           Continues(l, n, s)
    PROVE  Continues(l \o w, n, s)
<1>1. n + Len(s) <= Len(l) /\ Len(l \o w) = Len(l) + Len(w) /\ Len(w) \in Nat
      /\ Len(s) \in Nat /\ Len(l) \in Nat
  BY ConcatProperties DEF Continues
<1>2. \A i \in 1 .. Len(s) : (l \o w)[n + i] = l[n + i]
  <2> SUFFICES ASSUME NEW i \in 1 .. Len(s) PROVE (l \o w)[n + i] = l[n + i]
    OBVIOUS
  <2>1. n + i \in 1 .. Len(l) + Len(w) /\ n + i <= Len(l)
    BY <1>1
  <2> QED
    BY <2>1, ConcatProperties
<1> QED
  BY <1>1, <1>2 DEF Continues

(* A log continues with what is appended to it.                               *)
LEMMA ContinuesWith ==
    ASSUME NEW l \in Seq(Event), NEW w \in Seq(Event)
    PROVE  Continues(l \o w, Len(l), w)
  BY ConcatProperties DEF Continues

(* Reading the next event of the log extends what follows a position.         *)
LEMMA ContinuesAppend ==
    ASSUME NEW l \in Seq(Event), NEW n \in Nat, NEW s \in Seq(Event), NEW e \in Event,
           Continues(l, n, s), n + Len(s) < Len(l), e = l[n + Len(s) + 1]
    PROVE  Continues(l, n, Append(s, e))
  BY AppendProperties DEF Continues

(* Taking the first of the events that follow a position moves the position.  *)
LEMMA ContinuesTail ==
    ASSUME NEW l \in Seq(Event), NEW n \in Nat, NEW s \in Seq(Event), s # <<>>,
           Continues(l, n, s)
    PROVE  /\ Head(s) = l[n + 1] /\ n + 1 <= Len(l) /\ Len(s) = Len(Tail(s)) + 1
           /\ Head(s) \in Event /\ Tail(s) \in Seq(Event)
           /\ Continues(l, n + 1, Tail(s))
<1>1. /\ Head(s) \in Event /\ Tail(s) \in Seq(Event) /\ Len(s) \in Nat /\ Len(s) # 0
      /\ Len(Tail(s)) = Len(s) - 1
      /\ \A i \in 1 .. Len(Tail(s)) : Tail(s)[i] = s[i + 1]
      /\ Head(s) = s[1]
  BY HeadTailProperties, EmptySeq
<1>2. \A i \in 1 .. Len(Tail(s)) : Tail(s)[i] = l[n + 1 + i]
  <2> SUFFICES ASSUME NEW i \in 1 .. Len(Tail(s)) PROVE Tail(s)[i] = l[n + 1 + i]
    OBVIOUS
  <2>1. i + 1 \in 1 .. Len(s) /\ n + (i + 1) = n + 1 + i
    BY <1>1
  <2> QED
    BY <1>1, <2>1 DEF Continues
<1> QED
  BY <1>1, <1>2 DEF Continues

(* A position of the log with nothing after it yet.                           *)
LEMMA ContinuesEmpty ==
    ASSUME NEW l \in Seq(Event), NEW n \in Nat, n <= Len(l)
    PROVE  Continues(l, n, <<>>)
  BY DEF Continues

(* The engine starts with nothing in memory and nothing published.            *)
LEMMA PublishInit == Init => PublishInv
<1> SUFFICES ASSUME Init PROVE PublishInv
  OBVIOUS
<1>1. log \in Seq(Event) /\ Len(log) \in Nat
  BY HistoryAssumption DEF Init
<1> QED
  BY <1>1, ContinuesEmpty DEF Init, PublishInv, Running, Settled

(* Every step keeps them: a commit appends what it is about to publish, a      *)
(* failed transaction leaves memory where it was or a reconciliation that will *)
(* read what it left, and publishing moves one event from what is to be sent   *)
(* to what was.                                                                *)
LEMMA PublishStep ==
    Heals /\ TypeInv /\ SyncInv /\ PublishInv /\ [Next]_vars => PublishInv'
<1> SUFFICES ASSUME Heals, TypeInv, SyncInv, PublishInv, [Next]_vars PROVE PublishInv'
  OBVIOUS
<1> USE DEF Running, Settled
<1>t. /\ log \in Seq(Event) /\ Len(log) \in Nat /\ dbSeq \in Nat /\ snapSeq \in Nat
      /\ tx.done \in Seq(Event) /\ Len(tx.done) \in Nat /\ bootSeq \in Nat
      /\ published \in Seq(Event) /\ Len(published) \in Nat
      /\ outgoing \in Seq(Event) /\ Len(outgoing) \in Nat
  BY DEF TypeInv, TypeOK, Tx
<1>p. PublishInv!1 /\ PublishInv!2 /\ PublishInv!3 /\ PublishInv!4 /\ PublishInv!5
      /\ PublishInv!6 /\ PublishInv!7 /\ PublishInv!8 /\ PublishInv!9 /\ PublishInv!10
  BY DEF PublishInv
<1>s. snapSeq <= Len(log)
  BY <1>t, <1>p DEF Continues
<1>1. CASE BootCatchUp
  BY <1>1, <1>t, <1>p DEF BootCatchUp, volatile, PublishInv
<1>2. CASE BootDone
  <2>1. bootSeq' = Len(log) /\ published' = <<>> /\ outgoing' = <<>> /\ log' = log
    BY <1>2, <1>p DEF BootDone, durable
  <2>2. Continues(log', bootSeq', published') /\ Continues(log', bootSeq' + Len(published'), outgoing')
    BY <1>t, <2>1, ContinuesEmpty
  <2> QED
    BY <1>2, <1>t, <1>p, <2>1, <2>2 DEF BootDone, durable, PublishInv
<1>3. CASE Restart
  BY <1>3, <1>p DEF Restart, durable, volatile, PublishInv
<1>4. CASE Crash
  <2>1. bootSeq' = 0 /\ published' = <<>> /\ outgoing' = <<>> /\ log' = log
    BY <1>4 DEF Crash, durable
  <2>2. Continues(log', bootSeq', published') /\ Continues(log', bootSeq' + Len(published'), outgoing')
    BY <1>t, <2>1, ContinuesEmpty
  <2> QED
    BY <1>4, <1>t, <1>p, <2>1, <2>2 DEF Crash, durable, PublishInv
<1>5. ASSUME NEW p \in Call, Dispatch(p) PROVE PublishInv'
  BY <1>5, <1>p DEF Dispatch, durable, PublishInv
<1>6. ASSUME NEW p \in Call, Abandon(p) PROVE PublishInv'
  BY <1>6, <1>p DEF Abandon, durable, volatile, PublishInv
<1>7. CASE Take
  BY <1>7, <1>p DEF Take, durable, PublishInv
<1>8. CASE ReplayReceipt
  BY <1>8, <1>p DEF ReplayReceipt, durable, PublishInv
<1>n. NoTx.done = <<>> /\ [NoTx EXCEPT !.model = readModel].done = <<>>
  BY DEF NoTx
<1>9. CASE LookupFails
  <2>1. tx'.done = <<>> /\ log' = log /\ snapSeq' = snapSeq
    BY <1>9, <1>n DEF LookupFails, durable
  <2>2. Continues(log', snapSeq', tx'.done)
    BY <1>t, <1>s, <2>1, ContinuesEmpty
  <2> QED
    BY <1>9, <1>p, <2>2 DEF LookupFails, durable, PublishInv
<1>10. CASE DecideRejects
  <2>1. tx'.done = <<>> /\ log' = log /\ snapSeq' = snapSeq
    BY <1>10, <1>n DEF DecideRejects, durable
  <2>2. Continues(log', snapSeq', tx'.done)
    BY <1>t, <1>s, <2>1, ContinuesEmpty
  <2> QED
    BY <1>10, <1>p, <2>2 DEF DecideRejects, durable, PublishInv
<1>11. CASE DecideAccepts
  BY <1>11, <1>p DEF DecideAccepts, durable, PublishInv
<1>12. CASE WriteEvent
  BY <1>12, <1>p DEF WriteEvent, durable, PublishInv
<1>13. CASE TxFails
  <2>1. ASSUME NEW w \in Seq(Event), RollBack(w), Len(tx.done) <= Len(w)
        PROVE  PublishInv'
    <3>1. PICK v \in Seq(Event) : log' = log \o v
      <4>1. CASE Atomic
        <5>1. log' = log \o <<>> /\ <<>> \in Seq(Event)
          BY <2>1, <4>1, <1>t, ConcatEmptySeq DEF RollBack
        <5> QED
          BY <5>1
      <4>2. CASE ~Atomic
        BY <2>1, <4>2 DEF RollBack
      <4> QED
        BY <4>1, <4>2
    <3>2. Len(log') = Len(log) + Len(v) /\ Len(v) \in Nat /\ log' \in Seq(Event)
      BY <1>t, <3>1, ConcatProperties
    <3>3. dbSeq' <= Len(log')
      <4>1. CASE Atomic
        BY <2>1, <4>1, <1>t, <1>p DEF RollBack
      <4>2. CASE ~Atomic
        <5>1. log' = log \o w /\ (dbSeq' = dbSeq \/ dbSeq' = Len(log) + Len(tx.done))
          BY <2>1, <4>2 DEF RollBack
        <5>2. Len(log') = Len(log) + Len(w) /\ Len(w) \in Nat
          BY <1>t, <5>1, ConcatProperties
        <5> QED
          BY <2>1, <1>t, <1>p, <5>1, <5>2
      <4> QED
        BY <4>1, <4>2
    <3>4. UNCHANGED <<snapSeq, startSeq, outgoing, published, bootSeq>>
          /\ pc = "tx" /\ pc' = "reconcile" /\ tx'.done = <<>>
      BY <1>13, <1>n DEF TxFails
    <3>5. Continues(log', bootSeq', published')
      BY <1>t, <1>p, <3>1, <3>4, ContinuesGrows
    <3>6. Continues(log', bootSeq' + Len(published'), outgoing')
      <4>1. bootSeq + Len(published) \in Nat
        BY <1>t
      <4> QED
        BY <1>t, <1>p, <3>1, <3>4, <4>1, ContinuesGrows
    <3>7. Continues(log', snapSeq', tx'.done)
      BY <1>t, <1>s, <3>2, <3>4, ContinuesEmpty
    <3> QED
      BY <1>p, <3>3, <3>4, <3>5, <3>6, <3>7 DEF PublishInv
  <2>2. tx.todo # <<>> => /\ Append(tx.done, NextEvent) \in Seq(Event)
                          /\ Len(tx.done) <= Len(Append(tx.done, NextEvent))
    <3> SUFFICES ASSUME tx.todo # <<>>
                 PROVE  /\ Append(tx.done, NextEvent) \in Seq(Event)
                        /\ Len(tx.done) <= Len(Append(tx.done, NextEvent))
      OBVIOUS
    <3>1. Cmd \in Command /\ Head(tx.todo) \in Body
      BY <1>13, CallAssumption DEF TxFails, TypeInv, TypeOK, EnvelopeHeld, Busy, Cmd, Tx
    <3>2. NextEvent \in Event
      BY <1>t, <3>1 DEF NextEvent, Event
    <3> QED
      BY <1>t, <3>2, AppendProperties
  <2>3. Len(tx.done) <= Len(tx.done)
    BY <1>t
  <2> QED
    BY <1>13, <1>t, <2>1, <2>2, <2>3 DEF TxFails
<1>14. CASE Commit
  <2>1. log' = log \o tx.done /\ dbSeq' = Len(log') /\ pc = "tx" /\ pc' = "install"
        /\ UNCHANGED <<tx, snapSeq, startSeq, outgoing, published, bootSeq>>
    BY <1>14 DEF Commit, volatile
  <2>2. Len(log') = Len(log) + Len(tx.done) /\ log' \in Seq(Event) /\ snapSeq = Len(log)
    BY <1>t, <1>p, <2>1, ConcatProperties
  <2>3. Continues(log', bootSeq', published')
    BY <1>t, <1>p, <2>1, ContinuesGrows
  <2>4. Continues(log', bootSeq' + Len(published'), outgoing')
    <3>1. bootSeq + Len(published) \in Nat
      BY <1>t
    <3> QED
      BY <1>t, <1>p, <2>1, <3>1, ContinuesGrows
  <2>5. Continues(log', snapSeq', tx'.done)
    BY <1>t, <2>1, <2>2, ContinuesWith
  <2> QED
    BY <1>t, <1>p, <2>1, <2>2, <2>3, <2>4, <2>5 DEF PublishInv
<1>15. CASE Install
  <2>1. /\ pc = "install" /\ pc' = "publish" /\ outgoing = <<>>
        /\ outgoing' = tx.done /\ snapSeq' = Len(log)
        /\ UNCHANGED <<log, dbSeq, startSeq, published, bootSeq>>
    BY <1>15, <1>p DEF Install, durable
  <2>2. bootSeq + Len(published) = snapSeq
    BY <1>t, <1>p, <2>1
  <2> QED
    BY <1>t, <1>p, <2>1, <2>2 DEF PublishInv
<1>16. CASE PublishOne
  <2>1. /\ pc = "publish" /\ outgoing # <<>>
        /\ published' = Append(published, Head(outgoing)) /\ outgoing' = Tail(outgoing)
        /\ UNCHANGED <<log, dbSeq, snapSeq, startSeq, tx, pc, bootSeq>>
    BY <1>16 DEF PublishOne, durable
  <2>2. bootSeq + Len(published) \in Nat
    BY <1>t
  <2>3. /\ Head(outgoing) = log[bootSeq + Len(published) + 1] /\ Head(outgoing) \in Event
        /\ bootSeq + Len(published) + 1 <= Len(log)
        /\ Len(outgoing) = Len(Tail(outgoing)) + 1
        /\ Continues(log, bootSeq + Len(published) + 1, Tail(outgoing))
    BY <1>t, <1>p, <2>1, <2>2, ContinuesTail
  <2>4. Len(published') = Len(published) + 1
    BY <1>t, <2>1, <2>3, AppendProperties
  <2>5. Continues(log, bootSeq, published')
    <3> DEFINE e == Head(outgoing)
    <3>1. e \in Event /\ bootSeq + Len(published) < Len(log)
          /\ e = log[bootSeq + Len(published) + 1] /\ Continues(log, bootSeq, published)
      BY <1>t, <1>p, <2>3
    <3>2. published' = Append(published, e)
      BY <2>1
    <3> HIDE DEF e
    <3>3. Continues(log, bootSeq, Append(published, e))
      BY <1>t, <3>1, ContinuesAppend
    <3> QED
      BY <3>2, <3>3
  <2>6. bootSeq + Len(published) + 1 = bootSeq + Len(published')
    BY <1>t, <2>4
  <2>7. Tail(outgoing) \in Seq(Event) /\ Len(Tail(outgoing)) \in Nat
    BY <1>t, <2>1, HeadTailProperties
  <2>8. bootSeq + Len(published') + Len(outgoing') = snapSeq
    <3>1. bootSeq + Len(published) + Len(outgoing) = snapSeq
      BY <1>p
    <3>2. Len(outgoing') = Len(Tail(outgoing))
      BY <2>1
    <3> QED
      BY <1>t, <2>3, <2>4, <2>7, <3>1, <3>2
  <2> QED
    BY <1>p, <2>1, <2>3, <2>5, <2>6, <2>8 DEF PublishInv
<1>17. CASE PublishDone
  BY <1>17, <1>p DEF PublishDone, durable, volatile, PublishInv
<1>18. CASE ReconcileRead
  <2> DEFINE e == log[startSeq + Len(tx.done) + 1]
  <2>1. /\ pc = "reconcile" /\ startSeq = snapSeq /\ snapSeq + Len(tx.done) < Len(log)
        /\ UNCHANGED <<log, dbSeq, snapSeq, startSeq, pc, outgoing, published, bootSeq>>
        /\ tx' = [tx EXCEPT !.done = Append(@, e), !.model = Apply(@, e.body)]
    BY <1>18, <1>p DEF ReconcileRead, Reconciled, durable
  <2>2. e = log[snapSeq + Len(tx.done) + 1] /\ e \in Event
    BY <1>t, <2>1
  <2> HIDE DEF e
  <2>3. tx'.done = Append(tx.done, e)
    BY <2>1 DEF TypeInv, TypeOK, Tx
  <2>4. Continues(log', snapSeq', tx'.done)
    BY <1>t, <1>p, <2>1, <2>2, <2>3, ContinuesAppend
  <2> QED
    BY <1>p, <2>1, <2>4 DEF PublishInv
<1>19. CASE ReconcileDone
  <2>1. /\ pc = "reconcile" /\ pc' = "publish" /\ outgoing = <<>> /\ startSeq = snapSeq
        /\ snapSeq + Len(tx.done) >= Len(log)
        /\ outgoing' = tx.done /\ snapSeq' = snapSeq + Len(tx.done)
        /\ UNCHANGED <<log, dbSeq, startSeq, published, bootSeq>>
    BY <1>19, <1>p DEF ReconcileDone, Reconciled, durable
  <2>2. bootSeq + Len(published) = snapSeq
    BY <1>t, <1>p, <2>1
  <2>3. snapSeq' = Len(log)
    BY <1>t, <1>p, <2>1 DEF Continues
  <2>4. bootSeq + Len(published) + Len(tx.done) = snapSeq'
    BY <2>1, <2>2
  <2> QED
    BY <1>p, <2>1, <2>2, <2>3, <2>4 DEF PublishInv
<1>20. CASE ReconcileFails
  <2>1. Atomic
    BY <1>20 DEF ReconcileFails, MayFail, Heals
  <2>2. snapSeq = Len(log)
    BY <1>20, <2>1 DEF SyncInv, ReconcileFails
  <2> QED
    BY <1>20, <1>p, <2>2 DEF ReconcileFails, durable, PublishInv
<1>21. CASE RejectReceipt
  BY <1>21, <1>p DEF RejectReceipt, volatile, PublishInv
<1>22. CASE Reply
  BY <1>22, <1>p DEF Reply, durable, PublishInv
<1>23. CASE UNCHANGED vars
  BY <1>23, <1>p DEF vars, PublishInv
<1> QED
  BY <1>1, <1>2, <1>3, <1>4, <1>5, <1>6, <1>7, <1>8, <1>9, <1>10, <1>11, <1>12,
     <1>13, <1>14, <1>15, <1>16, <1>17, <1>18, <1>19, <1>20, <1>21, <1>22, <1>23
  DEF Next, Boot, Worker

(* On a store that keeps nothing of a failed transaction, or whose reads do    *)
(* not fail when a failure is reconciled, subscribers get each event of this   *)
(* boot once and in log order, and all of them by the time the worker rests.   *)
THEOREM PublishedOnce == Heals => (Spec => []PublishedInOrder)
<1> SUFFICES ASSUME Heals PROVE Spec => []PublishedInOrder
  OBVIOUS
<1>1. Init => TypeInv /\ SyncInv /\ PublishInv
  BY TypeInit, SyncInit, PublishInit
<1>2. (TypeInv /\ SyncInv /\ PublishInv) /\ [Next]_vars => (TypeInv /\ SyncInv /\ PublishInv)'
  BY TypeStep, SyncStep, PublishStep
<1>3. TypeInv /\ PublishInv => PublishedInOrder
  <2> SUFFICES ASSUME TypeInv, PublishInv PROVE PublishedInOrder
    OBVIOUS
  <2>1. /\ Len(log) \in Nat /\ bootSeq \in Nat /\ Len(published) \in Nat
        /\ Continues(log, bootSeq, published)
    BY DEF TypeInv, TypeOK, PublishInv
  <2>2. pc = "idle" => bootSeq + Len(published) + Len(outgoing) = Len(log) /\ outgoing = <<>>
    BY DEF PublishInv, Settled
  <2> QED
    BY <2>1, <2>2 DEF PublishedInOrder, Continues
<1> QED
  BY <1>1, <1>2, <1>3, PTL DEF Spec

-----------------------------------------------------------------------------
(* What a caller was told.  Behind AcceptedIsVisible: an accepted receipt      *)
(* names its command's last event, an accepted answer repeats the receipt, and *)
(* only the command in the worker's hands has events without a receipt yet.    *)
ReceiptOf(c, n) == receipts[c] = [status |-> "accepted", seq |-> n]
LastEventAt(c, n) == n \in EventsAt(c) /\ \A i \in EventsAt(c) : i <= n

VisibleInv ==
    /\ \A c \in Command :
         receipts[c].status = "accepted" => LastEventAt(c, receipts[c].seq)
    /\ \A p \in Call : answer[p].kind = "accepted" =>
         /\ ReceiptOf(CommandOf[p], answer[p].seq)
         /\ Running => answer[p].seq <= bootSeq + Len(published)
    /\ pc = "tx" => /\ receipts[Cmd].status = "none"
                    /\ \A i \in 1 .. Len(tx.done) : tx.done[i].cmd = Cmd
                    /\ tx.done # <<>> \/ tx.todo # <<>>
    /\ pc = "install" => ReceiptOf(Cmd, Len(log))
    /\ pc \in {"reconcile", "publish", "reject", "reply"} /\ verdict.kind = "accepted"
         => ReceiptOf(Cmd, verdict.seq)
    /\ pc \in {"reconcile", "publish", "reject"} /\ verdict.kind = "rejected"
         => receipts[Cmd].status = "none"
    /\ pc = "reject" => verdict.kind = "rejected"

(* Appending events of other commands changes nothing of a command's events.   *)
LEMMA EventsOfOthers ==
    ASSUME log \in Seq(Event), NEW w \in Seq(Event), log' = log \o w, NEW c,
           \A i \in 1 .. Len(w) : w[i].cmd # c
    PROVE  EventsAt(c)' = EventsAt(c)
<1>1. /\ log' \in Seq(Event) /\ Len(log') = Len(log) + Len(w)
      /\ Len(log) \in Nat /\ Len(w) \in Nat
      /\ DOMAIN log = 1 .. Len(log) /\ DOMAIN log' = 1 .. Len(log')
  BY ConcatProperties, LenProperties
<1>2. \A i \in 1 .. Len(log) : log'[i] = log[i]
  BY ConcatProperties
<1>3. ASSUME NEW i \in Len(log) + 1 .. Len(log') PROVE log'[i].cmd # c
  <2>1. i - Len(log) \in 1 .. Len(w) /\ log'[i] = w[i - Len(log)]
    BY <1>1, ConcatProperties
  <2> QED
    BY <2>1
<1> QED
  BY <1>1, <1>2, <1>3 DEF EventsAt

(* The engine starts with no receipts and no answers.                         *)
LEMMA VisibleInit == Init => VisibleInv
  BY CallAssumption DEF Init, VisibleInv, NoReceipt, Plain

(* What VisibleInv says of receipts and answers alone.                        *)
Told ==
    /\ \A c \in Command :
         receipts[c].status = "accepted" => LastEventAt(c, receipts[c].seq)
    /\ \A p \in Call : answer[p].kind = "accepted" =>
         /\ ReceiptOf(CommandOf[p], answer[p].seq)
         /\ Running => answer[p].seq <= bootSeq + Len(published)

(* A step that leaves receipts and log alone, tells no caller of an accepted   *)
(* command and takes back nothing that was published keeps what was told.      *)
LEMMA ToldStands ==
    ASSUME VisibleInv, UNCHANGED <<log, receipts>>,
           \A p \in Call : answer'[p].kind = "accepted" => answer'[p] = answer[p],
           Running' => Running /\ bootSeq + Len(published) <= bootSeq' + Len(published'),
           TypeInv, TypeInv'
    PROVE  Told'
<1>1. \A c \in Command :
        receipts'[c].status = "accepted" => LastEventAt(c, receipts[c].seq)'
  BY DEF VisibleInv, LastEventAt, EventsAt
<1>2. ASSUME NEW p \in Call, answer'[p].kind = "accepted"
      PROVE  /\ ReceiptOf(CommandOf[p], answer[p].seq)'
             /\ Running' => answer'[p].seq <= bootSeq' + Len(published')
  <2>1. answer'[p] = answer[p] /\ ReceiptOf(CommandOf[p], answer[p].seq)
        /\ (Running => answer[p].seq <= bootSeq + Len(published))
    BY <1>2 DEF VisibleInv
  <2>2. answer[p].seq \in Nat /\ bootSeq \in Nat /\ bootSeq' \in Nat
        /\ Len(published) \in Nat /\ Len(published') \in Nat
    BY DEF TypeInv, TypeOK, Answer
  <2> QED
    BY <2>1, <2>2 DEF ReceiptOf
<1> QED
  BY <1>1, <1>2 DEF Told

(* Every step keeps them.  Only Commit makes a receipt accepted, after writing *)
(* its command's events; only Reply tells a caller, after publishing them.     *)
LEMMA VisibleStep ==
    Heals /\ TypeInv /\ SyncInv /\ PublishInv /\ VisibleInv /\ [Next]_vars => VisibleInv'
<1> SUFFICES ASSUME Heals, TypeInv, SyncInv, PublishInv, VisibleInv, [Next]_vars
             PROVE  VisibleInv'
  OBVIOUS
<1> USE DEF Running, Cmd, Plain
<1>y. TypeInv'
  BY TypeStep
<1>t. /\ log \in Seq(Event) /\ Len(log) \in Nat /\ bootSeq \in Nat /\ snapSeq \in Nat
      /\ tx \in Tx /\ tx.done \in Seq(Event) /\ tx.todo \in Seq(Body)
      /\ published \in Seq(Event) /\ Len(published) \in Nat
      /\ receipts \in [Command -> Receipt] /\ verdict \in Answer
      /\ answer \in [Call -> Answer]
  BY DEF TypeInv, TypeOK, Tx
<1>c. Busy => CommandOf[cur] \in Command /\ cur \in Call
  BY CallAssumption DEF TypeInv, EnvelopeHeld
<1>v. Told /\ VisibleInv!3 /\ VisibleInv!4 /\ VisibleInv!5 /\ VisibleInv!6 /\ VisibleInv!7
  BY DEF VisibleInv, Told
<1>w. VisibleInv' <=> Told' /\ VisibleInv!3' /\ VisibleInv!4' /\ VisibleInv!5'
                            /\ VisibleInv!6' /\ VisibleInv!7'
  BY DEF VisibleInv, Told
<1>1. CASE BootCatchUp
  <2>1. Told'
    BY <1>1, <1>t, <1>y, ToldStands DEF BootCatchUp, volatile
  <2> QED
    BY <1>1, <1>w, <2>1 DEF BootCatchUp, volatile
<1>2. CASE BootDone
  <2>1. bootSeq' = Len(log) /\ UNCHANGED <<log, receipts, answer, published>> /\ pc' = "idle"
        /\ dbSeq = Len(log)
    BY <1>2 DEF BootDone, durable
  <2>2. \A c \in Command :
          receipts'[c].status = "accepted" => LastEventAt(c, receipts[c].seq)'
    BY <1>v, <2>1 DEF Told, LastEventAt, EventsAt
  <2>3. ASSUME NEW p \in Call, answer[p].kind = "accepted"
        PROVE  ReceiptOf(CommandOf[p], answer[p].seq)
               /\ answer[p].seq <= bootSeq' + Len(published')
    <3>1. ReceiptOf(CommandOf[p], answer[p].seq) /\ CommandOf[p] \in Command
      BY <1>v, <2>3, CallAssumption DEF Told
    <3>2. answer[p].seq \in DOMAIN log
      BY <1>v, <3>1 DEF Told, ReceiptOf, LastEventAt, EventsAt
    <3>3. Len(published') \in Nat
      BY <1>t, <2>1
    <3> QED
      BY <1>t, <2>1, <3>1, <3>2, <3>3
  <2>4. Told'
    BY <2>1, <2>2, <2>3 DEF Told, ReceiptOf
  <2> QED
    BY <1>w, <2>1, <2>4
<1>3. CASE Restart
  <2>1. Told'
    BY <1>3, <1>t, <1>y, ToldStands DEF Restart, durable, volatile
  <2> QED
    BY <1>3, <1>w, <2>1 DEF Restart, durable, volatile
<1>4. CASE Crash
  <2>1. \A p \in Call : answer'[p].kind = "accepted" => answer'[p] = answer[p]
    BY <1>4, <1>t DEF Crash
  <2>2. Told'
    BY <1>4, <1>t, <1>y, <2>1, ToldStands DEF Crash, durable
  <2> QED
    BY <1>4, <1>w, <2>2 DEF Crash, durable
<1>5. ASSUME NEW p \in Call, Dispatch(p) PROVE VisibleInv'
  <2>1. \A q \in Call : answer'[q].kind = "accepted" => answer'[q] = answer[q]
    BY <1>5, <1>t DEF Dispatch
  <2>2. Told'
    BY <1>5, <1>t, <1>y, <2>1, ToldStands DEF Dispatch, durable
  <2> QED
    BY <1>5, <1>v, <1>w, <2>2 DEF Dispatch, durable, ReceiptOf
<1>6. ASSUME NEW p \in Call, Abandon(p) PROVE VisibleInv'
  <2>1. \A q \in Call : answer'[q].kind = "accepted" => answer'[q] = answer[q]
    BY <1>6, <1>t DEF Abandon
  <2>2. Told'
    BY <1>6, <1>t, <1>y, <2>1, ToldStands DEF Abandon, durable, volatile
  <2> QED
    BY <1>6, <1>v, <1>w, <2>2 DEF Abandon, durable, volatile, ReceiptOf
<1>7. CASE Take
  <2>1. Told'
    BY <1>7, <1>t, <1>y, ToldStands DEF Take, durable
  <2> QED
    BY <1>7, <1>w, <2>1 DEF Take, durable
<1>8. CASE ReplayReceipt
  <2>1. Told'
    BY <1>8, <1>t, <1>y, ToldStands DEF ReplayReceipt, durable
  <2>2. verdict'.kind = "accepted" => ReceiptOf(Cmd, verdict'.seq)
    BY <1>8, <1>t, <1>c DEF ReplayReceipt, ReceiptOf, Receipt, Busy
  <2> QED
    BY <1>8, <1>w, <2>1, <2>2 DEF ReplayReceipt, durable, ReceiptOf
<1>9. CASE LookupFails
  <2>1. Told'
    BY <1>9, <1>t, <1>y, ToldStands DEF LookupFails, durable
  <2> QED
    BY <1>9, <1>w, <2>1 DEF LookupFails, durable
<1>10. CASE DecideRejects
  <2>1. Told'
    BY <1>10, <1>t, <1>y, ToldStands DEF DecideRejects, durable
  <2> QED
    BY <1>10, <1>w, <2>1 DEF DecideRejects, durable, Duplicate
<1>11. CASE DecideAccepts
  <2>1. EventsOf(readModel, Cmd) # <<>>
    BY <1>11, <1>c, EventsAssumption DEF DecideAccepts, TypeInv, TypeOK, Busy
  <2>2. Told'
    BY <1>11, <1>t, <1>y, ToldStands DEF DecideAccepts, durable
  <2>3. tx'.done = <<>> /\ tx'.todo # <<>>
    BY <1>11, <2>1 DEF DecideAccepts
  <2> QED
    BY <1>11, <1>w, <2>2, <2>3 DEF DecideAccepts, durable, Duplicate
<1>12. CASE WriteEvent
  <2>1. Told'
    BY <1>12, <1>t, <1>y, ToldStands DEF WriteEvent, durable
  <2>2. tx'.done = Append(tx.done, NextEvent) /\ NextEvent.cmd = Cmd
    BY <1>12 DEF WriteEvent, NextEvent
  <2>3. tx'.done # <<>> /\ \A i \in 1 .. Len(tx'.done) : tx'.done[i].cmd = Cmd
    <3> DEFINE e == NextEvent
               d == tx.done
    <3>1. d \in Seq(Event) /\ e.cmd = Cmd /\ \A i \in 1 .. Len(d) : d[i].cmd = Cmd
      BY <1>12, <1>t, <1>v, <2>2 DEF WriteEvent
    <3>2. tx'.done = Append(d, e)
      BY <2>2
    <3> HIDE DEF e, d, Cmd
    <3>3. Append(d, e) # <<>> /\ \A i \in 1 .. Len(Append(d, e)) : Append(d, e)[i].cmd = Cmd
      BY <3>1
    <3> QED
      BY <3>2, <3>3
  <2> QED
    BY <1>12, <1>v, <1>w, <2>1, <2>3 DEF WriteEvent, durable
<1>13. CASE TxFails
  <2>1. ASSUME NEW w \in Seq(Event), RollBack(w), \A i \in 1 .. Len(w) : w[i].cmd = Cmd
        PROVE  Told'
    <3>1. PICK v \in Seq(Event) : log' = log \o v /\ \A i \in 1 .. Len(v) : v[i].cmd = Cmd
      <4>1. CASE Atomic
        <5> DEFINE v == <<>>
        <5>1. log' = log \o v /\ v \in Seq(Event)
          BY <2>1, <4>1, <1>t, ConcatEmptySeq DEF RollBack
        <5>2. \A i \in 1 .. Len(v) : v[i].cmd = Cmd
          OBVIOUS
        <5> HIDE DEF v
        <5> QED
          BY <5>1, <5>2
      <4>2. CASE ~Atomic
        BY <2>1, <4>2 DEF RollBack
      <4> QED
        BY <4>1, <4>2
    <3>2. UNCHANGED <<receipts, answer, bootSeq, published>> /\ Running /\ Running'
          /\ receipts[Cmd].status = "none"
      BY <1>13, <1>v, <2>1 DEF TxFails, RollBack
    <3>3. ASSUME NEW c \in Command, receipts[c].status = "accepted"
          PROVE  LastEventAt(c, receipts[c].seq)'
      <4>1. \A i \in 1 .. Len(v) : v[i].cmd # c
        BY <3>1, <3>2, <3>3
      <4>2. EventsAt(c)' = EventsAt(c)
        BY <1>t, <3>1, <4>1, EventsOfOthers
      <4> QED
        BY <1>v, <3>2, <3>3, <4>2 DEF Told, LastEventAt
    <3> QED
      BY <1>v, <3>2, <3>3 DEF Told, ReceiptOf
  <2>2. tx.todo # <<>> =>
          /\ Append(tx.done, NextEvent) \in Seq(Event)
          /\ \A i \in 1 .. Len(Append(tx.done, NextEvent)) :
               Append(tx.done, NextEvent)[i].cmd = Cmd
    <3> SUFFICES ASSUME tx.todo # <<>>
                 PROVE  /\ Append(tx.done, NextEvent) \in Seq(Event)
                        /\ \A i \in 1 .. Len(Append(tx.done, NextEvent)) :
                             Append(tx.done, NextEvent)[i].cmd = Cmd
      OBVIOUS
    <3>1. Cmd \in Command /\ Head(tx.todo) \in Body
      BY <1>13, <1>c, <1>t DEF TxFails, Busy
    <3>2. NextEvent \in Event /\ NextEvent.cmd = Cmd
      BY <1>t, <3>1 DEF NextEvent, Event
    <3> QED
      BY <1>13, <1>t, <1>v, <3>2, AppendProperties DEF TxFails
  <2>3. \A i \in 1 .. Len(tx.done) : tx.done[i].cmd = Cmd
    BY <1>13, <1>v DEF TxFails
  <2>4. Told'
    BY <1>13, <1>t, <2>1, <2>2, <2>3 DEF TxFails
  <2> QED
    BY <1>13, <1>w, <2>4 DEF TxFails
<1>14. CASE Commit
  <2> DEFINE n == Len(log')
  <2>1. /\ pc = "tx" /\ log' = log \o tx.done /\ pc' = "install"
        /\ receipts' = [receipts EXCEPT ![Cmd] = [status |-> "accepted", seq |-> n]]
        /\ UNCHANGED <<answer, cur, bootSeq, published>>
    BY <1>14 DEF Commit, volatile
  <2>2. /\ receipts[Cmd].status = "none" /\ Cmd \in Command
        /\ \A i \in 1 .. Len(tx.done) : tx.done[i].cmd = Cmd
        /\ tx.done # <<>>
    BY <1>14, <1>v, <1>c DEF Commit, Busy
  <2>3. n = Len(log) + Len(tx.done) /\ Len(tx.done) \in Nat /\ Len(tx.done) # 0
        /\ DOMAIN log' = 1 .. n /\ n \in Nat /\ log'[n] = tx.done[Len(tx.done)]
    BY <1>t, <2>1, <2>2, ConcatProperties, LenProperties, EmptySeq
  <2>4. ASSUME NEW c \in Command, receipts'[c].status = "accepted"
        PROVE  LastEventAt(c, receipts[c].seq)'
    <3>1. CASE c = Cmd
      <4>1. receipts'[c].seq = n
        BY <1>t, <2>1, <2>2, <3>1
      <4>2. n \in EventsAt(c)'
        BY <2>2, <2>3, <3>1 DEF EventsAt
      <4>3. \A i \in EventsAt(c)' : i <= n
        BY <2>3 DEF EventsAt
      <4> QED
        BY <4>1, <4>2, <4>3 DEF LastEventAt
    <3>2. CASE c # Cmd
      <4>1. EventsAt(c)' = EventsAt(c)
        BY <1>t, <2>1, <2>2, <3>2, EventsOfOthers
      <4>2. receipts'[c] = receipts[c]
        BY <1>t, <2>1, <3>2
      <4> QED
        BY <1>v, <2>4, <4>1, <4>2 DEF Told, LastEventAt
    <3> QED
      BY <3>1, <3>2
  <2>5. ASSUME NEW p \in Call, answer'[p].kind = "accepted"
        PROVE  /\ ReceiptOf(CommandOf[p], answer[p].seq)'
               /\ answer'[p].seq <= bootSeq' + Len(published')
    <3>1. ReceiptOf(CommandOf[p], answer[p].seq)
          /\ answer[p].seq <= bootSeq + Len(published)
      BY <1>v, <2>1, <2>5 DEF Told
    <3>2. CommandOf[p] # Cmd
      BY <2>2, <3>1 DEF ReceiptOf
    <3> QED
      BY <1>t, <2>1, <3>1, <3>2 DEF ReceiptOf
  <2>6. Told'
    BY <2>4, <2>5 DEF Told
  <2>7. ReceiptOf(Cmd, Len(log))'
    BY <1>t, <2>1, <2>2 DEF ReceiptOf
  <2> QED
    BY <1>w, <2>1, <2>6, <2>7
<1>15. CASE Install
  <2>1. Told'
    BY <1>15, <1>t, <1>y, ToldStands DEF Install, durable
  <2> QED
    BY <1>15, <1>v, <1>w, <2>1 DEF Install, durable, ReceiptOf
<1>16. CASE PublishOne
  <2>1. Len(published') = Len(published) + 1
    BY <1>16, <1>t DEF PublishOne
  <2>2. Told'
    BY <1>16, <1>t, <1>y, <2>1, ToldStands DEF PublishOne, durable
  <2> QED
    BY <1>16, <1>v, <1>w, <2>2 DEF PublishOne, durable, ReceiptOf
<1>17. CASE PublishDone
  <2>1. Told'
    BY <1>17, <1>t, <1>y, ToldStands DEF PublishDone, durable, volatile
  <2> QED
    BY <1>17, <1>v, <1>w, <2>1 DEF PublishDone, durable, volatile, ReceiptOf
<1>18. CASE ReconcileRead
  <2>1. Told'
    BY <1>18, <1>t, <1>y, ToldStands DEF ReconcileRead, durable
  <2> QED
    BY <1>18, <1>v, <1>w, <2>1 DEF ReconcileRead, durable, ReceiptOf
<1>19. CASE ReconcileDone
  <2>1. Told'
    BY <1>19, <1>t, <1>y, ToldStands DEF ReconcileDone, durable
  <2> QED
    BY <1>19, <1>v, <1>w, <2>1 DEF ReconcileDone, durable, ReceiptOf
<1>20. CASE ReconcileFails
  <2>1. Told'
    BY <1>20, <1>t, <1>y, ToldStands DEF ReconcileFails, durable
  <2> QED
    BY <1>20, <1>v, <1>w, <2>1 DEF ReconcileFails, durable, ReceiptOf
<1>21. CASE RejectReceipt
  <2>1. /\ pc = "reject" /\ pc' = "reply" /\ verdict'.kind = "rejected"
        /\ UNCHANGED <<log, answer, cur, bootSeq, published>>
        /\ receipts[Cmd].status = "none"
    BY <1>21, <1>v DEF RejectReceipt, volatile
  <2>2. \A c \in Command : receipts'[c].status = "accepted" => receipts'[c] = receipts[c]
    BY <1>21, <1>t DEF RejectReceipt
  <2>3. \A c \in Command : receipts[c].status = "accepted" => receipts'[c] = receipts[c]
    BY <1>21, <1>t, <2>1 DEF RejectReceipt
  <2>4. Told'
    <3>1. \A c \in Command :
            receipts'[c].status = "accepted" => LastEventAt(c, receipts[c].seq)'
      BY <1>v, <2>1, <2>2 DEF Told, LastEventAt, EventsAt
    <3>2. ASSUME NEW p \in Call, answer'[p].kind = "accepted"
          PROVE  /\ ReceiptOf(CommandOf[p], answer[p].seq)'
                 /\ answer'[p].seq <= bootSeq' + Len(published')
      BY <1>v, <2>1, <2>3, <3>2, CallAssumption DEF Told, ReceiptOf
    <3> QED
      BY <3>1, <3>2 DEF Told
  <2> QED
    BY <1>w, <2>1, <2>4
<1>22. CASE Reply
  <2>1. /\ pc = "reply" /\ pc' = "idle" /\ UNCHANGED <<log, receipts, bootSeq, published>>
        /\ answer' = [answer EXCEPT ![cur] = Settle(@)] /\ cur \in Call
        /\ CommandOf[cur] \in Command
    BY <1>22, <1>c DEF Reply, durable, Busy
  <2>2. \A c \in Command :
          receipts'[c].status = "accepted" => LastEventAt(c, receipts[c].seq)'
    BY <1>v, <2>1 DEF Told, LastEventAt, EventsAt
  <2>3. ASSUME NEW p \in Call, answer'[p].kind = "accepted"
        PROVE  /\ ReceiptOf(CommandOf[p], answer[p].seq)'
               /\ answer'[p].seq <= bootSeq' + Len(published')
    <3>1. CASE answer'[p] = answer[p]
      BY <1>v, <2>1, <2>3, <3>1 DEF Told, ReceiptOf
    <3>2. CASE answer'[p] # answer[p]
      <4>1. p = cur /\ answer'[p] = verdict
        BY <1>t, <2>1, <3>2 DEF Settle
      <4>2. ReceiptOf(CommandOf[cur], verdict.seq)
        BY <1>v, <2>1, <2>3, <4>1
      <4>3. verdict.seq \in 1 .. Len(log)
        <5>1. LastEventAt(CommandOf[cur], receipts[CommandOf[cur]].seq)
              /\ receipts[CommandOf[cur]].seq = verdict.seq
          BY <1>v, <2>1, <4>2 DEF Told, ReceiptOf
        <5>2. verdict.seq \in DOMAIN log
          BY <5>1 DEF LastEventAt, EventsAt
        <5> QED
          BY <1>t, <5>2, LenProperties
      <4>4. snapSeq = Len(log) /\ outgoing = <<>>
            /\ bootSeq + Len(published) + Len(outgoing) = snapSeq
        BY <2>1 DEF PublishInv, Settled
      <4>5. verdict.seq <= bootSeq + Len(published)
        BY <1>t, <4>3, <4>4
      <4> QED
        BY <2>1, <4>1, <4>2, <4>5 DEF ReceiptOf
    <3> QED
      BY <3>1, <3>2
  <2>4. Told'
    BY <2>1, <2>2, <2>3 DEF Told
  <2> QED
    BY <1>w, <2>1, <2>4
<1>23. CASE UNCHANGED vars
  BY <1>23, <1>v, <1>w DEF vars, Told, LastEventAt, EventsAt, ReceiptOf
<1> QED
  BY <1>1, <1>2, <1>3, <1>4, <1>5, <1>6, <1>7, <1>8, <1>9, <1>10, <1>11, <1>12,
     <1>13, <1>14, <1>15, <1>16, <1>17, <1>18, <1>19, <1>20, <1>21, <1>22, <1>23
  DEF Next, Boot, Worker

(* On such a store, what a caller was told is accepted is in the log at the    *)
(* sequence it was told, in the read model and with the subscribers: no crash, *)
(* retry or failure in between takes it back.                                  *)
THEOREM AcceptedStands == Heals => (Spec => []AcceptedIsVisible)
<1> SUFFICES ASSUME Heals PROVE Spec => []AcceptedIsVisible
  OBVIOUS
<1> DEFINE Inv == TypeInv /\ SyncInv /\ PublishInv /\ VisibleInv
<1>1. Init => Inv
  BY TypeInit, SyncInit, PublishInit, VisibleInit
<1>2. Inv /\ [Next]_vars => Inv'
  BY TypeStep, SyncStep, PublishStep, VisibleStep
<1>3. Inv => AcceptedIsVisible
  <2> SUFFICES ASSUME Inv, NEW p \in Call, answer[p].kind = "accepted"
               PROVE  LET n == answer[p].seq
                      IN /\ n \in EventsAt(CommandOf[p])
                         /\ \A i \in EventsAt(CommandOf[p]) : i <= n
                         /\ Running => n <= snapSeq /\ n <= bootSeq + Len(published)
    BY DEF AcceptedIsVisible
  <2>1. ReceiptOf(CommandOf[p], answer[p].seq) /\ CommandOf[p] \in Command
        /\ (Running => answer[p].seq <= bootSeq + Len(published))
    BY CallAssumption DEF VisibleInv
  <2>2. LastEventAt(CommandOf[p], answer[p].seq)
    BY <2>1 DEF VisibleInv, ReceiptOf
  <2>3. /\ bootSeq + Len(published) + Len(outgoing) = snapSeq /\ answer[p].seq \in Nat
        /\ Len(outgoing) \in Nat /\ bootSeq \in Nat /\ Len(published) \in Nat
    BY DEF PublishInv, TypeInv, TypeOK, Answer
  <2> QED
    BY <2>1, <2>2, <2>3 DEF LastEventAt
<1> QED
  BY <1>1, <1>2, <1>3, PTL DEF Spec

-----------------------------------------------------------------------------
(* What the worker decides against.  Behind ReadModelIsReplay: every model and *)
(* every table the engine holds is what the part of the log it stands for      *)
(* leaves; the tables do not depend on the boot.                              *)
ReplayInv ==
    /\ Running => readModel = ReplayTo(bootSeq, log)[snapSeq].model
    /\ Atomic \/ ~Running => \A b \in Nat : db = ReplayTo(b, log)[dbSeq].db
    /\ pc = "tx" => tx.model = Replay(bootSeq, log \o tx.done).model
    /\ pc = "tx" /\ Atomic => \A b \in Nat : tx.db = Replay(b, log \o tx.done).db
    /\ pc = "install" => tx.model = Replay(bootSeq, log).model
    /\ pc = "reconcile" =>
         tx.model = ReplayTo(bootSeq, log)[snapSeq + Len(tx.done)].model

(* Such a store, when its failures and restarts do not meet: the tables of a   *)
(* store that keeps half a transaction are wrong, and only a restart reads them.*)
Recovers == Atomic \/ Faults \cap {"reconcile", "crash"} = {}

(* A longer log leaves the same as its beginning.                             *)
LEMMA ReplayPrefix ==
    ASSUME NEW b, NEW s \in Seq(Event), NEW w \in Seq(Event), NEW n \in 0 .. Len(s)
    PROVE  ReplayTo(b, s \o w)[n] = ReplayTo(b, s)[n]
<1>1. /\ s \o w \in Seq(Event) /\ Len(s) <= Len(s \o w)
      /\ \A i \in 1 .. Len(s) : s[i] = (s \o w)[i]
  BY ConcatProperties
<1> QED
  BY <1>1, ReplayAgrees

(* Writing one more event of a transaction takes it into what the log would    *)
(* leave.                                                                      *)
LEMMA ReplayWritten ==
    ASSUME NEW b \in Nat, NEW s \in Seq(Event), NEW d \in Seq(Event), NEW e \in Event
    PROVE  /\ Replay(b, s \o Append(d, e)).db = Project(Replay(b, s \o d).db, e.body)
           /\ b <= Len(s) => Replay(b, s \o Append(d, e)).model
                               = Apply(Replay(b, s \o d).model, e.body)
<1>1. s \o Append(d, e) = Append(s \o d, e)
  <2>1. <<e>> \in Seq(Event) /\ s \o d \in Seq(Event)
    BY ConcatProperties
  <2>2. Append(d, e) = d \o <<e>> /\ Append(s \o d, e) = (s \o d) \o <<e>>
    BY <2>1, AppendIsConcat
  <2> QED
    BY <2>1, <2>2, ConcatAssociative
<1>2. s \o d \in Seq(Event) /\ (b <= Len(s) => b <= Len(s \o d))
  <2>1. Len(s \o d) = Len(s) + Len(d) /\ Len(s) \in Nat /\ Len(d) \in Nat
    BY ConcatProperties
  <2> QED
    BY <2>1, ConcatProperties
<1> QED
  BY <1>1, <1>2, ReplayAppend

(* The engine starts with an empty model and none of the log read.            *)
LEMMA ReplayInit == Init => ReplayInv
<1> SUFFICES ASSUME Init PROVE ReplayInv
  OBVIOUS
<1>1. log \in Seq(Event)
  BY HistoryAssumption DEF Init
<1>2. \A b \in Nat : ReplayTo(b, log)[0].db = EmptyTable
  BY <1>1, ReplayToStep DEF Nothing
<1> QED
  BY <1>2 DEF Init, ReplayInv, Running

(* Every step keeps them: models and tables change only by taking in the event *)
(* that the log has, or will have, next, and memory by being loaded.            *)
LEMMA ReplayStep ==
    Recovers /\ TypeInv /\ SyncInv /\ PublishInv /\ ReplayInv /\ [Next]_vars => ReplayInv'
<1> SUFFICES ASSUME Recovers, TypeInv, SyncInv, PublishInv, ReplayInv, [Next]_vars
             PROVE  ReplayInv'
  OBVIOUS
<1> USE DEF Running
<1>t. /\ log \in Seq(Event) /\ Len(log) \in Nat /\ dbSeq \in Nat /\ snapSeq \in Nat
      /\ tx \in Tx /\ tx.done \in Seq(Event) /\ tx.todo \in Seq(Body)
      /\ Len(tx.done) \in Nat /\ bootSeq \in Nat
  BY DEF TypeInv, TypeOK, Tx
<1>p. /\ snapSeq <= Len(log) /\ dbSeq <= Len(log) /\ bootSeq <= snapSeq
      /\ pc \in {"lookup", "tx", "reconcile"} => startSeq = snapSeq
      /\ pc = "tx" => snapSeq = Len(log)
      /\ pc = "reconcile" => snapSeq + Len(tx.done) <= Len(log)
  <2>1. /\ bootSeq + Len(published) + Len(outgoing) = snapSeq
        /\ bootSeq + Len(published) + Len(outgoing) <= Len(log)
    BY DEF PublishInv, Continues
  <2>2. Len(published) \in Nat /\ Len(outgoing) \in Nat
    BY DEF TypeInv, TypeOK
  <2>3. bootSeq <= snapSeq
    BY <1>t, <2>1, <2>2
  <2> QED
    BY <2>1, <2>3 DEF PublishInv, Settled, Continues
<1>r. /\ ReplayInv!1 /\ ReplayInv!2 /\ ReplayInv!3 /\ ReplayInv!4 /\ ReplayInv!5
      /\ ReplayInv!6
  BY DEF ReplayInv
<1>1. CASE BootCatchUp
  <2>1. \A b \in Nat : ReplayTo(b, log)[dbSeq + 1].db
                          = Project(ReplayTo(b, log)[dbSeq].db, log[dbSeq + 1].body)
    BY <1>1, <1>t, ReplayEvent DEF BootCatchUp
  <2> QED
    BY <1>1, <1>r, <2>1 DEF BootCatchUp, volatile, ReplayInv
<1>2. CASE BootDone
  <2>1. /\ pc = "boot" /\ pc' = "idle" /\ dbSeq = Len(log) /\ UNCHANGED <<log, db, dbSeq>>
        /\ readModel' = Load(db) /\ snapSeq' = dbSeq /\ bootSeq' = dbSeq
    BY <1>2 DEF BootDone, durable
  <2>2. ReplayTo(dbSeq, log)[dbSeq].model = Load(ReplayTo(dbSeq, log)[dbSeq].db)
    <3>1. dbSeq \in 0 .. Len(log) /\ dbSeq <= dbSeq
      BY <1>t, <2>1
    <3> QED
      BY <1>t, <3>1, ReplayLoads
  <2> QED
    BY <1>r, <1>t, <2>1, <2>2 DEF ReplayInv
<1>3. CASE Restart
  BY <1>3, <1>r DEF Restart, durable, volatile, ReplayInv
<1>4. CASE Crash
  <2>1. Atomic
    BY <1>4 DEF Crash, MayFail, Recovers
  <2> QED
    BY <1>4, <1>r, <2>1 DEF Crash, durable, ReplayInv
<1>5. ASSUME NEW p \in Call, Dispatch(p) PROVE ReplayInv'
  BY <1>5, <1>r DEF Dispatch, durable, ReplayInv
<1>6. ASSUME NEW p \in Call, Abandon(p) PROVE ReplayInv'
  BY <1>6, <1>r DEF Abandon, durable, volatile, ReplayInv
<1>7. CASE Take
  BY <1>7, <1>r DEF Take, durable, ReplayInv
<1>8. CASE ReplayReceipt
  BY <1>8, <1>r DEF ReplayReceipt, durable, ReplayInv
<1>n. /\ [NoTx EXCEPT !.model = readModel].done = <<>>
      /\ [NoTx EXCEPT !.model = readModel].model = readModel
      /\ snapSeq + Len(<<>>) = snapSeq
  BY <1>t DEF NoTx
<1>9. CASE LookupFails
  BY <1>9, <1>r, <1>n DEF LookupFails, durable, ReplayInv
<1>10. CASE DecideRejects
  BY <1>10, <1>r, <1>n DEF DecideRejects, durable, ReplayInv
<1>11. CASE DecideAccepts
  <2>1. /\ pc = "lookup" /\ pc' = "tx" /\ tx'.model = readModel /\ tx'.db = db
        /\ tx'.done = <<>> /\ UNCHANGED <<log, db, dbSeq, readModel, snapSeq, bootSeq>>
    BY <1>11 DEF DecideAccepts, durable
  <2>2. snapSeq = Len(log) /\ (Atomic => dbSeq = Len(log))
    BY <2>1 DEF PublishInv, SyncInv, Settled
  <2>3. log \o <<>> = log
    BY <1>t, ConcatEmptySeq
  <2> QED
    BY <1>r, <2>1, <2>2, <2>3 DEF ReplayInv, Replay
<1>12. CASE WriteEvent
  <2>1. /\ pc = "tx" /\ pc' = "tx"
        /\ UNCHANGED <<log, db, dbSeq, readModel, snapSeq, bootSeq>>
        /\ tx'.done = Append(tx.done, NextEvent)
        /\ tx'.model = Apply(tx.model, NextEvent.body)
        /\ tx'.db = Project(tx.db, NextEvent.body)
    BY <1>12 DEF WriteEvent, NextEvent, durable
  <2>2. NextEvent \in Event
    <3>1. Cmd \in Command /\ Head(tx.todo) \in Body
      BY <1>12, <1>t, CallAssumption DEF WriteEvent, TypeInv, EnvelopeHeld, Busy, Cmd
    <3> QED
      BY <1>t, <3>1 DEF NextEvent, Event
  <2>3. Replay(bootSeq, log \o Append(tx.done, NextEvent)).model
          = Apply(Replay(bootSeq, log \o tx.done).model, NextEvent.body)
    <3>1. bootSeq <= Len(log)
      BY <1>t, <1>p
    <3> QED
      BY <1>t, <2>2, <3>1, ReplayWritten
  <2>4. \A b \in Nat : Replay(b, log \o Append(tx.done, NextEvent)).db
                          = Project(Replay(b, log \o tx.done).db, NextEvent.body)
    BY <1>t, <2>2, ReplayWritten
  <2> QED
    BY <1>r, <2>1, <2>3, <2>4 DEF ReplayInv
<1>13. CASE TxFails
  <2>1. ASSUME NEW w \in Seq(Event), RollBack(w) PROVE ReplayInv'
    <3>1. /\ pc = "tx" /\ pc' = "reconcile" /\ UNCHANGED <<readModel, snapSeq, bootSeq>>
          /\ tx'.done = <<>> /\ tx'.model = readModel
      BY <1>13, <1>n DEF TxFails
    <3>2. ReplayTo(bootSeq, log')[snapSeq] = ReplayTo(bootSeq, log)[snapSeq]
      <4>1. log' = log \/ log' = log \o w
        BY <2>1 DEF RollBack
      <4>2. snapSeq \in 0 .. Len(log)
        BY <1>t, <1>p
      <4>3. ReplayTo(bootSeq, log \o w)[snapSeq] = ReplayTo(bootSeq, log)[snapSeq]
        BY <1>t, <4>2, ReplayPrefix
      <4> QED
        BY <4>1, <4>3
    <3>3. Atomic => UNCHANGED <<log, db, dbSeq>>
      BY <2>1 DEF RollBack
    <3> QED
      BY <1>r, <1>n, <3>1, <3>2, <3>3 DEF ReplayInv
  <2>2. tx.todo # <<>> => Append(tx.done, NextEvent) \in Seq(Event)
    <3> SUFFICES ASSUME tx.todo # <<>> PROVE Append(tx.done, NextEvent) \in Seq(Event)
      OBVIOUS
    <3>1. Cmd \in Command /\ Head(tx.todo) \in Body
      BY <1>13, <1>t, CallAssumption DEF TxFails, TypeInv, EnvelopeHeld, Busy, Cmd
    <3>2. NextEvent \in Event
      BY <1>t, <3>1 DEF NextEvent, Event
    <3> QED
      BY <1>t, <3>2, AppendProperties
  <2> QED
    BY <1>13, <1>t, <2>1, <2>2 DEF TxFails
<1>14. CASE Commit
  <2>1. /\ pc = "tx" /\ pc' = "install" /\ log' = log \o tx.done
        /\ db' = tx.db /\ dbSeq' = Len(log')
        /\ UNCHANGED <<tx, readModel, snapSeq, bootSeq>>
    BY <1>14 DEF Commit, volatile
  <2>2. tx.model = Replay(bootSeq, log').model
    BY <1>r, <2>1
  <2>3. Atomic => \A b \in Nat : db' = ReplayTo(b, log')[dbSeq'].db
    BY <1>r, <2>1 DEF Replay
  <2>4. ReplayTo(bootSeq, log')[snapSeq] = ReplayTo(bootSeq, log)[snapSeq]
    <3>1. snapSeq \in 0 .. Len(log)
      BY <1>t, <1>p
    <3> QED
      BY <1>t, <2>1, <3>1, ReplayPrefix
  <2> QED
    BY <1>r, <2>1, <2>2, <2>3, <2>4 DEF ReplayInv
<1>15. CASE Install
  BY <1>15, <1>r DEF Install, durable, ReplayInv, Replay
<1>16. CASE PublishOne
  BY <1>16, <1>r DEF PublishOne, durable, ReplayInv
<1>17. CASE PublishDone
  BY <1>17, <1>r DEF PublishDone, durable, volatile, ReplayInv
<1>18. CASE ReconcileRead
  <2> DEFINE k == snapSeq + Len(tx.done)
             e == log[startSeq + Len(tx.done) + 1]
  <2>1. /\ pc = "reconcile" /\ k < Len(log)
        /\ UNCHANGED <<log, db, dbSeq, readModel, snapSeq, bootSeq, pc>>
        /\ tx' = [tx EXCEPT !.done = Append(@, e), !.model = Apply(@, e.body)]
    BY <1>18, <1>p DEF ReconcileRead, Reconciled, durable
  <2>2. k \in Nat /\ k + 1 \in 1 .. Len(log) /\ (k + 1) - 1 = k /\ e = log[k + 1]
    BY <1>t, <1>p, <2>1
  <2>3. e \in Event
    BY <1>t, <2>2
  <2> HIDE DEF e
  <2>4. tx'.done = Append(tx.done, e) /\ tx'.model = Apply(tx.model, e.body)
    BY <1>t, <2>1 DEF Tx
  <2>5. snapSeq + Len(tx'.done) = k + 1
    BY <1>t, <2>3, <2>4, AppendProperties
  <2>6. ReplayTo(bootSeq, log)[k + 1].model
          = Apply(ReplayTo(bootSeq, log)[k].model, e.body)
    <3>1. bootSeq <= k
      BY <1>t, <1>p
    <3> QED
      BY <1>t, <2>1, <2>2, <3>1, ReplayEvent
  <2> QED
    BY <1>r, <2>1, <2>4, <2>5, <2>6 DEF ReplayInv
<1>19. CASE ReconcileDone
  BY <1>19, <1>r DEF ReconcileDone, durable, ReplayInv
<1>20. CASE ReconcileFails
  BY <1>20, <1>r DEF ReconcileFails, durable, ReplayInv
<1>21. CASE RejectReceipt
  BY <1>21, <1>r DEF RejectReceipt, volatile, ReplayInv
<1>22. CASE Reply
  BY <1>22, <1>r DEF Reply, durable, ReplayInv
<1>23. CASE UNCHANGED vars
  BY <1>23, <1>r DEF vars, ReplayInv
<1> QED
  BY <1>1, <1>2, <1>3, <1>4, <1>5, <1>6, <1>7, <1>8, <1>9, <1>10, <1>11, <1>12,
     <1>13, <1>14, <1>15, <1>16, <1>17, <1>18, <1>19, <1>20, <1>21, <1>22, <1>23
  DEF Next, Boot, Worker

(* The read model every command is decided against is what the tables held at  *)
(* the boot and the whole log since: on a transactional store always, on one    *)
(* that keeps what a failed transaction wrote as long as every reconciliation   *)
(* succeeds.                                                                   *)
THEOREM DecidesOnReplay == Recovers => (Spec => []ReadModelIsReplay)
<1> SUFFICES ASSUME Recovers PROVE Spec => []ReadModelIsReplay
  OBVIOUS
<1> DEFINE Inv == TypeInv /\ SyncInv /\ PublishInv /\ ReplayInv
<1>0. Heals
  BY DEF Recovers, Heals
<1>1. Init => Inv
  BY TypeInit, SyncInit, PublishInit, ReplayInit
<1>2. Inv /\ [Next]_vars => Inv'
  BY <1>0, TypeStep, SyncStep, PublishStep, ReplayStep
<1>3. Inv => ReadModelIsReplay
  <2> SUFFICES ASSUME Inv, Settled PROVE readModel = Replay(bootSeq, log).model /\ snapSeq = Len(log)
    BY DEF ReadModelIsReplay
  <2>1. snapSeq = Len(log)
    BY DEF PublishInv
  <2>2. readModel = ReplayTo(bootSeq, log)[snapSeq].model
    BY DEF ReplayInv, Running, Settled
  <2> QED
    BY <2>1, <2>2 DEF Replay
<1> QED
  BY <1>1, <1>2, <1>3, PTL DEF Spec

-----------------------------------------------------------------------------
(* The serial execution.  Behind LogIsSerialExecution: the open transaction    *)
(* has written the first events of what the command was decided to do.         *)
Bodies(d) == [k \in 1 .. Len(d) |-> d[k].body]

DecidedInv ==
    pc = "tx" => /\ Accepts(readModel, Cmd)
                 /\ EventsOf(readModel, Cmd) = Bodies(tx.done) \o tx.todo

(* The payloads of a sequence of events.                                      *)
LEMMA BodiesType ==
    ASSUME NEW s \in Seq(Event)
    PROVE  /\ Bodies(s) \in Seq(Body) /\ Len(Bodies(s)) = Len(s)
           /\ \A i \in 1 .. Len(s) : Bodies(s)[i] = s[i].body
<1>1. Len(s) \in Nat /\ \A i \in 1 .. Len(s) : s[i].body \in Body
  <2>1. \A i \in 1 .. Len(s) : s[i] \in Event
    BY ElementOfSeq
  <2> QED
    BY <2>1 DEF Event
<1>2. Bodies(s) \in [1 .. Len(s) -> Body]
  BY <1>1 DEF Bodies
<1>3. Bodies(s) \in Seq(Body)
  BY <1>1, <1>2, SeqDef
<1>4. 1 .. Len(Bodies(s)) = 1 .. Len(s) /\ Len(Bodies(s)) \in Nat
  BY <1>2, <1>3, LenProperties
<1>5. Len(Bodies(s)) = Len(s)
  BY <1>1, <1>4
<1> QED
  BY <1>3, <1>5 DEF Bodies

(* Moving the next event from what is to be written to what was changes        *)
(* nothing of the two together.                                                *)
LEMMA BodiesMove ==
    ASSUME NEW d \in Seq(Event), NEW e \in Event, NEW t \in Seq(Body), t # <<>>,
           e.body = Head(t)
    PROVE  Bodies(Append(d, e)) \o Tail(t) = Bodies(d) \o t
<1>1. e.body \in Body /\ Bodies(d) \in Seq(Body) /\ Bodies(Append(d, e)) \in Seq(Body)
      /\ Append(d, e) \in Seq(Event)
  BY BodiesType, AppendProperties DEF Event
<1>2. Bodies(Append(d, e)) = Append(Bodies(d), e.body)
  <2> DEFINE a == Bodies(Append(d, e))
             b == Append(Bodies(d), e.body)
  <2>1. Len(a) = Len(d) + 1 /\ \A i \in 1 .. Len(d) + 1 : a[i] = Append(d, e)[i].body
    <3> DEFINE s == Append(d, e)
    <3>1. s \in Seq(Event) /\ Len(s) = Len(d) + 1
      BY AppendProperties
    <3> HIDE DEF s
    <3>2. Len(Bodies(s)) = Len(d) + 1 /\ \A i \in 1 .. Len(d) + 1 : Bodies(s)[i] = s[i].body
      BY <3>1, BodiesType
    <3> QED
      BY <3>2 DEF s
  <2>2. b \in Seq(Body) /\ Len(b) = Len(d) + 1 /\ b[Len(d) + 1] = e.body
        /\ \A i \in 1 .. Len(d) : b[i] = d[i].body
    BY <1>1, BodiesType, AppendProperties
  <2>3. ASSUME NEW i \in 1 .. Len(a) PROVE a[i] = b[i]
    <3>1. CASE i = Len(d) + 1
      BY <2>1, <2>2, <3>1, AppendProperties
    <3>2. CASE i \in 1 .. Len(d)
      BY <2>1, <2>2, <3>2, AppendProperties
    <3>3. Len(d) \in Nat
      OBVIOUS
    <3>4. i \in 1 .. Len(d) + 1
      BY <2>1
    <3>5. i = Len(d) + 1 \/ i \in 1 .. Len(d)
      BY <3>3, <3>4
    <3> QED
      BY <3>1, <3>2, <3>5
  <2>4. a \in Seq(Body)
    BY <1>1
  <2> HIDE DEF a, b
  <2>5. a = b
    BY <2>1, <2>2, <2>3, <2>4, SeqEqual
  <2> QED
    BY <2>5 DEF a, b
<1>3. t = <<e.body>> \o Tail(t) /\ Tail(t) \in Seq(Body)
  BY HeadTailProperties
<1>4. Append(Bodies(d), e.body) = Bodies(d) \o <<e.body>> /\ <<e.body>> \in Seq(Body)
  BY <1>1, AppendIsConcat
<1> QED
  BY <1>1, <1>2, <1>3, <1>4, ConcatAssociative

(* At first nothing is decided.                                               *)
LEMMA DecidedInit == Init => DecidedInv
  BY DEF Init, DecidedInv

(* Every step of a transaction writes the next of the events its command was   *)
(* decided to have.                                                           *)
LEMMA DecidedStep == TypeInv /\ DecidedInv /\ [Next]_vars => DecidedInv'
<1> SUFFICES ASSUME TypeInv, DecidedInv, [Next]_vars PROVE DecidedInv'
  OBVIOUS
<1>t. tx.done \in Seq(Event) /\ tx.todo \in Seq(Body) /\ Len(tx.done) \in Nat
  BY DEF TypeInv, TypeOK, Tx
<1>c. Busy => Cmd \in Command
  BY CallAssumption DEF TypeInv, EnvelopeHeld, Cmd
<1>11. CASE DecideAccepts
  <2>1. /\ UNCHANGED <<readModel, cur>> /\ tx'.done = <<>>
        /\ tx'.todo = EventsOf(readModel, Cmd) /\ Accepts(readModel, Cmd)
    BY <1>11 DEF DecideAccepts, durable
  <2>2. EventsOf(readModel, Cmd) \in Seq(Body)
    BY <1>11, <1>c, EventsAssumption DEF DecideAccepts, Busy, TypeInv, TypeOK
  <2>3. Bodies(<<>>) = <<>>
    BY DEF Bodies
  <2>4. EventsOf(readModel, Cmd) = Bodies(tx'.done) \o tx'.todo
    BY <2>1, <2>2, <2>3, ConcatEmptySeq
  <2> QED
    BY <2>1, <2>4 DEF DecidedInv, Cmd
<1>12. CASE WriteEvent
  <2>1. /\ UNCHANGED <<readModel, cur>> /\ tx'.done = Append(tx.done, NextEvent)
        /\ tx'.todo = Tail(tx.todo) /\ pc = "tx" /\ tx.todo # <<>>
    BY <1>12 DEF WriteEvent, durable
  <2>2. NextEvent \in Event /\ NextEvent.body = Head(tx.todo)
    <3>1. Cmd \in Command /\ Head(tx.todo) \in Body
      BY <2>1, <1>c, <1>t DEF Busy
    <3> QED
      BY <1>t, <3>1 DEF NextEvent, Event
  <2>3. Bodies(tx'.done) \o tx'.todo = Bodies(tx.done) \o tx.todo
    BY <1>t, <2>1, <2>2, BodiesMove
  <2> QED
    BY <2>1, <2>3 DEF DecidedInv, Cmd
<1>1. ASSUME pc' # "tx" PROVE DecidedInv'
  BY <1>1 DEF DecidedInv
<1>2. ASSUME UNCHANGED <<pc, readModel, cur, tx>> PROVE DecidedInv'
  BY <1>2 DEF DecidedInv, Cmd
<1>3. CASE BootCatchUp \/ BootDone \/ Restart \/ Crash
  BY <1>3, <1>1 DEF BootCatchUp, BootDone, Restart, Crash
<1>4. CASE Take \/ ReplayReceipt \/ LookupFails \/ DecideRejects
  BY <1>4, <1>1 DEF Take, ReplayReceipt, LookupFails, DecideRejects
<1>5. CASE TxFails \/ Commit \/ RejectReceipt
  BY <1>5, <1>1 DEF TxFails, Commit, RejectReceipt
<1>6. CASE Install \/ PublishOne \/ PublishDone \/ Reply
  BY <1>6, <1>1 DEF Install, PublishOne, PublishDone, Reply
<1>7. CASE ReconcileRead \/ ReconcileDone \/ ReconcileFails
  BY <1>7, <1>1 DEF ReconcileRead, ReconcileDone, ReconcileFails
<1>8. ASSUME NEW p \in Call, Dispatch(p) \/ Abandon(p) PROVE DecidedInv'
  BY <1>8, <1>2 DEF Dispatch, Abandon, volatile
<1>9. CASE UNCHANGED vars
  BY <1>9, <1>2 DEF vars
<1> QED
  BY <1>3, <1>4, <1>5, <1>6, <1>7, <1>8, <1>9, <1>11, <1>12 DEF Next, Boot, Worker

(* The log only grows, and only by the first events of what a command was      *)
(* decided to do against all of the log before: all of them, when it commits.  *)
Decided(m, c, w) ==
    /\ Accepts(m, c) /\ Len(w) <= Len(EventsOf(m, c))
    /\ \A i \in 1 .. Len(w) : w[i].body = EventsOf(m, c)[i]

LEMMA LogGrows ==
    ASSUME TypeInv, PublishInv, ReplayInv, DecidedInv, [Next]_vars
    PROVE  \/ UNCHANGED log
           \/ /\ Running /\ Running' /\ bootSeq' = bootSeq /\ bootSeq <= Len(log)
              /\ \E c \in Command, w \in Seq(Event) :
                   log' = log \o w /\ Decided(Replay(bootSeq, log).model, c, w)
<1>t. tx.done \in Seq(Event) /\ tx.todo \in Seq(Body) /\ Len(tx.done) \in Nat
  BY DEF TypeInv, TypeOK, Tx
<1>c. Busy => Cmd \in Command
  BY CallAssumption DEF TypeInv, EnvelopeHeld, Cmd
<1>1. ASSUME pc = "tx", NEW w \in Seq(Event), NEW t \in Seq(Body),
             Bodies(w) \o t = Bodies(tx.done) \o tx.todo
      PROVE  Cmd \in Command /\ Decided(Replay(bootSeq, log).model, Cmd, w)
  <2>1. Replay(bootSeq, log).model = readModel
    BY <1>1 DEF Replay, ReplayInv, PublishInv, Running, Settled
  <2>2. EventsOf(readModel, Cmd) = Bodies(w) \o t /\ Accepts(readModel, Cmd)
    BY <1>1 DEF DecidedInv
  <2>3. /\ Bodies(w) \in Seq(Body) /\ Len(Bodies(w)) = Len(w)
        /\ \A i \in 1 .. Len(w) : Bodies(w)[i] = w[i].body
    BY BodiesType
  <2>4. /\ Len(Bodies(w) \o t) = Len(w) + Len(t)
        /\ \A i \in 1 .. Len(w) : (Bodies(w) \o t)[i] = w[i].body
    <3>1. Len(w) \in Nat /\ Len(t) \in Nat
      BY LenProperties
    <3>2. \A i \in 1 .. Len(w) : i \in 1 .. Len(w) + Len(t) /\ i <= Len(w)
      BY <3>1
    <3> QED
      BY <2>3, <3>2, ConcatProperties
  <2>5. Len(w) <= Len(w) + Len(t)
    BY LenProperties
  <2> QED
    BY <1>c, <1>1, <2>1, <2>2, <2>4, <2>5 DEF Decided, Busy
<1>b. pc = "tx" => bootSeq <= Len(log)
  <2>1. /\ bootSeq + Len(published) + Len(outgoing) = snapSeq /\ bootSeq \in Nat
        /\ Len(published) \in Nat /\ Len(outgoing) \in Nat
        /\ pc = "tx" => snapSeq = Len(log)
    BY DEF PublishInv, TypeInv, TypeOK, Settled
  <2> QED
    BY <2>1
<1>2. CASE Commit
  BY <1>1, <1>2, <1>b, <1>t DEF Commit, Running, volatile
<1>3. CASE TxFails
  <2>1. pc = "tx"
    BY <1>3 DEF TxFails
  <2>0. Running /\ Running' /\ bootSeq' = bootSeq /\ bootSeq <= Len(log)
    BY <1>3, <1>b, <2>1 DEF TxFails, Running
  <2>2. CASE RollBack(tx.done)
    BY <1>1, <1>t, <2>0, <2>1, <2>2 DEF RollBack
  <2>3. CASE tx.todo # <<>> /\ RollBack(Append(tx.done, NextEvent))
    <3>1. NextEvent \in Event /\ NextEvent.body = Head(tx.todo)
      <4>1. Cmd \in Command /\ Head(tx.todo) \in Body
        BY <2>1, <2>3, <1>c, <1>t DEF Busy
      <4> QED
        BY <1>t, <4>1 DEF NextEvent, Event
    <3>2. Append(tx.done, NextEvent) \in Seq(Event) /\ Tail(tx.todo) \in Seq(Body)
      BY <1>t, <2>3, <3>1
    <3>3. Bodies(Append(tx.done, NextEvent)) \o Tail(tx.todo) = Bodies(tx.done) \o tx.todo
      BY <1>t, <2>3, <3>1, BodiesMove
    <3>4. Cmd \in Command
          /\ Decided(Replay(bootSeq, log).model, Cmd, Append(tx.done, NextEvent))
      BY <1>1, <2>1, <3>2, <3>3
    <3> QED
      BY <2>0, <2>3, <3>2, <3>4 DEF RollBack
  <2> QED
    BY <1>3, <2>2, <2>3 DEF TxFails
<1>4. CASE BootCatchUp \/ BootDone \/ Restart \/ Crash
  BY <1>4 DEF BootCatchUp, BootDone, Restart, Crash, durable
<1>5. CASE Take \/ ReplayReceipt \/ LookupFails \/ DecideRejects \/ DecideAccepts \/ WriteEvent
  BY <1>5
  DEF Take, ReplayReceipt, LookupFails, DecideRejects, DecideAccepts, WriteEvent, durable
<1>6. CASE Install \/ PublishOne \/ PublishDone \/ RejectReceipt \/ Reply
  BY <1>6 DEF Install, PublishOne, PublishDone, RejectReceipt, Reply, durable
<1>7. CASE ReconcileRead \/ ReconcileDone \/ ReconcileFails
  BY <1>7 DEF ReconcileRead, ReconcileDone, ReconcileFails, durable
<1>8. ASSUME NEW p \in Call, Dispatch(p) \/ Abandon(p) PROVE UNCHANGED log
  BY <1>8 DEF Dispatch, Abandon, durable
<1>9. CASE UNCHANGED vars
  BY <1>9 DEF vars, durable
<1> QED
  BY <1>2, <1>3, <1>4, <1>5, <1>6, <1>7, <1>8, <1>9 DEF Next, Boot, Worker

(* The events of a command are finitely many.                                 *)
LEMMA EventsAtFinite ==
    ASSUME log \in Seq(Event), NEW c
    PROVE  IsFiniteSet(EventsAt(c)) /\ Cardinality(EventsAt(c)) \in Nat
<1>1. EventsAt(c) \subseteq 1 .. Len(log) /\ Len(log) \in Nat
  BY LenProperties DEF EventsAt
<1>2. IsFiniteSet(1 .. Len(log))
  BY <1>1, FS_Interval
<1> QED
  BY <1>1, <1>2, FS_Subset, FS_CardinalityType

(* The boots an event may have been written by stay possible: a crash and the *)
(* next boot forget which it was.                                             *)
LEMMA BootsStep ==
    ASSUME TypeInv, [Next]_vars, NEW i \in 1 .. Len(log)
    PROVE  Boots(i) \subseteq Boots(i)'
<1>t. i \in Nat /\ i >= 1 /\ bootSeq \in Nat /\ Len(log) \in Nat
  BY LenProperties DEF TypeInv, TypeOK
<1>1. ASSUME UNCHANGED bootSeq, Running' = Running PROVE Boots(i) \subseteq Boots(i)'
  BY <1>1 DEF Boots
<1>2. ASSUME Boots(i)' = 0 .. i - 1 PROVE Boots(i) \subseteq Boots(i)'
  <2>1. Boots(i) \subseteq 0 .. i - 1
    BY <1>t DEF Boots
  <2> QED
    BY <1>2, <2>1
<1>3. CASE BootDone
  <2>1. Running' /\ bootSeq' = Len(log)
    BY <1>3 DEF BootDone, Running
  <2>2. Boots(i)' = 0 .. i - 1
    BY <2>1, <1>t DEF Boots
  <2> QED
    BY <1>2, <2>2
<1>4. CASE Crash
  <2>1. Boots(i)' = 0 .. i - 1
    BY <1>4 DEF Crash, Boots, Running
  <2> QED
    BY <1>2, <2>1
<1>5. CASE BootCatchUp \/ Restart
  BY <1>5, <1>1 DEF BootCatchUp, Restart, volatile, Running
<1>6. CASE Take \/ ReplayReceipt \/ LookupFails \/ DecideRejects \/ DecideAccepts \/ WriteEvent
  BY <1>6, <1>1
  DEF Take, ReplayReceipt, LookupFails, DecideRejects, DecideAccepts, WriteEvent, Running
<1>7. CASE TxFails \/ Commit \/ RejectReceipt
  BY <1>7, <1>1 DEF TxFails, Commit, RejectReceipt, volatile, Running
<1>8. CASE Install \/ PublishOne \/ PublishDone \/ Reply
  BY <1>8, <1>1 DEF Install, PublishOne, PublishDone, Reply, volatile, Running
<1>9. CASE ReconcileRead \/ ReconcileDone \/ ReconcileFails
  BY <1>9, <1>1 DEF ReconcileRead, ReconcileDone, ReconcileFails, Running
<1>10. ASSUME NEW p \in Call, Dispatch(p) \/ Abandon(p) PROVE Boots(i) \subseteq Boots(i)'
  BY <1>10, <1>1 DEF Dispatch, Abandon, volatile, Running
<1>11. CASE UNCHANGED vars
  BY <1>11, <1>1 DEF vars, Running
<1> QED
  BY <1>3, <1>4, <1>5, <1>6, <1>7, <1>8, <1>9, <1>10, <1>11 DEF Next, Boot, Worker

\* Command c was executed, with its last event at `last`.
Executed(c, last) ==
    LET n == Cardinality(EventsAt(c))
    IN /\ EventsAt(c) = (last - n + 1) .. last
       /\ \E boot \in Boots(last - n + 1) :
            LET before == ReplayTo(boot, log)[last - n].model
            IN /\ Accepts(before, c)
               /\ EventsOf(before, c) = [k \in 1 .. n |-> log[last - n + k].body]

(* What was executed stays executed when other commands' events are appended.  *)
LEMMA ExecutedStays ==
    ASSUME TypeInv, [Next]_vars, NEW w \in Seq(Event), log' = log \o w,
           NEW c \in Command, \A i \in 1 .. Len(w) : w[i].cmd # c,
           NEW last \in Nat, LastEventAt(c, last), Executed(c, last)
    PROVE  Executed(c, last)'
<1>0. log \in Seq(Event)
  BY DEF TypeInv, TypeOK
<1>1. EventsAt(c)' = EventsAt(c)
  BY <1>0, EventsOfOthers
<1>2. PICK n \in Nat : n = Cardinality(EventsAt(c))
  BY <1>0, EventsAtFinite
<1>3. last \in 1 .. Len(log) /\ \A i \in EventsAt(c) : i \in 1 .. Len(log)
  BY <1>0, LenProperties DEF LastEventAt, EventsAt
<1>4. n >= 1 /\ last - n + 1 \in 1 .. Len(log) /\ EventsAt(c) = (last - n + 1) .. last
  <2>1. EventsAt(c) = (last - n + 1) .. last
    BY <1>2 DEF Executed
  <2>2. last \in (last - n + 1) .. last
    BY <2>1 DEF LastEventAt
  <2>3. last - n + 1 \in (last - n + 1) .. last
    BY <1>2, <2>2
  <2>4. last - n + 1 \in 1 .. Len(log)
    BY <1>3, <2>1, <2>3
  <2>5. n >= 1
    BY <1>2, <2>2
  <2> QED
    BY <2>1, <2>4, <2>5
<1>5. last - n \in 0 .. Len(log) /\ Len(log) \in Nat
  BY <1>0, <1>2, <1>3, <1>4, LenProperties
<1>6. PICK b \in Boots(last - n + 1) :
        /\ Accepts(ReplayTo(b, log)[last - n].model, c)
        /\ EventsOf(ReplayTo(b, log)[last - n].model, c)
             = [k \in 1 .. n |-> log[last - n + k].body]
  BY <1>2 DEF Executed
<1>7. b \in Boots(last - n + 1)'
  BY <1>4, <1>6, BootsStep
<1>8. ReplayTo(b, log')[last - n] = ReplayTo(b, log)[last - n]
  BY <1>0, <1>5, ReplayPrefix
<1>9. [k \in 1 .. n |-> log'[last - n + k].body] = [k \in 1 .. n |-> log[last - n + k].body]
  <2>1. ASSUME NEW k \in 1 .. n PROVE log'[last - n + k] = log[last - n + k]
    <3>1. last - n + k \in 1 .. Len(log)
      BY <1>2, <1>3, <1>4, <1>5
    <3> QED
      BY <1>0, <3>1, ConcatProperties
  <2> QED
    BY <2>1
<1> DEFINE m == ReplayTo(b, log)[last - n].model
<1>10. /\ m = ReplayTo(b, log')[last - n].model /\ Accepts(m, c)
       /\ EventsOf(m, c) = [k \in 1 .. n |-> log'[last - n + k].body]
  BY <1>6, <1>8, <1>9
<1>11. n = Cardinality(EventsAt(c)') /\ EventsAt(c)' = (last - n + 1) .. last
  BY <1>1, <1>2, <1>4
<1> QED
  BY <1>7, <1>10, <1>11 DEF Executed

(* The engine starts with nothing decided and a history without commands.      *)
LEMMA SerialInit == Init => LogIsSerialExecution
<1> SUFFICES ASSUME Init PROVE LogIsSerialExecution
  OBVIOUS
<1>1. ASSUME NEW c \in Command PROVE EventsAt(c) = {} /\ receipts[c].status = "none"
  <2>1. c # NoCall /\ DOMAIN log = 1 .. Len(log)
    BY CallAssumption, HistoryAssumption DEF Init
  <2> QED
    BY <2>1, HistoryAssumption DEF Init, EventsAt, NoReceipt
<1> QED
  BY <1>1 DEF LogIsSerialExecution

(* A step that leaves log and receipts alone leaves the execution as it was.   *)
LEMMA SerialStands ==
    ASSUME TypeInv, VisibleInv, LogIsSerialExecution, [Next]_vars, UNCHANGED log,
           \A c \in Command :
             receipts'[c] # receipts[c] =>
                 receipts[c].status # "accepted" /\ receipts'[c].status # "accepted"
    PROVE  LogIsSerialExecution'
<1>1. \A c \in Command : EventsAt(c)' = EventsAt(c)
  BY DEF EventsAt
<1>2. ASSUME NEW c \in Command, receipts'[c].status = "accepted"
      PROVE  Executed(c, receipts[c].seq)' /\ receipts'[c] = receipts[c]
  <2>1. receipts[c].status = "accepted" /\ receipts'[c] = receipts[c]
    BY <1>2
  <2>2. PICK last \in Nat : last = receipts[c].seq
    BY DEF TypeInv, TypeOK, Receipt
  <2>3. LastEventAt(c, last) /\ Executed(c, last)
    BY <2>1, <2>2 DEF VisibleInv, LogIsSerialExecution, Executed
  <2>4. log \in Seq(Event) /\ <<>> \in Seq(Event) /\ log' = log \o <<>>
    BY ConcatEmptySeq DEF TypeInv, TypeOK
  <2>5. \A i \in 1 .. Len(<<>>) : <<>>[i].cmd # c
    OBVIOUS
  <2>6. Executed(c, last)'
    BY <2>3, <2>4, <2>5, ExecutedStays
  <2> QED
    BY <2>1, <2>2, <2>6
<1>3. ASSUME NEW c \in Command, receipts'[c].status # "accepted" PROVE EventsAt(c)' = {}
  BY <1>1, <1>3 DEF LogIsSerialExecution
<1> QED
  BY <1>2, <1>3 DEF LogIsSerialExecution, Executed

(* Every step keeps it: only a commit of an undecided command adds events, the *)
(* ones the command was decided to have against the whole log before them.     *)
LEMMA SerialStep ==
    Atomic /\ TypeInv /\ SyncInv /\ PublishInv /\ VisibleInv /\ ReplayInv /\ DecidedInv
        /\ LogIsSerialExecution /\ [Next]_vars => LogIsSerialExecution'
<1> SUFFICES ASSUME /\ Atomic /\ TypeInv /\ SyncInv /\ PublishInv /\ VisibleInv /\ ReplayInv
                    /\ DecidedInv /\ LogIsSerialExecution /\ [Next]_vars
             PROVE  LogIsSerialExecution'
  OBVIOUS
<1>t. /\ log \in Seq(Event) /\ Len(log) \in Nat
      /\ tx.done \in Seq(Event) /\ tx.todo \in Seq(Body) /\ Len(tx.done) \in Nat
      /\ receipts \in [Command -> Receipt]
  BY DEF TypeInv, TypeOK, Tx
<1>c. Busy => Cmd \in Command /\ cur \in Call
  BY CallAssumption DEF TypeInv, EnvelopeHeld, Cmd
<1>14. CASE Commit
  <2> DEFINE m == Len(log) + Len(tx.done)
  <2>1. /\ pc = "tx" /\ pc' = "install" /\ tx.todo = <<>> /\ log' = log \o tx.done
        /\ receipts' = [receipts EXCEPT ![Cmd] = [status |-> "accepted", seq |-> Len(log')]]
    BY <1>14 DEF Commit
  <2>2. /\ Cmd \in Command /\ receipts[Cmd].status = "none"
        /\ \A i \in 1 .. Len(tx.done) : tx.done[i].cmd = Cmd
        /\ Accepts(readModel, Cmd)
        /\ EventsOf(readModel, Cmd) = Bodies(tx.done) \o <<>>
        /\ readModel = ReplayTo(bootSeq, log)[Len(log)].model
    BY <1>c, <2>1 DEF Busy, VisibleInv, DecidedInv, ReplayInv, PublishInv, Running, Settled
  <2>3. log' \in Seq(Event) /\ Len(log') = m /\ m \in Nat
    BY <1>t, <2>1, ConcatProperties
  <2>4. ASSUME NEW c \in Command, c # Cmd, receipts'[c].status # "accepted"
        PROVE  EventsAt(c)' = {}
    <3>1. receipts'[c] = receipts[c]
      BY <1>t, <2>1, <2>4
    <3>2. EventsAt(c) = {}
      BY <2>4, <3>1 DEF LogIsSerialExecution
    <3>3. EventsAt(c)' = EventsAt(c)
      BY <1>t, <2>1, <2>2, <2>4, EventsOfOthers
    <3> QED
      BY <3>2, <3>3
  <2>5. ASSUME NEW c \in Command, c # Cmd, receipts'[c].status = "accepted"
        PROVE  Executed(c, receipts[c].seq)'
    <3>1. receipts'[c] = receipts[c]
      BY <1>t, <2>1, <2>5
    <3>2. PICK last \in Nat : last = receipts[c].seq
      BY <1>t DEF Receipt
    <3>3. LastEventAt(c, last) /\ Executed(c, last)
      BY <2>5, <3>1, <3>2 DEF VisibleInv, LogIsSerialExecution, Executed
    <3>4. \A i \in 1 .. Len(tx.done) : tx.done[i].cmd # c
      BY <2>2, <2>5
    <3>5. Executed(c, last)'
      BY <1>t, <2>1, <3>3, <3>4, ExecutedStays
    <3> QED
      BY <3>1, <3>2, <3>5
  <2>6. receipts'[Cmd].status = "accepted" /\ receipts'[Cmd].seq = m
    BY <1>t, <2>1, <2>2, <2>3
  <2>7. EventsAt(Cmd)' = (Len(log) + 1) .. m
    <3>1. EventsAt(Cmd) = {}
      BY <2>2 DEF LogIsSerialExecution
    <3>2. /\ DOMAIN log' = 1 .. m /\ DOMAIN log = 1 .. Len(log)
          /\ \A i \in 1 .. Len(log) : log'[i] = log[i]
      BY <1>t, <2>1, <2>3, ConcatProperties, LenProperties
    <3>3. ASSUME NEW i \in Len(log) + 1 .. m PROVE log'[i].cmd = Cmd
      <4>1. i - Len(log) \in 1 .. Len(tx.done) /\ log'[i] = tx.done[i - Len(log)]
        BY <1>t, <2>1, <2>3, ConcatProperties
      <4> QED
        BY <2>2, <4>1
    <3>4. Cmd' = Cmd
      BY <1>14 DEF Commit, volatile, Cmd
    <3> QED
      BY <1>t, <2>3, <3>1, <3>2, <3>3, <3>4 DEF EventsAt
  <2>8. Cardinality(EventsAt(Cmd)') = Len(tx.done)
    <3>1. Len(log) + 1 \in Int /\ m \in Int /\ m - (Len(log) + 1) + 1 = Len(tx.done)
      BY <1>t
    <3>2. Cardinality((Len(log) + 1) .. m) = IF Len(log) + 1 > m THEN 0 ELSE Len(tx.done)
      BY <3>1, FS_Interval
    <3> QED
      BY <1>t, <2>7, <3>2
  <2>9. m - Len(tx.done) = Len(log)
    BY <1>t
  <2>10. ReplayTo(bootSeq, log')[Len(log)].model = readModel
    <3>1. Len(log) \in 0 .. Len(log)
      BY <1>t
    <3>2. ReplayTo(bootSeq, log')[Len(log)] = ReplayTo(bootSeq, log)[Len(log)]
      BY <1>t, <2>1, <3>1, ReplayPrefix
    <3> QED
      BY <2>2, <3>2
  <2>11. EventsOf(readModel, Cmd) = [k \in 1 .. Len(tx.done) |-> log'[Len(log) + k].body]
    <3>1. Bodies(tx.done) \o <<>> = Bodies(tx.done)
      <4>1. Bodies(tx.done) \in Seq(Body)
        BY <1>t, BodiesType
      <4> QED
        BY <4>1, ConcatEmptySeq
    <3>2. \A k \in 1 .. Len(tx.done) : log'[Len(log) + k] = tx.done[k]
      <4> SUFFICES ASSUME NEW k \in 1 .. Len(tx.done) PROVE log'[Len(log) + k] = tx.done[k]
        OBVIOUS
      <4>1. Len(log) + k \in 1 .. Len(log) + Len(tx.done) /\ ~(Len(log) + k <= Len(log))
            /\ Len(log) + k - Len(log) = k
        BY <1>t
      <4> QED
        BY <1>t, <2>1, <4>1, ConcatProperties
    <3> QED
      BY <2>2, <3>1, <3>2 DEF Bodies
  <2>12. PICK k \in Command, l \in Nat, n \in Nat, b \in Nat, o \in Nat :
            k = Cmd /\ l = m /\ n = Len(tx.done) /\ b = bootSeq /\ o = Len(log)
    BY <1>t, <2>2, <2>3 DEF TypeInv, TypeOK
  <2>13. b \in Boots(o + 1)'
    <3>1. Running' /\ bootSeq' = bootSeq
      BY <1>14 DEF Commit, volatile, Running
    <3>2. b < o + 1
      <4>1. /\ bootSeq + Len(published) + Len(outgoing) = Len(log)
            /\ Len(published) \in Nat /\ Len(outgoing) \in Nat
        BY <2>1 DEF PublishInv, TypeInv, TypeOK, Settled
      <4> QED
        BY <2>12, <4>1
    <3>3. (bootSeq < o + 1)'
      BY <2>12, <3>1, <3>2
    <3> QED
      BY <2>12, <3>1, <3>3 DEF Boots
  <2>14. Executed(k, l)'
    <3>1. EventsAt(k)' = EventsAt(Cmd)'
      <4>1. Cmd' = Cmd
        BY <1>14 DEF Commit, volatile, Cmd
      <4> QED
        BY <2>12, <4>1 DEF EventsAt
    <3>2. l - n = o /\ Cardinality(EventsAt(k)') = n /\ EventsAt(k)' = (l - n + 1) .. l
      BY <2>7, <2>8, <2>9, <2>12, <3>1
    <3>3. b \in Boots(l - n + 1)'
      BY <2>13, <3>2
    <3>4. /\ Accepts(ReplayTo(b, log')[l - n].model, k)
          /\ EventsOf(ReplayTo(b, log')[l - n].model, k)
               = [i \in 1 .. n |-> log'[l - n + i].body]
      BY <2>2, <2>10, <2>11, <2>12, <3>2
    <3> QED
      BY <3>2, <3>3, <3>4 DEF Executed
  <2>15. ASSUME NEW c \in Command
         PROVE  IF receipts'[c].status # "accepted" THEN EventsAt(c)' = {}
                ELSE Executed(c, receipts[c].seq)'
    <3>1. CASE c = Cmd
      <4>1. c = k /\ receipts'[c].seq = l /\ receipts'[c].status = "accepted"
        BY <2>6, <2>12, <3>1
      <4> QED
        BY <2>14, <4>1
    <3>2. CASE c # Cmd
      BY <2>4, <2>5, <3>2
    <3> QED
      BY <3>1, <3>2
  <2> QED
    BY <2>15 DEF LogIsSerialExecution, Executed
<1>21. CASE RejectReceipt
  <2>1. /\ pc' = "reply" /\ UNCHANGED log /\ receipts[Cmd].status = "none" /\ Cmd \in Command
        /\ \A c \in Command :
             receipts'[c] = receipts[c] \/ (c = Cmd /\ receipts'[c].status = "rejected")
    <3>1. pc = "reject" /\ verdict.kind = "rejected"
      BY <1>21 DEF RejectReceipt, VisibleInv
    <3>2. receipts[Cmd].status = "none" /\ Cmd \in Command
      BY <1>c, <3>1 DEF VisibleInv, Busy
    <3> QED
      BY <1>21, <1>t, <3>2 DEF RejectReceipt
  <2>2. \A c \in Command :
          receipts'[c] # receipts[c] =>
              receipts[c].status # "accepted" /\ receipts'[c].status # "accepted"
    <3>1. receipts[Cmd].status # "accepted"
      BY <2>1
    <3> QED
      BY <2>1, <3>1
  <2> QED
    BY <2>1, <2>2, SerialStands
<1>1. ASSUME UNCHANGED <<log, receipts>> PROVE LogIsSerialExecution'
  <2>1. \A c \in Command : receipts'[c] = receipts[c]
    BY <1>1
  <2> QED
    BY <1>1, <2>1, SerialStands
<1>3. CASE BootCatchUp \/ BootDone \/ Restart \/ Crash
  BY <1>3, <1>1 DEF BootCatchUp, BootDone, Restart, Crash, durable, volatile
<1>4. CASE Take \/ ReplayReceipt \/ LookupFails \/ DecideRejects \/ DecideAccepts \/ WriteEvent
  BY <1>4, <1>1
  DEF Take, ReplayReceipt, LookupFails, DecideRejects, DecideAccepts, WriteEvent, durable
<1>5. CASE TxFails
  BY <1>5, <1>1 DEF TxFails, RollBack
<1>6. CASE Install \/ PublishOne \/ PublishDone \/ Reply
  BY <1>6, <1>1 DEF Install, PublishOne, PublishDone, Reply, durable, volatile
<1>7. CASE ReconcileRead \/ ReconcileDone \/ ReconcileFails
  BY <1>7, <1>1 DEF ReconcileRead, ReconcileDone, ReconcileFails, durable
<1>8. ASSUME NEW p \in Call, Dispatch(p) \/ Abandon(p) PROVE LogIsSerialExecution'
  BY <1>8, <1>1 DEF Dispatch, Abandon, durable, volatile
<1>9. CASE UNCHANGED vars
  BY <1>9, <1>1 DEF vars, volatile, durable
<1> QED
  BY <1>3, <1>4, <1>5, <1>6, <1>7, <1>8, <1>9, <1>14, <1>21
  DEF Next, Boot, Worker

(* With a transactional store the log is a serial execution of the accepted     *)
(* commands: whatever is retried, fails or crashes, each has exactly its events *)
(* there, contiguous, as decided against everything before them, and no other   *)
(* command has any.                                                             *)
THEOREM ExecutesSerially == Atomic => (Spec => []LogIsSerialExecution)
<1> SUFFICES ASSUME Atomic PROVE Spec => []LogIsSerialExecution
  OBVIOUS
<1> DEFINE Inv == /\ TypeInv /\ SyncInv /\ PublishInv /\ VisibleInv /\ ReplayInv
                  /\ DecidedInv /\ LogIsSerialExecution
<1>0. Heals /\ Recovers
  BY DEF Heals, Recovers
<1>1. Init => Inv
  BY TypeInit, SyncInit, PublishInit, VisibleInit, ReplayInit, DecidedInit, SerialInit
<1>2. Inv /\ [Next]_vars => Inv'
  BY <1>0, TypeStep, SyncStep, PublishStep, VisibleStep, ReplayStep, DecidedStep,
     SerialStep
<1>3. Inv => LogIsSerialExecution
  OBVIOUS
<1> QED
  BY <1>1, <1>2, <1>3, PTL DEF Spec
=============================================================================
