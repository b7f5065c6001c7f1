---------------------------- MODULE CommandLedger ----------------------------
(***************************************************************************)
(* What the orchestration engine promises the callers of dispatch(),       *)
(* without its worker, transactions, models or crashes: a log that only    *)
(* grows, one verdict per command that never changes, and answers that     *)
(* agree with the verdict.                                                 *)
(***************************************************************************)
EXTENDS Naturals, Sequences

CONSTANTS Call, Command, CommandOf

VARIABLES
    log,       \* events, each with the command it comes from
    verdicts,  \* per command: undecided, accepted at a sequence, or rejected
    answers    \* per call: open, or what its caller was told

vars == <<log, verdicts, answers>>

Undecided(c) == verdicts[c].status = "none"
Open(p) == answers[p].kind = "open"

Init ==
    /\ \A c \in Command : Undecided(c)
    /\ \A p \in Call : Open(p)

\* All events of a command are appended at once, with its verdict.
Accept(c) ==
    /\ Undecided(c)
    /\ Len(log') > Len(log)
    /\ \A i \in 1 .. Len(log) : log'[i] = log[i]
    /\ \A i \in Len(log) + 1 .. Len(log') : log'[i].cmd = c
    /\ verdicts' = [verdicts EXCEPT ![c] =
                      [status |-> "accepted", seq |-> Len(log')]]
    /\ UNCHANGED answers

Reject(c) ==
    /\ Undecided(c)
    /\ verdicts' = [verdicts EXCEPT ![c] =
                      [status |-> "rejected", seq |-> Len(log)]]
    /\ UNCHANGED <<log, answers>>

\* Only the verdict's own sequence is an acceptance, and nobody is told of a
\* rejection once the command is accepted.
Tell(p) ==
    LET v == verdicts[CommandOf[p]] IN
    /\ Open(p)
    /\ \/ /\ v.status = "accepted"
          /\ answers' = [answers EXCEPT ![p] =
                           [kind |-> "accepted", seq |-> v.seq]]
       \/ /\ v.status # "accepted"
          /\ answers' = [answers EXCEPT ![p] = [kind |-> "rejected", seq |-> 0]]
       \/ answers' = [answers EXCEPT ![p] = [kind |-> "failed", seq |-> 0]]
    /\ UNCHANGED <<log, verdicts>>

\* Callers that leave, one by one or all at once, learn nothing.
Lose(S) ==
    /\ S # {} /\ \A p \in S : Open(p)
    /\ answers' = [p \in Call |->
                     IF p \in S THEN [kind |-> "gone", seq |-> 0] ELSE answers[p]]
    /\ UNCHANGED <<log, verdicts>>

Next ==
    \/ \E c \in Command : Accept(c) \/ Reject(c)
    \/ \E p \in Call : Tell(p)
    \/ \E S \in SUBSET Call : Lose(S)

Spec == Init /\ [][Next]_vars
=============================================================================
