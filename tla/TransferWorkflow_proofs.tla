----------------------- MODULE TransferWorkflow_proofs -----------------------
(***************************************************************************)
(* Proofs about TransferWorkflow, for any number of transfers, accounts,   *)
(* reviews and faults, and about CaseAssistant on top of it: what an       *)
(* explanation says of a transfer agrees with what it read.                *)
(***************************************************************************)
EXTENDS CaseAssistant, SumTheorems

\* The first state is well typed.
LEMMA InitTypeOK == Init => TypeOK
BY RouteAssumption, MoneyAssumption, BoundAssumption
   DEF Init, TypeOK, NoTxn, NoPay, TxnRow, PayRow, TxnSteps, PaySteps, States, Funds

\* An answer is a reply, or nothing.
LEMMA AnswerTyped ==
  ASSUME replies \subseteq Reply, NEW s \in Services, NEW k \in Keys, NEW a \in Nat,
         NEW outcome \in {"COMPLETED", "PAUSED", "ok", "rejected"},
         NEW funds \in Funds \cup {"NONE"},
         Answer(s, k, a, outcome, funds)
  PROVE  replies' \subseteq Reply
BY DEF Answer, Reply

\* A transfer of a payable amount leaves natural balances.
LEMMA TransferredTyped ==
  ASSUME balance \in [Accounts -> Nat], NEW k \in Keys, balance[Source[k]] >= Amount[k]
  PROVE  Transferred(balance, k) \in [Accounts -> Nat]
BY RouteAssumption, MoneyAssumption DEF Transferred

\* One more review of a transaction row keeps its type.
LEMMA TxnReviews ==
  ASSUME NEW t \in [Keys -> TxnRow], NEW k \in Keys, NEW u,
         u = [t EXCEPT ![k].reviews = @ + 1]
  PROVE  u \in [Keys -> TxnRow]
BY DEF TxnRow

\* A new state keeps the type of a transaction row.
LEMMA TxnState ==
  ASSUME NEW t \in [Keys -> TxnRow], NEW k \in Keys, NEW u, NEW s \in States,
         u = [t EXCEPT ![k].state = s]
  PROVE  u \in [Keys -> TxnRow]
BY DEF TxnRow

\* So does evidence of a failure or of a recovery.
LEMMA TxnEvidence ==
  ASSUME NEW t \in [Keys -> TxnRow], NEW k \in Keys, NEW u,
         \/ u = [t EXCEPT ![k].failed = TRUE]
         \/ u = [t EXCEPT ![k].recovered = TRUE]
  PROVE  u \in [Keys -> TxnRow]
<1>1. CASE u = [t EXCEPT ![k].failed = TRUE]
  BY <1>1 DEF TxnRow
<1>2. CASE u = [t EXCEPT ![k].recovered = TRUE]
  BY <1>2 DEF TxnRow
<1> QED
  BY <1>1, <1>2

\* A new state with the funds it rests on keeps the type of a transaction row.
LEMMA TxnStateSeen ==
  ASSUME NEW t \in [Keys -> TxnRow], NEW k \in Keys, NEW u,
         NEW s \in States, NEW f \in Funds \cup {"NONE"},
         u = [t EXCEPT ![k].state = s, ![k].seen = f]
  PROVE  u \in [Keys -> TxnRow]
BY DEF TxnRow

\* One more review of a payment row keeps its type.
LEMMA PayReviews ==
  ASSUME NEW p \in [Keys -> PayRow], NEW k \in Keys, NEW q,
         q = [p EXCEPT ![k].reviews = @ + 1]
  PROVE  q \in [Keys -> PayRow]
BY DEF PayRow

\* A new verdict on the funds keeps the type of a payment row.
LEMMA PayFunds ==
  ASSUME NEW p \in [Keys -> PayRow], NEW k \in Keys, NEW q, NEW f \in Funds,
         q = [p EXCEPT ![k].funds = f]
  PROVE  q \in [Keys -> PayRow]
BY DEF PayRow

\* A new state keeps the type of a payment row.
LEMMA PayState ==
  ASSUME NEW p \in [Keys -> PayRow], NEW k \in Keys, NEW q, NEW s \in States,
         q = [p EXCEPT ![k].state = s]
  PROVE  q \in [Keys -> PayRow]
BY DEF PayRow

\* A new state and a new verdict keep the type of a payment row.
LEMMA PayStateFunds ==
  ASSUME NEW p \in [Keys -> PayRow], NEW k \in Keys, NEW q,
         NEW s \in States, NEW f \in Funds,
         q = [p EXCEPT ![k].state = s, ![k].funds = f]
  PROVE  q \in [Keys -> PayRow]
BY DEF PayRow

\* The ledger's confirmation keeps the type of a payment row.
LEMMA PayPosted ==
  ASSUME NEW p \in [Keys -> PayRow], NEW k \in Keys, NEW q,
         q = [p EXCEPT ![k].posted = TRUE]
  PROVE  q \in [Keys -> PayRow]
BY DEF PayRow

\* Completing a payment, or adding evidence, keeps the type of its row.
LEMMA RowTyped ==
  ASSUME NEW row \in PayRow
  PROVE  /\ [row EXCEPT !.state = "COMPLETED"] \in PayRow
         /\ [row EXCEPT !.failed = TRUE] \in PayRow
         /\ [row EXCEPT !.recovered = TRUE] \in PayRow
<1>1. "COMPLETED" \in States
  BY DEF States
<1> QED
  BY <1>1 DEF PayRow

\* Pausing a payment keeps the type of its row.
LEMMA PauseTyped ==
  ASSUME pay \in [Keys -> PayRow], NEW k \in Keys, NEW f \in Funds, Pause(k, f)
  PROVE  pay' \in [Keys -> PayRow]
<1>1. "REQUIRES_REVIEW" \in States
  BY DEF States
<1>2. QED
  BY <1>1, PayStateFunds DEF Pause

\* Every step keeps the types, one case per action of the workflow.
LEMMA NextTypeOK == TypeOK /\ [Next]_vars => TypeOK'
<1> SUFFICES ASSUME TypeOK, [Next]_vars PROVE TypeOK'
  OBVIOUS
<1> USE DEF TypeOK, txnVars, payVars, accVars, ledVars
<1>0. CASE UNCHANGED vars
  BY <1>0 DEF vars
<1>1. ASSUME NEW k \in Keys, Start(k) PROVE TypeOK'
  <2>1. txn' \in [Keys -> TxnRow]
    <3>1. "RECEIVED" \in States
      BY DEF States
    <3>2. QED
      BY <1>1, <3>1, TxnState DEF Start
  <2>2. txnOp' \in [Keys -> TxnSteps]
    BY <1>1 DEF Start, TxnSteps
  <2>3. QED
    BY <1>1, <2>1, <2>2 DEF Start
<1>2. ASSUME NEW k \in Keys, Resume(k) PROVE TypeOK'
  <2>1. txn' \in [Keys -> TxnRow]
    BY <1>2, TxnReviews DEF Resume
  <2>2. txnOp' \in [Keys -> TxnSteps]
    BY <1>2 DEF Resume, TxnSteps
  <2>3. QED
    BY <1>2, <2>1, <2>2 DEF Resume
<1>3. ASSUME NEW k \in Keys, CallPayment(k) PROVE TypeOK'
  <2>1. txn' \in [Keys -> TxnRow]
    <3>1. "PROCESSING" \in States
      BY DEF States
    <3>2. QED
      BY <1>3, <3>1, TxnState DEF CallPayment
  <2>2. txnOp' \in [Keys -> TxnSteps]
    BY <1>3 DEF CallPayment, TxnSteps
  <2>3. requests' \subseteq Request
    BY <1>3 DEF CallPayment, Send, Req, Request, Services, Attempt, TxnRow
  <2>4. QED
    BY <1>3, <2>1, <2>2, <2>3 DEF CallPayment
<1>4. ASSUME NEW k \in Keys, PaymentAnswers(k) PROVE TypeOK'
  <2>1. txn' \in [Keys -> TxnRow]
    <3>1. PICK r \in RepliesTo("payment", k) :
            \/ txn' = [txn EXCEPT ![k].state = "COMPLETED", ![k].seen = r.funds]
            \/ txn' = [txn EXCEPT ![k].state = "REQUIRES_REVIEW", ![k].seen = r.funds]
      BY <1>4 DEF PaymentAnswers
    <3>2. r.funds \in Funds \cup {"NONE"}
      BY DEF RepliesTo, Reply
    <3>3. "COMPLETED" \in States /\ "REQUIRES_REVIEW" \in States
      BY DEF States
    <3>4. ASSUME NEW s \in States, NEW f \in Funds \cup {"NONE"},
                 txn' = [txn EXCEPT ![k].state = s, ![k].seen = f]
          PROVE  txn' \in [Keys -> TxnRow]
      BY <3>4, TxnStateSeen
    <3>5. QED
      BY <3>1, <3>2, <3>3, <3>4
  <2>2. txnOp' \in [Keys -> TxnSteps]
    BY <1>4 DEF PaymentAnswers, TxnSteps
  <2>3. replies' \subseteq Reply
    BY <1>4 DEF PaymentAnswers
  <2>4. QED
    BY <1>4, <2>1, <2>2, <2>3 DEF PaymentAnswers
<1>5. ASSUME NEW k \in Keys, PaymentCallFails(k) PROVE TypeOK'
  <2>1. txn' \in [Keys -> TxnRow]
    <3>1. "REQUIRES_REVIEW" \in States
      BY DEF States
    <3>2. QED
      BY <1>5, <3>1, TxnState DEF PaymentCallFails
  <2>2. txnOp' \in [Keys -> TxnSteps]
    BY <1>5 DEF PaymentCallFails, TxnSteps
  <2>3. replies' \subseteq Reply
    BY <1>5 DEF PaymentCallFails
  <2>4. faults' \in 0..MaxFaults
    BY <1>5, BoundAssumption DEF PaymentCallFails, NoAnswer
  <2>5. QED
    BY <1>5, <2>1, <2>2, <2>3, <2>4 DEF PaymentCallFails
<1>6. ASSUME NEW k \in Keys, AppendTxnFailure(k) PROVE TypeOK'
  <2>1. txn' \in [Keys -> TxnRow]
    BY <1>6, TxnEvidence DEF AppendTxnFailure
  <2>2. txnOp' \in [Keys -> TxnSteps]
    BY <1>6 DEF AppendTxnFailure, TxnSteps
  <2>3. QED
    BY <1>6, <2>1, <2>2 DEF AppendTxnFailure
<1>7. ASSUME NEW k \in Keys, AppendTxnRecovery(k) PROVE TypeOK'
  <2>1. txn' \in [Keys -> TxnRow]
    BY <1>7, TxnEvidence DEF AppendTxnRecovery
  <2>2. txnOp' \in [Keys -> TxnSteps]
    BY <1>7 DEF AppendTxnRecovery, TxnSteps
  <2>3. QED
    BY <1>7, <2>1, <2>2 DEF AppendTxnRecovery
<1>8. ASSUME NEW k \in Keys, NEW a \in 1..MaxReviews + 1, PaymentReceives(k, a) PROVE TypeOK'
  <2>1. requests' \subseteq Request
    BY <1>8, BoundAssumption DEF PaymentReceives
  <2>2. pay' \in [Keys -> PayRow]
    <3>1. \/ pay' = [pay EXCEPT ![k].state = "RECEIVED"]
          \/ pay' = [pay EXCEPT ![k].reviews = @ + 1]
          \/ pay' = pay
      BY <1>8 DEF PaymentReceives
    <3>2. CASE pay' = [pay EXCEPT ![k].state = "RECEIVED"]
      <4>1. "RECEIVED" \in States
        BY DEF States
      <4>2. QED
        BY <3>2, <4>1, PayState
    <3>3. CASE pay' = [pay EXCEPT ![k].reviews = @ + 1]
      BY <3>3, PayReviews
    <3>4. QED
      BY <3>1, <3>2, <3>3
  <2>3. payOp' \in [Keys -> [pc : PaySteps, attempt : Nat]]
    BY <1>8, BoundAssumption DEF PaymentReceives, PaySteps
  <2>4. replies' \subseteq Reply
    <3>1. Snapshot(pay[k]) \in {"COMPLETED", "PAUSED", "ok", "rejected"}
      BY DEF Snapshot
    <3>2. pay[k].funds \in Funds \cup {"NONE"}
      BY DEF PayRow
    <3>3. a \in Nat /\ "payment" \in Services
      BY BoundAssumption DEF Services
    <3>4. replies' = replies \/ Answer("payment", k, a, Snapshot(pay[k]), pay[k].funds)
      BY <1>8 DEF PaymentReceives
    <3>5. QED
      BY <3>1, <3>2, <3>3, <3>4, AnswerTyped
  <2>5. QED
    BY <1>8, <2>1, <2>2, <2>3, <2>4 DEF PaymentReceives
<1>9. ASSUME NEW k \in Keys, CallAccount(k) PROVE TypeOK'
  <2>1. pay' \in [Keys -> PayRow]
    <3>1. WhileCalling(pay[k].funds) \in Funds
      BY DEF WhileCalling, Funds
    <3>2. "PROCESSING" \in States
      BY DEF States
    <3>3. pay' = [pay EXCEPT ![k].state = "PROCESSING",
                             ![k].funds = WhileCalling(pay[k].funds)]
      BY <1>9 DEF CallAccount
    <3>4. QED
      BY <3>1, <3>2, <3>3, PayStateFunds
  <2>2. payOp' \in [Keys -> [pc : PaySteps, attempt : Nat]]
    BY <1>9 DEF CallAccount, PaySteps
  <2>3. requests' \subseteq Request
    BY <1>9 DEF CallAccount, Send, Req, Request, Services
  <2>4. QED
    BY <1>9, <2>1, <2>2, <2>3 DEF CallAccount
<1>10. ASSUME NEW k \in Keys, AccountAnswers(k) PROVE TypeOK'
  <2>1. pay' \in [Keys -> PayRow]
    <3>1. \/ pay' = [pay EXCEPT ![k].funds = "COMMITTED"]
          \/ \E f \in Funds :
               pay' = [pay EXCEPT ![k].state = "REQUIRES_REVIEW", ![k].funds = f]
      BY <1>10 DEF AccountAnswers, Pause, Funds
    <3>2. "COMMITTED" \in Funds /\ "REQUIRES_REVIEW" \in States
      BY DEF Funds, States
    <3>3. CASE pay' = [pay EXCEPT ![k].funds = "COMMITTED"]
      BY <3>2, <3>3, PayFunds
    <3>4. ASSUME NEW f \in Funds,
                 pay' = [pay EXCEPT ![k].state = "REQUIRES_REVIEW", ![k].funds = f]
          PROVE  pay' \in [Keys -> PayRow]
      BY <3>2, <3>4, PayStateFunds
    <3>5. QED
      BY <3>1, <3>3, <3>4
  <2>2. payOp' \in [Keys -> [pc : PaySteps, attempt : Nat]]
    BY <1>10 DEF AccountAnswers, Pause, PaySteps
  <2>3. requests' \subseteq Request
    BY <1>10 DEF AccountAnswers, Send, Req, Request, Services
  <2>4. replies' \subseteq Reply
    BY <1>10 DEF AccountAnswers
  <2>5. QED
    BY <1>10, <2>1, <2>2, <2>3, <2>4 DEF AccountAnswers
<1>11. ASSUME NEW k \in Keys, AccountCallFails(k) PROVE TypeOK'
  <2>1. pay' \in [Keys -> PayRow]
    <3>1. pay[k].funds \in Funds
      BY DEF PayRow
    <3>2. QED
      BY <1>11, <3>1, PauseTyped DEF AccountCallFails
  <2>2. payOp' \in [Keys -> [pc : PaySteps, attempt : Nat]]
    BY <1>11 DEF AccountCallFails, Pause, PaySteps
  <2>3. replies' \subseteq Reply
    BY <1>11 DEF AccountCallFails
  <2>4. faults' \in 0..MaxFaults
    BY <1>11, BoundAssumption DEF AccountCallFails, NoAnswer
  <2>5. QED
    BY <1>11, <2>1, <2>2, <2>3, <2>4 DEF AccountCallFails
<1>12. ASSUME NEW k \in Keys, LedgerAnswers(k) PROVE TypeOK'
  <2>1. pay' \in [Keys -> PayRow]
    BY <1>12, PayPosted DEF LedgerAnswers
  <2>2. payOp' \in [Keys -> [pc : PaySteps, attempt : Nat]]
    BY <1>12 DEF LedgerAnswers, PaySteps
  <2>3. replies' \subseteq Reply
    BY <1>12 DEF LedgerAnswers
  <2>4. QED
    BY <1>12, <2>1, <2>2, <2>3 DEF LedgerAnswers
<1>13. ASSUME NEW k \in Keys, LedgerCallFails(k) PROVE TypeOK'
  <2>1. pay' \in [Keys -> PayRow]
    <3>1. pay[k].funds \in Funds
      BY DEF PayRow
    <3>2. QED
      BY <1>13, <3>1, PauseTyped DEF LedgerCallFails
  <2>2. payOp' \in [Keys -> [pc : PaySteps, attempt : Nat]]
    BY <1>13 DEF LedgerCallFails, Pause, PaySteps
  <2>3. replies' \subseteq Reply
    BY <1>13 DEF LedgerCallFails
  <2>4. faults' \in 0..MaxFaults
    BY <1>13, BoundAssumption DEF LedgerCallFails, NoAnswer
  <2>5. QED
    BY <1>13, <2>1, <2>2, <2>3, <2>4 DEF LedgerCallFails
<1>14. ASSUME NEW k \in Keys, NEW row \in PayRow, ReturnPayment(k, row)
       PROVE  /\ pay' \in [Keys -> PayRow]
              /\ payOp' \in [Keys -> [pc : PaySteps, attempt : Nat]]
              /\ replies' \subseteq Reply
  <2>1. pay' \in [Keys -> PayRow]
    BY <1>14 DEF ReturnPayment
  <2>2. payOp' \in [Keys -> [pc : PaySteps, attempt : Nat]]
    BY <1>14 DEF ReturnPayment, PaySteps
  <2>3. replies' \subseteq Reply
    BY <1>14, AnswerTyped DEF ReturnPayment, Services, Snapshot, PayRow
  <2>4. QED
    BY <2>1, <2>2, <2>3
<1>15. ASSUME NEW k \in Keys, CompletePayment(k) PROVE TypeOK'
  <2>1. [pay[k] EXCEPT !.state = "COMPLETED"] \in PayRow
    BY DEF PayRow, States
  <2>2. /\ pay' \in [Keys -> PayRow]
        /\ payOp' \in [Keys -> [pc : PaySteps, attempt : Nat]]
        /\ replies' \subseteq Reply
    <3>1. CASE Recovers(pay[k])
      <4>1. pay' \in [Keys -> PayRow]
        <5>1. "COMPLETED" \in States
          BY DEF States
        <5>2. QED
          BY <1>15, <3>1, <5>1, PayState DEF CompletePayment
      <4>2. payOp' \in [Keys -> [pc : PaySteps, attempt : Nat]]
        BY <1>15, <3>1 DEF CompletePayment, PaySteps
      <4>3. QED
        BY <1>15, <3>1, <4>1, <4>2 DEF CompletePayment, Recovers
    <3>2. CASE ~Recovers(pay[k])
      BY <1>14, <1>15, <2>1, <3>2 DEF CompletePayment, Recovers
    <3>3. QED
      BY <3>1, <3>2
  <2>3. QED
    BY <1>15, <2>2 DEF CompletePayment
<1>16. ASSUME NEW k \in Keys, AppendPayFailure(k) PROVE TypeOK'
  <2>1. [pay[k] EXCEPT !.failed = TRUE] \in PayRow
    BY RowTyped
  <2>2. QED
    BY <1>14, <1>16, <2>1 DEF AppendPayFailure
<1>17. ASSUME NEW k \in Keys, AppendPayRecovery(k) PROVE TypeOK'
  <2>1. [pay[k] EXCEPT !.recovered = TRUE] \in PayRow
    BY RowTyped
  <2>2. QED
    BY <1>14, <1>17, <2>1 DEF AppendPayRecovery
<1>18. ASSUME NEW k \in Keys, NEW a \in 1..MaxReviews + 1, AccountReceives(k, a) PROVE TypeOK'
  BY <1>18, BoundAssumption DEF AccountReceives
<1>19. ASSUME NEW k \in Keys, AccountRefuses(k) PROVE TypeOK'
  <2>1. replies' \subseteq Reply
    BY <1>19, AnswerTyped DEF AccountRefuses, Services
  <2>2. QED
    BY <1>19, <2>1, BoundAssumption DEF AccountRefuses
<1>20. ASSUME NEW k \in Keys, CommitTransfer(k) PROVE TypeOK'
  <2>1. balance' \in [Accounts -> Nat] /\ journal' \subseteq Keys
    <3>1. Source[k] \in Accounts /\ balance[Source[k]] \in Nat /\ Amount[k] \in Nat
      BY RouteAssumption, MoneyAssumption
    <3>2. QED
      BY <1>20, <3>1, TransferredTyped DEF CommitTransfer, Rejected
  <2>2. replies' \subseteq Reply
    BY <1>20, AnswerTyped DEF CommitTransfer, Services
  <2>3. QED
    BY <1>20, <2>1, <2>2 DEF CommitTransfer
<1>21. ASSUME NEW k \in Keys, NEW a \in 1..MaxReviews + 1, LedgerReceives(k, a) PROVE TypeOK'
  BY <1>21, BoundAssumption DEF LedgerReceives
<1>22. ASSUME NEW k \in Keys, PostTransfer(k) PROVE TypeOK'
  <2>1. replies' \subseteq Reply
    BY <1>22, AnswerTyped DEF PostTransfer, Services
  <2>2. QED
    BY <1>22, <2>1 DEF PostTransfer
<1>23. ASSUME NEW m \in requests, Busy(m) PROVE TypeOK'
  BY <1>23 DEF Busy
<1>24. ASSUME NEW m \in requests, Lose(m) PROVE TypeOK'
  BY <1>24, BoundAssumption DEF Lose, Fault
<1>25. ASSUME NEW k \in Keys, TxnDies(k) PROVE TypeOK'
  <2>1. faults' \in 0..MaxFaults
    BY <1>25, BoundAssumption DEF TxnDies, Fault
  <2>2. txnOp' \in [Keys -> TxnSteps]
    BY <1>25 DEF TxnDies, TxnSteps
  <2>3. QED
    BY <1>25, <2>1, <2>2 DEF TxnDies
<1>26. ASSUME NEW k \in Keys, PayDies(k) PROVE TypeOK'
  <2>1. faults' \in 0..MaxFaults
    BY <1>26, BoundAssumption DEF PayDies, Fault
  <2>2. payOp' \in [Keys -> [pc : PaySteps, attempt : Nat]]
    BY <1>26 DEF PayDies, PaySteps
  <2>3. QED
    BY <1>26, <2>1, <2>2 DEF PayDies
<1>27. ASSUME NEW k \in Keys, AccDies(k) PROVE TypeOK'
  BY <1>27, BoundAssumption DEF AccDies, Fault
<1>28. ASSUME NEW k \in Keys, LedDies(k) PROVE TypeOK'
  BY <1>28, BoundAssumption DEF LedDies, Fault
<1>29. QED
  BY <1>0, <1>1, <1>2, <1>3, <1>4, <1>5, <1>6, <1>7, <1>8, <1>9, <1>10, <1>11, <1>12,
     <1>13, <1>15, <1>16, <1>17, <1>18, <1>19, <1>20, <1>21, <1>22, <1>23, <1>24,
     <1>25, <1>26, <1>27, <1>28
     DEF Next, Transaction, Payment, Account, Ledger, Dies

\* Every row, lock, message and balance keeps its type; no balance of the
\* account service is ever negative.
THEOREM TypeCorrect == Spec => []TypeOK
<1>1. QED
  BY InitTypeOK, NextTypeOK, PTL DEF Spec

-----------------------------------------------------------------------------
(* StatusIsBacked                                                          *)

\* StatusIsBacked is not inductive: a handler in the middle of its work must
\* know what its earlier steps found (StepInv), and an answer that travels
\* must still be true when it is read (ReplyInv).
IInv == StatusIsBacked /\ StepInv /\ ReplyInv

\* In the first state nothing is recorded and nothing travels.
LEMMA InitIInv == Init => IInv
BY DEF Init, IInv, StatusIsBacked, Backed, StepInv, ReplyInv, NoTxn, NoPay

\* Updating one field of row k, and replacing row k by its updated self.
LEMMA CompletedRow ==
  ASSUME NEW p \in [Keys -> PayRow], NEW k \in Keys
  PROVE  [p EXCEPT ![k] = [p[k] EXCEPT !.state = "COMPLETED"]]
           = [p EXCEPT ![k].state = "COMPLETED"]
OBVIOUS

\* The same for the recovered flag.
LEMMA RecoveredRow ==
  ASSUME NEW p \in [Keys -> PayRow], NEW k \in Keys
  PROVE  [p EXCEPT ![k] = [p[k] EXCEPT !.recovered = TRUE]]
           = [p EXCEPT ![k].recovered = TRUE]
OBVIOUS

\* What an answer of the payment service writes, and what it leaves.
LEMMA AnswerChanges ==
  ASSUME txn \in [Keys -> TxnRow], NEW k \in Keys, NEW s, NEW f,
         txn' = [txn EXCEPT ![k].state = s, ![k].seen = f]
  PROVE  /\ txn'[k].state = s /\ txn'[k].seen = f
         /\ txn'[k].failed = txn[k].failed /\ txn'[k].recovered = txn[k].recovered
         /\ \A j \in Keys : j # k => txn'[j] = txn[j]
BY DEF TxnRow

\* What reading an answer of the payment service does to a transaction.
LEMMA AnswerRead ==
  ASSUME txn \in [Keys -> TxnRow], txnOp \in [Keys -> TxnSteps], NEW k \in Keys,
         PaymentAnswers(k)
  PROVE  /\ \A m \in replies' : m \in replies /\ (m.from = "payment" => m.key # k)
         /\ \A j \in Keys : j # k => txn'[j] = txn[j] /\ txnOp'[j] = txnOp[j]
         /\ \E r \in RepliesTo("payment", k) :
              /\ txn'[k].seen = r.funds /\ txn'[k].failed = txn[k].failed
              /\ IF Confirms(r)
                 THEN /\ txn'[k].state = "COMPLETED"
                      /\ txnOp'[k] = IF txn[k].failed THEN "recovery" ELSE "idle"
                 ELSE txn'[k].state = "REQUIRES_REVIEW" /\ txnOp'[k] = "failure"
<1>1. \A m \in replies' : m \in replies /\ (m.from = "payment" => m.key # k)
  BY DEF PaymentAnswers, RepliesTo
<1>2. PICK r \in RepliesTo("payment", k) :
         IF Confirms(r)
         THEN /\ txn' = [txn EXCEPT ![k].state = "COMPLETED", ![k].seen = r.funds]
              /\ txnOp' = [txnOp EXCEPT ![k] = IF txn[k].failed THEN "recovery" ELSE "idle"]
         ELSE /\ txn' = [txn EXCEPT ![k].state = "REQUIRES_REVIEW", ![k].seen = r.funds]
              /\ txnOp' = [txnOp EXCEPT ![k] = "failure"]
  BY DEF PaymentAnswers
<1>3. CASE Confirms(r)
  <2> DEFINE f == r.funds
  <2>1. txn' = [txn EXCEPT ![k].state = "COMPLETED", ![k].seen = f]
    BY <1>2, <1>3
  <2>2. txnOp' = [txnOp EXCEPT ![k] = IF txn[k].failed THEN "recovery" ELSE "idle"]
    BY <1>2, <1>3
  <2> HIDE DEF f
  <2>3. /\ txn'[k].state = "COMPLETED" /\ txn'[k].seen = f
        /\ txn'[k].failed = txn[k].failed
        /\ \A j \in Keys : j # k => txn'[j] = txn[j]
    BY <2>1 DEF TxnRow
  <2> QED
    BY <1>1, <1>3, <2>2, <2>3 DEF f
<1>4. CASE ~Confirms(r)
  <2> DEFINE f == r.funds
  <2>1. txn' = [txn EXCEPT ![k].state = "REQUIRES_REVIEW", ![k].seen = f]
    BY <1>2, <1>4
  <2>2. txnOp' = [txnOp EXCEPT ![k] = "failure"]
    BY <1>2, <1>4
  <2> HIDE DEF f
  <2>3. /\ txn'[k].state = "REQUIRES_REVIEW" /\ txn'[k].seen = f
        /\ txn'[k].failed = txn[k].failed
        /\ \A j \in Keys : j # k => txn'[j] = txn[j]
    BY <2>1 DEF TxnRow
  <2> QED
    BY <1>1, <1>4, <2>2, <2>3 DEF f
<1> QED
  BY <1>3, <1>4

\* What a pause writes, and what it leaves.
LEMMA PauseChanges ==
  ASSUME pay \in [Keys -> PayRow], payOp \in [Keys -> [pc : PaySteps, attempt : Nat]],
         NEW k \in Keys, NEW f, Pause(k, f)
  PROVE  /\ pay'[k].state = "REQUIRES_REVIEW" /\ pay'[k].funds = f
         /\ pay'[k].posted = pay[k].posted
         /\ pay'[k].failed = pay[k].failed /\ pay'[k].recovered = pay[k].recovered
         /\ payOp'[k].pc = "failure"
         /\ \A j \in Keys : j # k => pay'[j] = pay[j] /\ payOp'[j] = payOp[j]
BY DEF Pause, PayRow

\* What a review writes, and what it leaves.
LEMMA ReviewChanges ==
  ASSUME pay \in [Keys -> PayRow], NEW k \in Keys,
         pay' = [pay EXCEPT ![k].reviews = @ + 1]
  PROVE  \A j \in Keys :
           /\ pay'[j].state = pay[j].state /\ pay'[j].funds = pay[j].funds
           /\ pay'[j].posted = pay[j].posted
           /\ pay'[j].failed = pay[j].failed /\ pay'[j].recovered = pay[j].recovered
BY DEF PayRow

\* What a first call writes, and what it leaves.
LEMMA ReceiptChanges ==
  ASSUME pay \in [Keys -> PayRow], NEW k \in Keys,
         pay' = [pay EXCEPT ![k].state = "RECEIVED"]
  PROVE  /\ pay'[k].state = "RECEIVED"
         /\ \A j \in Keys :
              /\ j # k => pay'[j] = pay[j]
              /\ pay'[j].funds = pay[j].funds /\ pay'[j].posted = pay[j].posted
              /\ pay'[j].failed = pay[j].failed /\ pay'[j].recovered = pay[j].recovered
BY DEF PayRow

\* What returning writes, and what it leaves.
LEMMA ReturnChanges ==
  ASSUME pay \in [Keys -> PayRow], NEW k \in Keys, NEW row, ReturnPayment(k, row)
  PROVE  pay'[k] = row /\ \A j \in Keys : j # k => pay'[j] = pay[j]
<1>1. pay' = [pay EXCEPT ![k] = row]
  BY DEF ReturnPayment
<1>2. pay'[k] = row
  BY <1>1
<1>3. ASSUME NEW j \in Keys, j # k PROVE pay'[j] = pay[j]
  BY <1>1, <1>3, Zenon
<1> QED
  BY <1>2, <1>3

\* Every step keeps the invariant.  Only the steps that read an answer need
\* ReplyInv for StatusIsBacked; only those that write one disturb ReplyInv.
LEMMA NextIInv == TypeOK /\ IInv /\ [Next]_vars => IInv'
<1> SUFFICES ASSUME TypeOK, IInv, [Next]_vars PROVE IInv'
  OBVIOUS
<1> USE DEF TypeOK, IInv, StatusIsBacked, Backed, StepInv, ReplyInv, StillTrue, Reply,
            txnVars, payVars, accVars, ledVars
<1>0. CASE UNCHANGED vars
  BY <1>0 DEF vars
<1>1. ASSUME NEW k \in Keys, Start(k) PROVE IInv'
  <2>1. StatusIsBacked'
    BY <1>1 DEF Start, TxnRow
  <2>2. StepInv'
    BY <1>1 DEF Start, TxnRow
  <2>3. ReplyInv'
    BY <1>1 DEF Start, TxnRow
  <2>4. QED
    BY <2>1, <2>2, <2>3
<1>2. ASSUME NEW k \in Keys, Resume(k) PROVE IInv'
  <2>1. StatusIsBacked'
    BY <1>2 DEF Resume, TxnRow
  <2>2. StepInv'
    BY <1>2 DEF Resume, TxnRow
  <2>3. ReplyInv'
    BY <1>2 DEF Resume, TxnRow
  <2>4. QED
    BY <2>1, <2>2, <2>3
<1>3. ASSUME NEW k \in Keys, CallPayment(k) PROVE IInv'
  <2>1. StatusIsBacked'
    BY <1>3 DEF CallPayment, TxnRow
  <2>2. StepInv'
    BY <1>3 DEF CallPayment, TxnRow
  <2>3. ReplyInv'
    BY <1>3 DEF CallPayment, TxnRow
  <2>4. QED
    BY <2>1, <2>2, <2>3
<1>4. ASSUME NEW k \in Keys, PaymentAnswers(k) PROVE IInv'
  <2>c. PICK r \in RepliesTo("payment", k) :
          /\ txn'[k].seen = r.funds /\ txn'[k].failed = txn[k].failed
          /\ IF Confirms(r)
             THEN /\ txn'[k].state = "COMPLETED"
                  /\ txnOp'[k] = IF txn[k].failed THEN "recovery" ELSE "idle"
             ELSE txn'[k].state = "REQUIRES_REVIEW" /\ txnOp'[k] = "failure"
    BY <1>4, AnswerRead
  <2>d. /\ \A m \in replies' : m \in replies /\ (m.from = "payment" => m.key # k)
        /\ \A j \in Keys : j # k => txn'[j] = txn[j] /\ txnOp'[j] = txnOp[j]
    BY <1>4, AnswerRead
  <2>0. /\ r \in replies /\ r.from = "payment" /\ r.key = k /\ StillTrue(r)
        /\ UNCHANGED <<payVars, accVars, ledVars>>
    BY <1>4 DEF PaymentAnswers, RepliesTo
  <2>1. CASE Confirms(r)
    <3>1. StatusIsBacked'
      BY <2>0, <2>c, <2>d, <2>1 DEF Confirms
    <3>2. StepInv'
      BY <2>0, <2>c, <2>d, <2>1 DEF Confirms
    <3>3. ReplyInv'
      BY <2>0, <2>c, <2>d, <2>1 DEF Confirms
    <3>4. QED
      BY <3>1, <3>2, <3>3
  <2>2. CASE ~Confirms(r)
    <3>1. StatusIsBacked'
      BY <2>0, <2>c, <2>d, <2>2
    <3>2. StepInv'
      BY <2>0, <2>c, <2>d, <2>2
    <3>3. ReplyInv'
      BY <2>0, <2>c, <2>d, <2>2
    <3>4. QED
      BY <3>1, <3>2, <3>3
  <2>3. QED
    BY <2>1, <2>2
<1>5. ASSUME NEW k \in Keys, PaymentCallFails(k) PROVE IInv'
  <2>1. StatusIsBacked'
    BY <1>5 DEF PaymentCallFails, TxnRow
  <2>2. StepInv'
    BY <1>5 DEF PaymentCallFails, TxnRow
  <2>3. ReplyInv'
    BY <1>5 DEF PaymentCallFails, TxnRow
  <2>4. QED
    BY <2>1, <2>2, <2>3
<1>6. ASSUME NEW k \in Keys, AppendTxnFailure(k) PROVE IInv'
  <2>1. StatusIsBacked'
    BY <1>6 DEF AppendTxnFailure, TxnRow
  <2>2. StepInv'
    BY <1>6 DEF AppendTxnFailure, TxnRow
  <2>3. ReplyInv'
    BY <1>6 DEF AppendTxnFailure, TxnRow
  <2>4. QED
    BY <2>1, <2>2, <2>3
<1>7. ASSUME NEW k \in Keys, AppendTxnRecovery(k) PROVE IInv'
  <2>1. StatusIsBacked'
    BY <1>7 DEF AppendTxnRecovery, TxnRow
  <2>2. StepInv'
    BY <1>7 DEF AppendTxnRecovery, TxnRow
  <2>3. ReplyInv'
    BY <1>7 DEF AppendTxnRecovery, TxnRow
  <2>4. QED
    BY <2>1, <2>2, <2>3
<1>8. ASSUME NEW k \in Keys, NEW a \in 1..MaxReviews + 1, PaymentReceives(k, a) PROVE IInv'
  <2>1. StatusIsBacked'
    <3>1. CASE pay' = pay
      BY <1>8, <3>1 DEF PaymentReceives
    <3>2. CASE pay[k].state = "ABSENT" /\ pay' = [pay EXCEPT ![k].state = "RECEIVED"]
      BY <1>8, <3>2, ReceiptChanges DEF PaymentReceives
    <3>3. CASE pay' = [pay EXCEPT ![k].reviews = @ + 1]
      BY <1>8, <3>3, ReviewChanges DEF PaymentReceives
    <3>4. QED
      BY <1>8, <3>1, <3>2, <3>3 DEF PaymentReceives
  <2>2. StepInv'
    <3>1. CASE UNCHANGED payVars
      BY <1>8, <3>1 DEF PaymentReceives
    <3>2. CASE /\ pay[k].state # "COMPLETED"
               /\ payOp' = [payOp EXCEPT ![k] = [pc |-> "call", attempt |-> a]]
               /\ \/ pay' = [pay EXCEPT ![k].state = "RECEIVED"]
                  \/ pay' = [pay EXCEPT ![k].reviews = @ + 1]
      <4>1. /\ pay'[k].state # "COMPLETED" /\ pay'[k].funds = pay[k].funds
            /\ payOp'[k].pc = "call"
            /\ \A j \in Keys : j # k => pay'[j] = pay[j] /\ payOp'[j] = payOp[j]
        BY <3>2 DEF PayRow
      <4>2. UNCHANGED txnVars
        BY <1>8 DEF PaymentReceives
      <4>3. QED
        BY <4>1, <4>2
    <3>3. QED
      BY <1>8, <3>1, <3>2 DEF PaymentReceives
  <2>3. ReplyInv'
    <3>1. \A j \in Keys : /\ pay'[j].funds = pay[j].funds
                          /\ pay[j].state = "COMPLETED" => pay'[j].state = "COMPLETED"
      <4>1. \/ pay' = [pay EXCEPT ![k].state = "RECEIVED"] /\ pay[k].state = "ABSENT"
            \/ pay' = [pay EXCEPT ![k].reviews = @ + 1]
            \/ pay' = pay
        BY <1>8 DEF PaymentReceives
      <4>2. CASE pay' = [pay EXCEPT ![k].state = "RECEIVED"] /\ pay[k].state = "ABSENT"
        BY <4>2, ReceiptChanges
      <4>3. CASE pay' = [pay EXCEPT ![k].reviews = @ + 1]
        BY <4>3, ReviewChanges
      <4>4. QED
        BY <4>1, <4>2, <4>3
    <3>2. \A r \in replies' :
            \/ r \in replies
            \/ r.from = "payment" /\ r.key = k /\ r.funds = pay[k].funds /\ r.outcome = Snapshot(pay[k])
      BY <1>8 DEF PaymentReceives, Answer
    <3>3. UNCHANGED <<txn, journal, ledger>>
      BY <1>8 DEF PaymentReceives
    <3>4. Snapshot(pay[k]) = "COMPLETED" => pay[k].state = "COMPLETED"
      BY DEF Snapshot
    <3>5. ASSUME NEW r \in replies', r \in replies PROVE StillTrue(r)'
      BY <3>1, <3>3, <3>5
    <3>6. ASSUME NEW r \in replies', r.from = "payment", r.key = k,
                 r.funds = pay[k].funds, r.outcome = Snapshot(pay[k])
          PROVE  StillTrue(r)'
      BY <3>1, <3>3, <3>4, <3>6
    <3>7. QED
      BY <3>2, <3>5, <3>6
  <2>4. QED
    BY <2>1, <2>2, <2>3
<1>9. ASSUME NEW k \in Keys, CallAccount(k) PROVE IInv'
  <2>1. StatusIsBacked'
    BY <1>9 DEF CallAccount, WhileCalling, PayRow
  <2>2. StepInv'
    BY <1>9 DEF CallAccount, WhileCalling, PayRow
  <2>3. ReplyInv'
    BY <1>9 DEF CallAccount, WhileCalling, PayRow
  <2>4. QED
    BY <2>1, <2>2, <2>3
<1>10. ASSUME NEW k \in Keys, AccountAnswers(k) PROVE IInv'
  <2>0. PICK r \in RepliesTo("account", k) :
          \/ /\ r.outcome = "ok"
             /\ pay' = [pay EXCEPT ![k].funds = "COMMITTED"]
             /\ payOp' = [payOp EXCEPT ![k].pc = "ledger"]
          \/ /\ pay' = [pay EXCEPT ![k].state = "REQUIRES_REVIEW", ![k].funds =
                          IF pay[k].funds = "COMMITTED" THEN "COMMITTED"
                                                        ELSE "NOT_COMMITTED"]
             /\ payOp' = [payOp EXCEPT ![k].pc = "failure"]
    BY <1>10 DEF AccountAnswers, Pause
  <2>1. StatusIsBacked'
    <3>1. CASE r.outcome = "ok" /\ pay' = [pay EXCEPT ![k].funds = "COMMITTED"]
      <4>1. k \in journal
        BY <3>1 DEF RepliesTo
      <4>2. QED
        BY <1>10, <3>1, <4>1 DEF AccountAnswers, PayRow
    <3>2. CASE payOp' = [payOp EXCEPT ![k].pc = "failure"]
      <4>1. /\ pay'[k].state = "REQUIRES_REVIEW" /\ pay'[k].posted = pay[k].posted
            /\ pay'[k].funds = "COMMITTED" => pay[k].funds = "COMMITTED"
            /\ \A j \in Keys : j # k => pay'[j] = pay[j]
        BY <1>10, <2>0, <3>2 DEF AccountAnswers, PayRow
      <4>2. txn[k].state # "COMPLETED"
        BY <1>10 DEF AccountAnswers
      <4>3. QED
        BY <1>10, <4>1, <4>2 DEF AccountAnswers
    <3>3. QED
      BY <2>0, <3>1, <3>2
  <2>2. StepInv'
    <3>1. CASE payOp' = [payOp EXCEPT ![k].pc = "ledger"]
      BY <1>10, <2>0, <3>1 DEF AccountAnswers, PayRow
    <3>2. CASE payOp' = [payOp EXCEPT ![k].pc = "failure"]
      BY <1>10, <2>0, <3>2 DEF AccountAnswers, PayRow
    <3>3. QED
      BY <2>0, <3>1, <3>2
  <2>3. ReplyInv'
    BY <1>10 DEF AccountAnswers, Pause, RepliesTo, PayRow
  <2>4. QED
    BY <2>1, <2>2, <2>3
<1>11. ASSUME NEW k \in Keys, AccountCallFails(k) PROVE IInv'
  <2>1. StatusIsBacked'
    BY <1>11 DEF AccountCallFails, Pause, PayRow
  <2>2. StepInv'
    BY <1>11 DEF AccountCallFails, Pause, PayRow
  <2>3. ReplyInv'
    BY <1>11 DEF AccountCallFails, Pause, PayRow
  <2>4. QED
    BY <2>1, <2>2, <2>3
<1>12. ASSUME NEW k \in Keys, LedgerAnswers(k) PROVE IInv'
  <2>1. StatusIsBacked'
    BY <1>12 DEF LedgerAnswers, RepliesTo, PayRow
  <2>2. StepInv'
    BY <1>12 DEF LedgerAnswers, RepliesTo, PayRow
  <2>3. ReplyInv'
    BY <1>12 DEF LedgerAnswers, RepliesTo, PayRow
  <2>4. QED
    BY <2>1, <2>2, <2>3
<1>13. ASSUME NEW k \in Keys, LedgerCallFails(k) PROVE IInv'
  <2>1. StatusIsBacked'
    BY <1>13 DEF LedgerCallFails, Pause, PayRow
  <2>2. StepInv'
    BY <1>13 DEF LedgerCallFails, Pause, PayRow
  <2>3. ReplyInv'
    BY <1>13 DEF LedgerCallFails, Pause, PayRow
  <2>4. QED
    BY <2>1, <2>2, <2>3
<1>14. ASSUME NEW k \in Keys, CompletePayment(k) PROVE IInv'
  <2>0. pay' = [pay EXCEPT ![k].state = "COMPLETED"]
    BY <1>14, CompletedRow DEF CompletePayment, ReturnPayment
  <2>a. /\ payOp[k].pc = "finish"
        /\ payOp' = [payOp EXCEPT ![k].pc = IF pay[k].failed THEN "recovery" ELSE "idle"]
    BY <1>14 DEF CompletePayment, ReturnPayment, Recovers
  <2>1. StatusIsBacked'
    BY <1>14, <2>0, <2>a DEF CompletePayment, PayRow
  <2>2. StepInv'
    BY <1>14, <2>0, <2>a DEF CompletePayment, PayRow
  <2>3. ReplyInv'
    <3>1. \A r \in replies' : r \in replies \/ (r.key = k /\ r.from = "payment" /\ r.funds = "COMMITTED")
      BY <1>14, <2>a DEF CompletePayment, ReturnPayment, Answer
    <3>2. QED
      BY <1>14, <2>0, <2>a, <3>1 DEF CompletePayment, PayRow
  <2>4. QED
    BY <2>1, <2>2, <2>3
<1>15. ASSUME NEW k \in Keys, AppendPayFailure(k) PROVE IInv'
  <2>1. StatusIsBacked'
    BY <1>15 DEF AppendPayFailure, ReturnPayment, Answer, Snapshot, PayRow
  <2>2. StepInv'
    BY <1>15 DEF AppendPayFailure, ReturnPayment, Answer, Snapshot, PayRow
  <2>3. ReplyInv'
    BY <1>15 DEF AppendPayFailure, ReturnPayment, Answer, Snapshot, PayRow
  <2>4. QED
    BY <2>1, <2>2, <2>3
<1>16. ASSUME NEW k \in Keys, AppendPayRecovery(k) PROVE IInv'
  <2>1. StatusIsBacked'
    BY <1>16 DEF AppendPayRecovery, ReturnPayment, Answer, Snapshot, PayRow
  <2>2. StepInv'
    BY <1>16 DEF AppendPayRecovery, ReturnPayment, Answer, Snapshot, PayRow
  <2>3. ReplyInv'
    BY <1>16 DEF AppendPayRecovery, ReturnPayment, Answer, Snapshot, PayRow
  <2>4. QED
    BY <2>1, <2>2, <2>3
<1>17. ASSUME NEW k \in Keys, NEW a \in 1..MaxReviews + 1, AccountReceives(k, a) PROVE IInv'
  <2>1. StatusIsBacked'
    BY <1>17 DEF AccountReceives
  <2>2. StepInv'
    BY <1>17 DEF AccountReceives
  <2>3. ReplyInv'
    BY <1>17 DEF AccountReceives
  <2>4. QED
    BY <2>1, <2>2, <2>3
<1>18. ASSUME NEW k \in Keys, AccountRefuses(k) PROVE IInv'
  <2>1. StatusIsBacked'
    BY <1>18 DEF AccountRefuses, Answer
  <2>2. StepInv'
    BY <1>18 DEF AccountRefuses, Answer
  <2>3. ReplyInv'
    BY <1>18 DEF AccountRefuses, Answer
  <2>4. QED
    BY <2>1, <2>2, <2>3
<1>19. ASSUME NEW k \in Keys, CommitTransfer(k) PROVE IInv'
  <2>1. StatusIsBacked'
    BY <1>19 DEF CommitTransfer, Answer
  <2>2. StepInv'
    BY <1>19 DEF CommitTransfer, Answer
  <2>3. ReplyInv'
    <3>1. \A r \in replies' : \/ r \in replies
                              \/ r.from = "account" /\ r.key = k /\ (r.outcome = "ok" => k \in journal')
      BY <1>19 DEF CommitTransfer, Answer, Prior
    <3>2. journal \subseteq journal'
      BY <1>19 DEF CommitTransfer
    <3>3. QED
      BY <1>19, <3>1, <3>2 DEF CommitTransfer
  <2>4. QED
    BY <2>1, <2>2, <2>3
<1>20. ASSUME NEW k \in Keys, NEW a \in 1..MaxReviews + 1, LedgerReceives(k, a) PROVE IInv'
  <2>1. StatusIsBacked'
    BY <1>20 DEF LedgerReceives
  <2>2. StepInv'
    BY <1>20 DEF LedgerReceives
  <2>3. ReplyInv'
    BY <1>20 DEF LedgerReceives
  <2>4. QED
    BY <2>1, <2>2, <2>3
<1>21. ASSUME NEW k \in Keys, PostTransfer(k) PROVE IInv'
  <2>1. StatusIsBacked'
    BY <1>21 DEF PostTransfer, Answer
  <2>2. StepInv'
    BY <1>21 DEF PostTransfer, Answer
  <2>3. ReplyInv'
    BY <1>21 DEF PostTransfer, Answer
  <2>4. QED
    BY <2>1, <2>2, <2>3
<1>22. ASSUME NEW m \in requests, Busy(m) PROVE IInv'
  <2>1. StatusIsBacked'
    BY <1>22 DEF Busy
  <2>2. StepInv'
    BY <1>22 DEF Busy
  <2>3. ReplyInv'
    BY <1>22 DEF Busy
  <2>4. QED
    BY <2>1, <2>2, <2>3
<1>23. ASSUME NEW m \in requests, Lose(m) PROVE IInv'
  <2>1. StatusIsBacked'
    BY <1>23 DEF Lose
  <2>2. StepInv'
    BY <1>23 DEF Lose
  <2>3. ReplyInv'
    BY <1>23 DEF Lose
  <2>4. QED
    BY <2>1, <2>2, <2>3
<1>24. ASSUME NEW k \in Keys, TxnDies(k) PROVE IInv'
  <2>1. StatusIsBacked'
    BY <1>24 DEF TxnDies
  <2>2. StepInv'
    BY <1>24 DEF TxnDies
  <2>3. ReplyInv'
    BY <1>24 DEF TxnDies
  <2>4. QED
    BY <2>1, <2>2, <2>3
<1>25. ASSUME NEW k \in Keys, PayDies(k) PROVE IInv'
  <2>1. StatusIsBacked'
    BY <1>25 DEF PayDies
  <2>2. StepInv'
    BY <1>25 DEF PayDies
  <2>3. ReplyInv'
    BY <1>25 DEF PayDies
  <2>4. QED
    BY <2>1, <2>2, <2>3
<1>26. ASSUME NEW k \in Keys, AccDies(k) PROVE IInv'
  <2>1. StatusIsBacked'
    BY <1>26 DEF AccDies
  <2>2. StepInv'
    BY <1>26 DEF AccDies
  <2>3. ReplyInv'
    BY <1>26 DEF AccDies
  <2>4. QED
    BY <2>1, <2>2, <2>3
<1>27. ASSUME NEW k \in Keys, LedDies(k) PROVE IInv'
  <2>1. StatusIsBacked'
    BY <1>27 DEF LedDies
  <2>2. StepInv'
    BY <1>27 DEF LedDies
  <2>3. ReplyInv'
    BY <1>27 DEF LedDies
  <2>4. QED
    BY <2>1, <2>2, <2>3
<1>28. QED
  BY <1>0, <1>1, <1>2, <1>3, <1>4, <1>5, <1>6, <1>7, <1>8, <1>9, <1>10, <1>11, <1>12, <1>13, <1>14, <1>15, <1>16, <1>17, <1>18, <1>19, <1>20, <1>21, <1>22, <1>23, <1>24, <1>25, <1>26, <1>27
     DEF Next, Transaction, Payment, Account, Ledger, Dies

\* With the types, the invariant holds in every state.
LEMMA InvariantHolds == Spec => [](TypeOK /\ IInv)
<1>1. Init => TypeOK /\ IInv
  BY InitTypeOK, InitIInv
<1>2. TypeOK /\ IInv /\ [Next]_vars => (TypeOK /\ IInv)'
  BY NextTypeOK, NextIInv
<1>3. QED
  BY <1>1, <1>2, PTL DEF Spec

\* Every status a service records is backed by the service that did the work,
\* whatever is lost, late, retried or restarted: no transfer is COMPLETED and
\* no funds are COMMITTED without the account journal, no posting is recorded
\* without the ledger.
THEOREM StatusesAreBacked == Spec => []StatusIsBacked
<1>1. TypeOK /\ IInv => StatusIsBacked
  BY DEF IInv
<1>2. QED
  BY <1>1, InvariantHolds, PTL

-----------------------------------------------------------------------------
(* ConfirmedIsFinal                                                        *)

\* The action of ConfirmedIsFinal.
ConfirmedStays ==
    \A k \in Keys :
         /\ txn[k].state = "COMPLETED" => txn'[k].state = "COMPLETED"
         /\ pay[k].state = "COMPLETED" => pay'[k].state = "COMPLETED"
         /\ pay[k].funds = "COMMITTED" => pay'[k].funds = "COMMITTED"
         /\ txn[k].seen = "COMMITTED" => txn'[k].seen = "COMMITTED"

\* No step takes a confirmation back; only steps that write a row matter.
LEMMA NextConfirmed == TypeOK /\ IInv /\ [Next]_vars => ConfirmedStays
<1> SUFFICES ASSUME TypeOK, IInv, [Next]_vars PROVE ConfirmedStays
  OBVIOUS
<1> USE DEF TypeOK, IInv, StepInv, ConfirmedStays, txnVars, payVars
<1>0. CASE UNCHANGED <<txn, pay>>
  BY <1>0
<1>1. ASSUME NEW k \in Keys, Start(k) PROVE ConfirmedStays
  BY <1>1 DEF Start, TxnRow
<1>2. ASSUME NEW k \in Keys, Resume(k) PROVE ConfirmedStays
  BY <1>2 DEF Resume, TxnRow
<1>3. ASSUME NEW k \in Keys, CallPayment(k) PROVE ConfirmedStays
  BY <1>3 DEF CallPayment, TxnRow
<1>4. ASSUME NEW k \in Keys, PaymentAnswers(k) PROVE ConfirmedStays
  BY <1>4 DEF PaymentAnswers, Confirms, RepliesTo, TxnRow, ReplyInv, StillTrue, Reply
<1>5. ASSUME NEW k \in Keys, PaymentCallFails(k) PROVE ConfirmedStays
  BY <1>5 DEF PaymentCallFails, TxnRow
<1>6. ASSUME NEW k \in Keys, AppendTxnFailure(k) PROVE ConfirmedStays
  BY <1>6 DEF AppendTxnFailure, TxnRow
<1>7. ASSUME NEW k \in Keys, AppendTxnRecovery(k) PROVE ConfirmedStays
  BY <1>7 DEF AppendTxnRecovery, TxnRow
<1>8. ASSUME NEW k \in Keys, NEW a \in 1..MaxReviews + 1, PaymentReceives(k, a) PROVE ConfirmedStays
  <2>1. CASE pay' = pay
    BY <1>8, <2>1 DEF PaymentReceives
  <2>2. CASE pay' = [pay EXCEPT ![k].state = "RECEIVED"] /\ pay[k].state = "ABSENT"
    BY <1>8, <2>2 DEF PaymentReceives, PayRow
  <2>3. CASE pay' = [pay EXCEPT ![k].reviews = @ + 1]
    BY <1>8, <2>3 DEF PaymentReceives, PayRow
  <2>4. QED
    BY <1>8, <2>1, <2>2, <2>3 DEF PaymentReceives
<1>9. ASSUME NEW k \in Keys, CallAccount(k) PROVE ConfirmedStays
  BY <1>9 DEF CallAccount, WhileCalling, PayRow
<1>10. ASSUME NEW k \in Keys, AccountAnswers(k) PROVE ConfirmedStays
  <2>1. CASE pay' = [pay EXCEPT ![k].funds = "COMMITTED"]
    BY <1>10, <2>1 DEF AccountAnswers, PayRow
  <2>2. CASE Pause(k, IF pay[k].funds = "COMMITTED" THEN "COMMITTED" ELSE "NOT_COMMITTED")
    BY <1>10, <2>2 DEF AccountAnswers, Pause, PayRow
  <2>3. QED
    BY <1>10, <2>1, <2>2 DEF AccountAnswers
<1>11. ASSUME NEW k \in Keys, AccountCallFails(k) PROVE ConfirmedStays
  BY <1>11 DEF AccountCallFails, Pause, PayRow
<1>12. ASSUME NEW k \in Keys, LedgerAnswers(k) PROVE ConfirmedStays
  BY <1>12 DEF LedgerAnswers, RepliesTo, PayRow
<1>13. ASSUME NEW k \in Keys, LedgerCallFails(k) PROVE ConfirmedStays
  BY <1>13 DEF LedgerCallFails, Pause, PayRow
<1>14. ASSUME NEW k \in Keys, CompletePayment(k) PROVE ConfirmedStays
  BY <1>14 DEF CompletePayment, ReturnPayment, Recovers, Answer, Snapshot, PayRow
<1>15. ASSUME NEW k \in Keys, AppendPayFailure(k) PROVE ConfirmedStays
  BY <1>15 DEF AppendPayFailure, ReturnPayment, Answer, Snapshot, PayRow
<1>16. ASSUME NEW k \in Keys, AppendPayRecovery(k) PROVE ConfirmedStays
  BY <1>16 DEF AppendPayRecovery, ReturnPayment, Answer, Snapshot, PayRow
<1>17. QED
  BY <1>0, <1>1, <1>2, <1>3, <1>4, <1>5, <1>6, <1>7, <1>8, <1>9, <1>10, <1>11, <1>12, <1>13, <1>14, <1>15, <1>16
     DEF Next, Transaction, Payment, Account, Ledger, Dies, vars, AccountReceives, AccountRefuses,
         CommitTransfer, LedgerReceives, PostTransfer, Busy, Lose, TxnDies, PayDies, AccDies, LedDies

\* COMPLETED and COMMITTED are final in the transaction and payment rows.
THEOREM ConfirmationIsFinal == Spec => ConfirmedIsFinal
<1>1. TypeOK /\ IInv /\ [Next]_vars => [ConfirmedStays]_vars
  BY NextConfirmed
<1>2. QED
  BY <1>1, InvariantHolds, PTL DEF Spec, ConfirmedIsFinal, ConfirmedStays

-----------------------------------------------------------------------------
(* RecoveryFollowsFailure                                                  *)

\* Only the steps that write a workflow row matter; a row that gains recovery
\* evidence is completed and failed before (StepInv), and one that is paused
\* or fails has none.
LEMMA NextRecovery ==
  TypeOK /\ StepInv /\ RecoveryFollowsFailure /\ [Next]_vars => RecoveryFollowsFailure'
<1> SUFFICES ASSUME TypeOK, StepInv, RecoveryFollowsFailure, [Next]_vars
             PROVE  RecoveryFollowsFailure'
  OBVIOUS
<1> USE DEF TypeOK, StepInv, RecoveryFollowsFailure, txnVars, payVars
<1>p. ASSUME NEW k \in Keys, UNCHANGED txn, ~pay'[k].recovered,
             \A j \in Keys : j # k => pay'[j] = pay[j]
      PROVE  RecoveryFollowsFailure'
  BY <1>p
<1>q. ASSUME UNCHANGED txn,
             \A j \in Keys : /\ pay'[j].recovered = pay[j].recovered
                             /\ pay'[j].state = pay[j].state /\ pay'[j].failed = pay[j].failed
      PROVE  RecoveryFollowsFailure'
  BY <1>q
<1>r. ASSUME NEW k \in Keys, UNCHANGED txn, pay'[k].state = "COMPLETED", pay'[k].failed,
             \A j \in Keys : j # k => pay'[j] = pay[j]
      PROVE  RecoveryFollowsFailure'
  BY <1>r
<1>0. CASE UNCHANGED <<txn, pay>>
  BY <1>0
<1>1. ASSUME NEW k \in Keys, Start(k) PROVE RecoveryFollowsFailure'
  BY <1>1 DEF Start, TxnRow
<1>2. ASSUME NEW k \in Keys, Resume(k) PROVE RecoveryFollowsFailure'
  BY <1>2 DEF Resume, TxnRow
<1>3. ASSUME NEW k \in Keys, CallPayment(k) PROVE RecoveryFollowsFailure'
  BY <1>3 DEF CallPayment, TxnRow
<1>4. ASSUME NEW k \in Keys, PaymentAnswers(k) PROVE RecoveryFollowsFailure'
  <2>1. PICK r \in RepliesTo("payment", k) :
          \/ txn' = [txn EXCEPT ![k].state = "COMPLETED", ![k].seen = r.funds]
          \/ txn' = [txn EXCEPT ![k].state = "REQUIRES_REVIEW", ![k].seen = r.funds]
    BY <1>4 DEF PaymentAnswers
  <2>2. CASE txn' = [txn EXCEPT ![k].state = "COMPLETED", ![k].seen = r.funds]
    <3>1. /\ txn[k].state # "COMPLETED" /\ UNCHANGED pay
      BY <1>4 DEF PaymentAnswers
    <3>2. /\ txn'[k].recovered = txn[k].recovered
          /\ \A j \in Keys : j # k => txn'[j] = txn[j]
      BY <2>2, AnswerChanges
    <3>3. QED
      BY <3>1, <3>2
  <2>3. CASE txn' = [txn EXCEPT ![k].state = "REQUIRES_REVIEW", ![k].seen = r.funds]
    <3>1. ~txn[k].recovered
      BY <1>4 DEF PaymentAnswers
    <3>2. /\ txn'[k].recovered = txn[k].recovered
          /\ \A j \in Keys : j # k => txn'[j] = txn[j]
      BY <2>3 DEF TxnRow
    <3>3. QED
      BY <1>4, <3>1, <3>2 DEF PaymentAnswers
  <2>4. QED
    BY <2>1, <2>2, <2>3
<1>5. ASSUME NEW k \in Keys, PaymentCallFails(k) PROVE RecoveryFollowsFailure'
  BY <1>5 DEF PaymentCallFails, TxnRow
<1>6. ASSUME NEW k \in Keys, AppendTxnFailure(k) PROVE RecoveryFollowsFailure'
  BY <1>6 DEF AppendTxnFailure, TxnRow
<1>7. ASSUME NEW k \in Keys, AppendTxnRecovery(k) PROVE RecoveryFollowsFailure'
  BY <1>7 DEF AppendTxnRecovery, TxnRow
<1>8. ASSUME NEW k \in Keys, NEW a \in 1..MaxReviews + 1, PaymentReceives(k, a) PROVE RecoveryFollowsFailure'
  <2>1. CASE pay' = pay
    BY <1>8, <2>1 DEF PaymentReceives
  <2>2. CASE pay' = [pay EXCEPT ![k].state = "RECEIVED"] /\ pay[k].state = "ABSENT"
    <3>1. ~pay[k].recovered /\ UNCHANGED txn
      BY <1>8, <2>2 DEF PaymentReceives
    <3>2. ~pay'[k].recovered /\ \A j \in Keys : j # k => pay'[j] = pay[j]
      BY <2>2, <3>1, ReceiptChanges
    <3>3. QED
      BY <3>1, <3>2, <1>p
  <2>3. CASE pay' = [pay EXCEPT ![k].reviews = @ + 1]
    <3>1. \A j \in Keys : /\ pay'[j].recovered = pay[j].recovered
                        /\ pay'[j].state = pay[j].state
                        /\ pay'[j].failed = pay[j].failed
      BY <2>3 DEF PayRow
    <3>2. QED
      BY <1>8, <3>1 DEF PaymentReceives
  <2>4. QED
    BY <1>8, <2>1, <2>2, <2>3 DEF PaymentReceives
<1>9. ASSUME NEW k \in Keys, CallAccount(k) PROVE RecoveryFollowsFailure'
  <2>1. ~pay[k].recovered
    BY <1>9 DEF CallAccount
  <2>2. /\ pay'[k].recovered = pay[k].recovered
        /\ \A j \in Keys : j # k => pay'[j] = pay[j]
    BY <1>9 DEF CallAccount, PayRow
  <2>3. UNCHANGED txn
    BY <1>9 DEF CallAccount
  <2>4. QED
    BY <2>1, <2>2, <2>3
<1>10. ASSUME NEW k \in Keys, AccountAnswers(k) PROVE RecoveryFollowsFailure'
  <2>1. CASE pay' = [pay EXCEPT ![k].funds = "COMMITTED"]
    BY <1>10, <2>1 DEF AccountAnswers, PayRow
  <2>2. CASE Pause(k, IF pay[k].funds = "COMMITTED" THEN "COMMITTED" ELSE "NOT_COMMITTED")
    <3>1. ~pay[k].recovered
      BY <1>10 DEF AccountAnswers
    <3>2. /\ pay'[k].recovered = pay[k].recovered
          /\ \A j \in Keys : j # k => pay'[j] = pay[j]
      BY <2>2, PauseChanges
    <3>3. QED
      BY <1>10, <3>1, <3>2 DEF AccountAnswers
  <2>3. QED
    BY <1>10, <2>1, <2>2 DEF AccountAnswers
<1>11. ASSUME NEW k \in Keys, AccountCallFails(k) PROVE RecoveryFollowsFailure'
  <2>1. ~pay[k].recovered /\ Pause(k, pay[k].funds) /\ UNCHANGED txn
    BY <1>11 DEF AccountCallFails
  <2>2. /\ pay'[k].recovered = pay[k].recovered
        /\ \A j \in Keys : j # k => pay'[j] = pay[j]
    BY <2>1, PauseChanges
  <2>3. QED
    BY <2>1, <2>2, <1>p
<1>12. ASSUME NEW k \in Keys, LedgerAnswers(k) PROVE RecoveryFollowsFailure'
  <2>1. pay' = [pay EXCEPT ![k].posted = TRUE] /\ UNCHANGED txn
    BY <1>12 DEF LedgerAnswers
  <2>2. \A j \in Keys : /\ pay'[j].state = pay[j].state /\ pay'[j].failed = pay[j].failed
                        /\ pay'[j].recovered = pay[j].recovered
    BY <2>1 DEF PayRow
  <2>3. QED
    BY <2>1, <2>2, <1>q
<1>13. ASSUME NEW k \in Keys, LedgerCallFails(k) PROVE RecoveryFollowsFailure'
  <2>1. ~pay[k].recovered /\ Pause(k, pay[k].funds) /\ UNCHANGED txn
    BY <1>13 DEF LedgerCallFails
  <2>2. /\ pay'[k].recovered = pay[k].recovered
        /\ \A j \in Keys : j # k => pay'[j] = pay[j]
    BY <2>1, PauseChanges
  <2>3. QED
    BY <2>1, <2>2, <1>p
<1>14. ASSUME NEW k \in Keys, CompletePayment(k) PROVE RecoveryFollowsFailure'
  <2>1. pay' = [pay EXCEPT ![k].state = "COMPLETED"] /\ ~pay[k].recovered /\ UNCHANGED txn
    BY <1>14, CompletedRow DEF CompletePayment, ReturnPayment
  <2>2. /\ pay'[k].recovered = pay[k].recovered
        /\ \A j \in Keys : j # k => pay'[j] = pay[j]
    BY <2>1 DEF PayRow
  <2>3. QED
    BY <2>1, <2>2, <1>p
<1>15. ASSUME NEW k \in Keys, AppendPayFailure(k) PROVE RecoveryFollowsFailure'
  <2>1. /\ ~pay[k].recovered /\ UNCHANGED txn
        /\ ReturnPayment(k, [pay[k] EXCEPT !.failed = TRUE])
    BY <1>15 DEF AppendPayFailure
  <2>2. [pay[k] EXCEPT !.failed = TRUE].recovered = pay[k].recovered
    BY DEF PayRow
  <2>3. /\ pay'[k].recovered = pay[k].recovered
        /\ \A j \in Keys : j # k => pay'[j] = pay[j]
    <3> DEFINE row == [pay[k] EXCEPT !.failed = TRUE]
    <3>1. ReturnPayment(k, row) /\ row.recovered = pay[k].recovered
      BY <2>1, <2>2
    <3> HIDE DEF row
    <3>2. pay'[k] = row /\ \A j \in Keys : j # k => pay'[j] = pay[j]
      BY <3>1, ReturnChanges
    <3>3. QED
      BY <3>1, <3>2
  <2>4. QED
    BY <2>1, <2>3, <1>p
<1>16. ASSUME NEW k \in Keys, AppendPayRecovery(k) PROVE RecoveryFollowsFailure'
  <2>1. /\ pay' = [pay EXCEPT ![k].recovered = TRUE] /\ UNCHANGED txn
        /\ pay[k].state = "COMPLETED" /\ pay[k].failed
    BY <1>16, RecoveredRow DEF AppendPayRecovery, ReturnPayment
  <2>2. /\ pay'[k].state = "COMPLETED" /\ pay'[k].failed
        /\ \A j \in Keys : j # k => pay'[j] = pay[j]
    BY <2>1 DEF PayRow
  <2>3. QED
    BY <2>1, <2>2, <1>r
<1>17. QED
  BY <1>0, <1>1, <1>2, <1>3, <1>4, <1>5, <1>6, <1>7, <1>8, <1>9, <1>10, <1>11, <1>12, <1>13, <1>14, <1>15, <1>16
     DEF Next, Transaction, Payment, Account, Ledger, Dies, vars, AccountReceives, AccountRefuses,
         CommitTransfer, LedgerReceives, PostTransfer, Busy, Lose, TxnDies, PayDies, AccDies, LedDies

\* Recovery evidence stands only on completed rows that failed before.
THEOREM RecoveryIsEarned == Spec => []RecoveryFollowsFailure
<1>1. Init => RecoveryFollowsFailure
  BY DEF Init, RecoveryFollowsFailure, NoTxn, NoPay
<1>2. TypeOK /\ IInv /\ RecoveryFollowsFailure /\ [Next]_vars => RecoveryFollowsFailure'
  BY NextRecovery DEF IInv
<1>3. QED
  BY <1>1, <1>2, InvariantHolds, PTL DEF Spec

-----------------------------------------------------------------------------
(* RetryNeedsReview                                                        *)

\* No call carries an attempt the transaction service has not reached, and a
\* handler that took a paused payment up was called by a reviewed attempt.
AttemptInv ==
    /\ \A m \in requests : m.attempt <= Attempt(m.key)
    /\ \A k \in Keys :
         /\ payOp[k].attempt <= Attempt(k)
         /\ payOp[k].pc = "call" /\ pay[k].state = "REQUIRES_REVIEW" => payOp[k].attempt > 1

\* Attempt numbers only grow: each step keeps the invariant.
LEMMA NextAttempt == TypeOK /\ AttemptInv /\ [Next]_vars => AttemptInv'
<1> SUFFICES ASSUME TypeOK, AttemptInv, [Next]_vars PROVE AttemptInv'
  OBVIOUS
<1> USE DEF TypeOK, AttemptInv, Attempt, txnVars, payVars, accVars, ledVars
<1>0. CASE UNCHANGED vars
  BY <1>0 DEF vars
<1>1. ASSUME NEW k \in Keys, Start(k) PROVE AttemptInv'
  BY <1>1 DEF Start, TxnRow
<1>2. ASSUME NEW k \in Keys, Resume(k) PROVE AttemptInv'
  <2>1. \A j \in Keys : txn[j].reviews \in Nat /\ txn'[j].reviews \in {txn[j].reviews, txn[j].reviews + 1}
    BY <1>2 DEF Resume, TxnRow
  <2>2. \A j \in Keys : Attempt(j) <= Attempt(j)'
    BY <2>1
  <2>3. QED
    BY <1>2, <2>1 DEF Resume, Request
<1>3. ASSUME NEW k \in Keys, CallPayment(k) PROVE AttemptInv'
  BY <1>3 DEF CallPayment, TxnRow, Send, Req, Request
<1>4. ASSUME NEW k \in Keys, PaymentAnswers(k) PROVE AttemptInv'
  <2>1. PICK s, f :
          txn' = [txn EXCEPT ![k].state = s, ![k].seen = f]
    BY <1>4 DEF PaymentAnswers
  <2>2. \A j \in Keys : txn'[j].reviews = txn[j].reviews
    BY <2>1 DEF TxnRow
  <2>3. UNCHANGED <<pay, payOp, requests>>
    BY <1>4 DEF PaymentAnswers
  <2>4. QED
    BY <2>2, <2>3 DEF Request
<1>5. ASSUME NEW k \in Keys, PaymentCallFails(k) PROVE AttemptInv'
  BY <1>5 DEF PaymentCallFails, TxnRow
<1>6. ASSUME NEW k \in Keys, AppendTxnFailure(k) PROVE AttemptInv'
  BY <1>6 DEF AppendTxnFailure, TxnRow
<1>7. ASSUME NEW k \in Keys, AppendTxnRecovery(k) PROVE AttemptInv'
  BY <1>7 DEF AppendTxnRecovery, TxnRow
<1>8. ASSUME NEW k \in Keys, NEW a \in 1..MaxReviews + 1, PaymentReceives(k, a) PROVE AttemptInv'
  <2>1. a <= Attempt(k) /\ requests' \subseteq requests /\ UNCHANGED txn
    BY <1>8 DEF PaymentReceives, Req
  <2>2. CASE UNCHANGED <<pay, payOp>>
    BY <2>1, <2>2
  <2>3. CASE /\ pay' = [pay EXCEPT ![k].state = "RECEIVED"]
             /\ payOp' = [payOp EXCEPT ![k] = [pc |-> "call", attempt |-> a]]
    BY <2>1, <2>3 DEF PayRow
  <2>4. CASE /\ a > 1
             /\ pay' = [pay EXCEPT ![k].reviews = @ + 1]
             /\ payOp' = [payOp EXCEPT ![k] = [pc |-> "call", attempt |-> a]]
    <3>1. \A j \in Keys : pay'[j].state = pay[j].state
      BY <2>4 DEF PayRow
    <3>2. QED
      BY <2>1, <2>4, <3>1
  <2>5. QED
    BY <1>8, <2>2, <2>3, <2>4 DEF PaymentReceives, Reviewed
<1>9. ASSUME NEW k \in Keys, CallAccount(k) PROVE AttemptInv'
  BY <1>9 DEF CallAccount, WhileCalling, PayRow, Send, Req, Request
<1>10. ASSUME NEW k \in Keys, AccountAnswers(k) PROVE AttemptInv'
  <2>1. \A m \in requests' : m \in requests \/ (m.key = k /\ m.attempt = payOp[k].attempt)
    BY <1>10 DEF AccountAnswers, Send, Req
  <2>2. /\ payOp'[k].pc \in {"ledger", "failure"} /\ payOp'[k].attempt = payOp[k].attempt
        /\ \A j \in Keys : j # k => payOp'[j] = payOp[j]
    BY <1>10 DEF AccountAnswers, Pause
  <2>3. \A j \in Keys : j # k => pay'[j] = pay[j]
    BY <1>10 DEF AccountAnswers, Pause
  <2>4. QED
    BY <1>10, <2>1, <2>2, <2>3 DEF AccountAnswers
<1>11. ASSUME NEW k \in Keys, AccountCallFails(k) PROVE AttemptInv'
  BY <1>11 DEF AccountCallFails, Pause, PayRow
<1>12. ASSUME NEW k \in Keys, LedgerAnswers(k) PROVE AttemptInv'
  BY <1>12 DEF LedgerAnswers, RepliesTo, PayRow
<1>13. ASSUME NEW k \in Keys, LedgerCallFails(k) PROVE AttemptInv'
  BY <1>13 DEF LedgerCallFails, Pause, PayRow
<1>14. ASSUME NEW k \in Keys, CompletePayment(k) PROVE AttemptInv'
  <2>1. /\ payOp'[k].pc \in {"recovery", "idle"} /\ payOp'[k].attempt = payOp[k].attempt
        /\ \A j \in Keys : j # k => payOp'[j] = payOp[j] /\ pay'[j] = pay[j]
    BY <1>14 DEF CompletePayment, ReturnPayment
  <2>2. QED
    BY <1>14, <2>1 DEF CompletePayment
<1>15. ASSUME NEW k \in Keys, AppendPayFailure(k) PROVE AttemptInv'
  BY <1>15 DEF AppendPayFailure, ReturnPayment, Answer, Snapshot, PayRow
<1>16. ASSUME NEW k \in Keys, AppendPayRecovery(k) PROVE AttemptInv'
  BY <1>16 DEF AppendPayRecovery, ReturnPayment, Answer, Snapshot, PayRow
<1>17. ASSUME NEW k \in Keys, NEW a \in 1..MaxReviews + 1, AccountReceives(k, a) PROVE AttemptInv'
  BY <1>17 DEF AccountReceives
<1>18. ASSUME NEW k \in Keys, AccountRefuses(k) PROVE AttemptInv'
  BY <1>18 DEF AccountRefuses, Answer
<1>19. ASSUME NEW k \in Keys, CommitTransfer(k) PROVE AttemptInv'
  BY <1>19 DEF CommitTransfer, Answer
<1>20. ASSUME NEW k \in Keys, NEW a \in 1..MaxReviews + 1, LedgerReceives(k, a) PROVE AttemptInv'
  BY <1>20 DEF LedgerReceives
<1>21. ASSUME NEW k \in Keys, PostTransfer(k) PROVE AttemptInv'
  BY <1>21 DEF PostTransfer, Answer
<1>22. ASSUME NEW m \in requests, Busy(m) PROVE AttemptInv'
  BY <1>22 DEF Busy
<1>23. ASSUME NEW m \in requests, Lose(m) PROVE AttemptInv'
  BY <1>23 DEF Lose
<1>24. ASSUME NEW k \in Keys, TxnDies(k) PROVE AttemptInv'
  BY <1>24 DEF TxnDies
<1>25. ASSUME NEW k \in Keys, PayDies(k) PROVE AttemptInv'
  BY <1>25 DEF PayDies
<1>26. ASSUME NEW k \in Keys, AccDies(k) PROVE AttemptInv'
  BY <1>26 DEF AccDies
<1>27. ASSUME NEW k \in Keys, LedDies(k) PROVE AttemptInv'
  BY <1>27 DEF LedDies
<1>28. QED
  BY <1>0, <1>1, <1>2, <1>3, <1>4, <1>5, <1>6, <1>7, <1>8, <1>9, <1>10, <1>11, <1>12, <1>13, <1>14, <1>15, <1>16, <1>17, <1>18, <1>19, <1>20, <1>21, <1>22, <1>23, <1>24, <1>25, <1>26, <1>27
     DEF Next, Transaction, Payment, Account, Ledger, Dies

\* The action of RetryNeedsReview.
RetryReviewed ==
    \A k \in Keys :
      pay[k].state = "REQUIRES_REVIEW" /\ pay'[k].state = "PROCESSING"
        => payOp[k].attempt > 1 /\ payOp[k].attempt <= Attempt(k)

\* CallAccount is the only step that takes a paused payment up.
LEMMA NextRetry == TypeOK /\ AttemptInv /\ [Next]_vars => RetryReviewed
<1> SUFFICES ASSUME TypeOK, AttemptInv, [Next]_vars, NEW j \in Keys,
                    pay[j].state = "REQUIRES_REVIEW", pay'[j].state = "PROCESSING"
             PROVE  payOp[j].pc = "call"
  BY DEF AttemptInv, RetryReviewed
<1> USE DEF TypeOK, txnVars, payVars
<1>0. CASE UNCHANGED pay
  BY <1>0
<1>1. ASSUME NEW k \in Keys, NEW a \in 1..MaxReviews + 1, PaymentReceives(k, a) PROVE payOp[j].pc = "call"
  <2>1. CASE pay' = pay
    BY <2>1
  <2>2. CASE pay' = [pay EXCEPT ![k].state = "RECEIVED"]
    BY <2>2 DEF PayRow
  <2>3. CASE pay' = [pay EXCEPT ![k].reviews = @ + 1]
    BY <2>3 DEF PayRow
  <2>4. QED
    BY <1>1, <2>1, <2>2, <2>3 DEF PaymentReceives
<1>2. ASSUME NEW k \in Keys, CallAccount(k) PROVE payOp[j].pc = "call"
  BY <1>2 DEF CallAccount, WhileCalling, PayRow
<1>3. ASSUME NEW k \in Keys, AccountAnswers(k) PROVE payOp[j].pc = "call"
  <2>1. CASE pay' = [pay EXCEPT ![k].funds = "COMMITTED"]
    BY <2>1 DEF PayRow
  <2>2. ASSUME NEW f, Pause(k, f) PROVE payOp[j].pc = "call"
    BY <2>2 DEF Pause, PayRow
  <2>3. QED
    BY <1>3, <2>1, <2>2 DEF AccountAnswers
<1>4. ASSUME NEW k \in Keys, AccountCallFails(k) PROVE payOp[j].pc = "call"
  BY <1>4 DEF AccountCallFails, Pause, PayRow
<1>5. ASSUME NEW k \in Keys, LedgerAnswers(k) PROVE payOp[j].pc = "call"
  BY <1>5 DEF LedgerAnswers, RepliesTo, PayRow
<1>6. ASSUME NEW k \in Keys, LedgerCallFails(k) PROVE payOp[j].pc = "call"
  BY <1>6 DEF LedgerCallFails, Pause, PayRow
<1>7. ASSUME NEW k \in Keys, CompletePayment(k) PROVE payOp[j].pc = "call"
  BY <1>7 DEF CompletePayment, ReturnPayment, PayRow
<1>8. ASSUME NEW k \in Keys, AppendPayFailure(k) PROVE payOp[j].pc = "call"
  BY <1>8 DEF AppendPayFailure, ReturnPayment, Answer, Snapshot, PayRow
<1>9. ASSUME NEW k \in Keys, AppendPayRecovery(k) PROVE payOp[j].pc = "call"
  BY <1>9 DEF AppendPayRecovery, ReturnPayment, Answer, Snapshot, PayRow
<1>10. QED
  BY <1>0, <1>1, <1>2, <1>3, <1>4, <1>5, <1>6, <1>7, <1>8, <1>9
     DEF Next, Transaction, Payment, Account, Ledger, Dies, vars,
         Start, Resume, CallPayment, PaymentAnswers, PaymentCallFails, AppendTxnFailure, AppendTxnRecovery,
         AccountReceives, AccountRefuses, CommitTransfer, LedgerReceives, PostTransfer, Busy, Lose,
         TxnDies, PayDies, AccDies, LedDies, accVars, ledVars

\* A paused payment runs again only for an attempt an engineer reviewed.
THEOREM RetriesAreReviewed == Spec => RetryNeedsReview
<1>1. Init => AttemptInv
  BY DEF Init, AttemptInv, Attempt, NoTxn
<1>2. TypeOK /\ AttemptInv /\ [Next]_vars => AttemptInv' /\ [RetryReviewed]_vars
  BY NextAttempt, NextRetry
<1>3. QED
  BY <1>1, <1>2, TypeCorrect, PTL DEF Spec, RetryNeedsReview, RetryReviewed

-----------------------------------------------------------------------------
(* NegativeStatusIsTrue                                                    *)

\* What is on its way to the account service for k, and its rejection.
AccountRequests(k) == {m \in requests : m.to = "account" /\ m.key = k}
RejectionTravels(k) ==
    \E r \in replies : r.from = "account" /\ r.key = k /\ r.outcome = "rejected"

\* Until a review, a payment has one account call: its request, its handler
\* and its answer exclude one another, the first two precede the commit, and
\* a rejection is the last word.
SoleCall(k) ==
    /\ \A m, n \in AccountRequests(k) : m = n
    /\ accOp[k] # 0 => AccountRequests(k) = {}
    /\ AccountRequests(k) # {} \/ accOp[k] # 0 => k \notin journal
    /\ pay[k].funds = "NOT_COMMITTED" \/ RejectionTravels(k)
         => k \notin journal /\ accOp[k] = 0 /\ AccountRequests(k) = {}

\* Which account calls of k there may be, by what the row says of them.
CallsOf(k) ==
    /\ pay[k].state = "ABSENT" => pay[k].funds = "NOT_ATTEMPTED"
    /\ payOp[k].pc \in {"account", "failure"} => pay[k].state # "ABSENT"
    /\ payOp[k].pc = "account" => pay[k].funds # "NOT_ATTEMPTED"
    /\ payOp[k].pc = "call" /\ pay[k].reviews = 0 => pay[k].funds = "NOT_ATTEMPTED"
    /\ pay[k].funds = "NOT_ATTEMPTED" =>
         /\ k \notin journal /\ accOp[k] = 0
         /\ \A m \in requests : m.key = k => m.to = "payment"
    /\ pay[k].reviews = 0 => SoleCall(k)
    /\ \A r \in replies : r.from = "account" /\ r.key = k => payOp[k].pc = "account"

CallInv == \A k \in Keys : CallsOf(k)

\* A step that sends no request to the account service for j, answers none
\* and leaves the funds status of j alone: what most steps do.
LeavesCalls(j) ==
    /\ pay'[j].state = pay[j].state \/ pay'[j].state # "ABSENT"
    /\ pay'[j].funds = pay[j].funds /\ pay'[j].reviews = pay[j].reviews
    /\ \/ payOp'[j].pc = payOp[j].pc
       \/ /\ payOp'[j].pc \notin {"call", "account"}
          /\ payOp'[j].pc = "failure" => pay'[j].state # "ABSENT"
          /\ \A r \in replies' : r.from = "account" => r.key # j
    /\ accOp'[j] \in {0, accOp[j]}
    /\ j \in journal' <=> j \in journal
    /\ \A m \in requests' :
         m.key = j => m \in requests \/ m.to = "payment"
    /\ \A r \in replies' : r.from = "account" /\ r.key = j => r \in replies

\* Such a step keeps what is known of the calls of j.
LEMMA CallsLeft ==
  ASSUME NEW j \in Keys, CallsOf(j), LeavesCalls(j)
  PROVE  CallsOf(j)'
<1> USE DEF CallsOf, LeavesCalls
<1>1. AccountRequests(j)' \subseteq AccountRequests(j)
  BY DEF AccountRequests
<1>2. RejectionTravels(j)' => RejectionTravels(j)
  BY DEF RejectionTravels
<1>3. pay'[j].reviews = 0 => SoleCall(j)'
  BY <1>1, <1>2 DEF SoleCall
<1>4. \A r \in replies' : r.from = "account" /\ r.key = j => payOp'[j].pc = "account"
  OBVIOUS
<1>5. QED
  BY <1>3, <1>4

\* Each step keeps the invariant: six actions concern the account call of
\* their transfer, all others leave it alone.
LEMMA NextCall == TypeOK /\ IInv /\ CallInv /\ [Next]_vars => CallInv'
<1> SUFFICES ASSUME TypeOK, IInv, CallInv, [Next]_vars PROVE CallInv'
  OBVIOUS
<1> USE DEF TypeOK, CallInv, txnVars, payVars, accVars, ledVars
<1>a. ASSUME \A j \in Keys : LeavesCalls(j) PROVE CallInv'
  BY <1>a, CallsLeft
<1>b. ASSUME NEW k \in Keys, CallsOf(k)', \A j \in Keys : j # k => LeavesCalls(j) PROVE CallInv'
  BY <1>b, CallsLeft
<1>0. CASE UNCHANGED vars
  BY <1>0, <1>a DEF vars, LeavesCalls
<1>1. ASSUME NEW k \in Keys, Start(k) \/ Resume(k) PROVE CallInv'
  BY <1>1, <1>a DEF Start, Resume, LeavesCalls
<1>2. ASSUME NEW k \in Keys, CallPayment(k) PROVE CallInv'
  BY <1>2, <1>a DEF CallPayment, Send, Req, LeavesCalls
<1>3. ASSUME NEW k \in Keys, PaymentAnswers(k) \/ PaymentCallFails(k) PROVE CallInv'
  BY <1>3, <1>a DEF PaymentAnswers, PaymentCallFails, LeavesCalls
<1>4. ASSUME NEW k \in Keys, AppendTxnFailure(k) \/ AppendTxnRecovery(k) PROVE CallInv'
  BY <1>4, <1>a DEF AppendTxnFailure, AppendTxnRecovery, LeavesCalls
<1>5. ASSUME NEW k \in Keys, NEW a \in 1..MaxReviews + 1, PaymentReceives(k, a) PROVE CallInv'
  <2>1. CASE UNCHANGED payVars
    BY <1>5, <2>1, <1>a DEF PaymentReceives, Answer, LeavesCalls
  <2>2. CASE /\ pay[k].state = "ABSENT"
             /\ pay' = [pay EXCEPT ![k].state = "RECEIVED"]
             /\ payOp' = [payOp EXCEPT ![k] = [pc |-> "call", attempt |-> a]]
             /\ UNCHANGED replies
    <3>1. /\ pay'[k].state = "RECEIVED" /\ pay'[k].funds = pay[k].funds
          /\ pay'[k].reviews = pay[k].reviews /\ payOp'[k].pc = "call"
      BY <2>2 DEF PayRow
    <3>2. /\ UNCHANGED <<accOp, journal, replies>> /\ requests' \subseteq requests
          /\ payOp[k].pc = "idle"
      BY <1>5, <2>2 DEF PaymentReceives
    <3>3. CallsOf(k)'
      <4>1. AccountRequests(k)' \subseteq AccountRequests(k) /\ RejectionTravels(k)' = RejectionTravels(k)
        BY <3>2 DEF AccountRequests, RejectionTravels
      <4>2. pay'[k].reviews = 0 => SoleCall(k)'
        BY <3>1, <3>2, <4>1 DEF CallsOf, SoleCall
      <4>3. QED
        BY <2>2, <3>1, <3>2, <4>2 DEF CallsOf
    <3>4. QED
      BY <2>2, <3>2, <3>3, <1>b DEF LeavesCalls
  <2>3. CASE /\ pay[k].state \notin {"ABSENT", "COMPLETED"}
             /\ pay' = [pay EXCEPT ![k].reviews = @ + 1]
             /\ payOp' = [payOp EXCEPT ![k] = [pc |-> "call", attempt |-> a]]
             /\ UNCHANGED replies
    <3>1. /\ pay'[k].state = pay[k].state /\ pay'[k].funds = pay[k].funds
          /\ pay'[k].reviews # 0 /\ payOp'[k].pc = "call"
      BY <2>3 DEF PayRow
    <3>2. /\ UNCHANGED <<accOp, journal, replies>> /\ requests' \subseteq requests
          /\ payOp[k].pc = "idle"
      BY <1>5, <2>3 DEF PaymentReceives
    <3>3. CallsOf(k)'
      BY <2>3, <3>1, <3>2 DEF CallsOf
    <3>4. QED
      BY <2>3, <3>2, <3>3, <1>b DEF LeavesCalls
  <2>4. QED
    BY <1>5, <2>1, <2>2, <2>3 DEF PaymentReceives
<1>6. ASSUME NEW k \in Keys, CallAccount(k) PROVE CallInv'
  <2>1. /\ pay'[k].state = "PROCESSING" /\ pay'[k].reviews = pay[k].reviews
        /\ pay'[k].funds \in {"COMMITTED", "UNKNOWN"}
        /\ payOp[k].pc = "call" /\ payOp'[k].pc = "account"
        /\ UNCHANGED <<accOp, journal, replies>>
    BY <1>6 DEF CallAccount, WhileCalling, PayRow
  <2>2. requests' = requests \cup {Req("account", k, payOp[k].attempt)}
    BY <1>6 DEF CallAccount, Send
  <2>3. CallsOf(k)'
    <3>1. CASE pay[k].reviews = 0
      <4>1. pay[k].funds = "NOT_ATTEMPTED" /\ AccountRequests(k) = {} /\ accOp[k] = 0 /\ k \notin journal
        BY <2>1, <3>1 DEF CallsOf, AccountRequests
      <4>2. AccountRequests(k)' = {Req("account", k, payOp[k].attempt)}
        BY <2>2, <4>1 DEF AccountRequests, Req
      <4>3. ~RejectionTravels(k)'
        BY <2>1 DEF CallsOf, RejectionTravels
      <4>4. SoleCall(k)'
        BY <2>1, <4>1, <4>2, <4>3 DEF SoleCall
      <4>5. QED
        BY <2>1, <4>4 DEF CallsOf
    <3>2. CASE pay[k].reviews # 0
      BY <2>1, <3>2 DEF CallsOf
    <3>3. QED
      BY <3>1, <3>2
  <2>4. ASSUME NEW j \in Keys, j # k PROVE LeavesCalls(j)
    BY <1>6, <2>1, <2>2, <2>4 DEF CallAccount, LeavesCalls, Req
  <2>5. QED
    BY <2>3, <2>4, <1>b
<1>7. ASSUME NEW k \in Keys, AccountAnswers(k) PROVE CallInv'
  <2>0. /\ payOp[k].pc = "account" /\ UNCHANGED <<accOp, journal>>
        /\ replies' = replies \ RepliesTo("account", k)
    BY <1>7 DEF AccountAnswers
  <2>1. PICK r \in RepliesTo("account", k) :
          \/ /\ r.outcome = "ok"
             /\ pay' = [pay EXCEPT ![k].funds = "COMMITTED"]
             /\ payOp' = [payOp EXCEPT ![k].pc = "ledger"]
             /\ Send("ledger", k, payOp[k].attempt)
          \/ /\ r.outcome = "rejected"
             /\ Pause(k, IF pay[k].funds = "COMMITTED" THEN "COMMITTED" ELSE "NOT_COMMITTED")
             /\ UNCHANGED requests
    BY <1>7 DEF AccountAnswers
  <2>2. \A q \in replies' : q \in replies /\ ~(q.from = "account" /\ q.key = k)
    BY <2>0 DEF RepliesTo
  <2>3. /\ pay'[k].state # "ABSENT" /\ pay'[k].reviews = pay[k].reviews
        /\ payOp'[k].pc \in {"ledger", "failure"}
    BY <2>0, <2>1 DEF Pause, PayRow, CallsOf
  <2>4. /\ AccountRequests(k)' = AccountRequests(k)
        /\ ~RejectionTravels(k)'
    BY <2>1, <2>2 DEF AccountRequests, RejectionTravels, Send, Req
  <2>5. pay'[k].funds \in {"COMMITTED", "NOT_COMMITTED"}
    BY <2>1 DEF Pause, PayRow
  <2>6. pay'[k].funds = "NOT_COMMITTED" => RejectionTravels(k)
    BY <2>1 DEF Pause, PayRow, RejectionTravels, RepliesTo
  <2>7. pay'[k].reviews = 0 => SoleCall(k)'
    <3>1. pay[k].reviews = 0 => SoleCall(k)
      BY DEF CallsOf
    <3>2. UNCHANGED <<accOp, journal>>
      BY <2>0
    <3>3. QED
      BY <2>3, <2>4, <2>6, <3>1, <3>2 DEF SoleCall
  <2>8. CallsOf(k)'
    BY <2>2, <2>3, <2>5, <2>7 DEF CallsOf
  <2>9. ASSUME NEW j \in Keys, j # k PROVE LeavesCalls(j)
    <3>1. pay'[j] = pay[j] /\ payOp'[j] = payOp[j]
      BY <2>1, <2>9 DEF Pause
    <3>2. \A m \in requests' : m.key = j => m \in requests
      BY <2>1, <2>9 DEF Send, Req
    <3>3. QED
      BY <2>0, <2>2, <3>1, <3>2 DEF LeavesCalls
  <2>10. QED
    BY <2>8, <2>9, <1>b
<1>8. ASSUME NEW k \in Keys, AccountCallFails(k) PROVE CallInv'
  <2>1. \A j \in Keys : LeavesCalls(j)
    BY <1>8 DEF AccountCallFails, Pause, PayRow, RepliesTo, LeavesCalls
  <2>2. QED
    BY <2>1, <1>a
<1>9. ASSUME NEW k \in Keys, LedgerAnswers(k) \/ LedgerCallFails(k) PROVE CallInv'
  <2>0. \A r \in replies : r.from = "account" => r.key # k
    BY <1>9 DEF CallsOf, LedgerAnswers, LedgerCallFails
  <2>1. \A j \in Keys : LeavesCalls(j)
    <3>1. CASE LedgerAnswers(k)
      BY <2>0, <3>1 DEF LedgerAnswers, PayRow, RepliesTo, LeavesCalls
    <3>2. CASE LedgerCallFails(k)
      BY <2>0, <3>2 DEF LedgerCallFails, Pause, PayRow, RepliesTo, LeavesCalls
    <3>3. QED
      BY <1>9, <3>1, <3>2
  <2>2. QED
    BY <2>1, <1>a
<1>10. ASSUME NEW k \in Keys, NEW row \in PayRow, ReturnPayment(k, row), row.state # "ABSENT",
              row.funds = pay[k].funds, row.reviews = pay[k].reviews,
              payOp[k].pc # "account", UNCHANGED <<accVars, requests>>
       PROVE  CallInv'
  <2>0. \A r \in replies : r.from = "account" => r.key # k
    BY <1>10 DEF CallsOf
  <2>1. \A j \in Keys : LeavesCalls(j)
    BY <1>10, <2>0 DEF ReturnPayment, Answer, LeavesCalls
  <2>2. QED
    BY <2>1, <1>a
<1>11. ASSUME NEW k \in Keys, CompletePayment(k) PROVE CallInv'
  <2>1. CASE pay[k].failed
    <3>0. \A r \in replies : r.from = "account" => r.key # k
      BY <1>11 DEF CallsOf, CompletePayment
    <3>1. \A j \in Keys : LeavesCalls(j)
      BY <1>11, <2>1, <3>0 DEF CompletePayment, Recovers, PayRow, LeavesCalls
    <3>2. QED
      BY <3>1, <1>a
  <2>2. CASE ~pay[k].failed
    <3>1. [pay[k] EXCEPT !.state = "COMPLETED"] \in PayRow
      BY DEF PayRow, States
    <3>2. QED
      BY <1>11, <2>2, <3>1, <1>10 DEF CompletePayment, Recovers, PayRow
  <2>3. QED
    BY <2>1, <2>2
<1>12. ASSUME NEW k \in Keys, AppendPayFailure(k) PROVE CallInv'
  <2>1. [pay[k] EXCEPT !.failed = TRUE] \in PayRow
    BY DEF PayRow
  <2>2. pay[k].state # "ABSENT"
    BY <1>12 DEF AppendPayFailure, CallsOf
  <2>3. QED
    BY <1>12, <2>1, <2>2, <1>10 DEF AppendPayFailure, PayRow
<1>13. ASSUME NEW k \in Keys, AppendPayRecovery(k) PROVE CallInv'
  <2>1. [pay[k] EXCEPT !.recovered = TRUE] \in PayRow
    BY DEF PayRow
  <2>2. pay[k].state = "COMPLETED"
    BY <1>13 DEF AppendPayRecovery, IInv, StepInv
  <2>3. QED
    BY <1>13, <2>1, <2>2, <1>10 DEF AppendPayRecovery, PayRow
<1>14. ASSUME NEW k \in Keys, NEW a \in 1..MaxReviews + 1, AccountReceives(k, a) PROVE CallInv'
  <2>1. /\ Req("account", k, a) \in AccountRequests(k) /\ a # 0
        /\ UNCHANGED <<pay, payOp, journal, replies>> /\ accOp'[k] = a
        /\ requests' = requests \ {Req("account", k, a)}
    BY <1>14 DEF AccountReceives, AccountRequests, Req
  <2>2. SoleCall(k) => SoleCall(k)'
    <3>1. SoleCall(k) => AccountRequests(k)' = {}
      BY <2>1 DEF SoleCall, AccountRequests
    <3>2. RejectionTravels(k)' = RejectionTravels(k)
      BY <2>1 DEF RejectionTravels
    <3>3. QED
      BY <2>1, <3>1, <3>2 DEF SoleCall
  <2>3. CallsOf(k)'
    <3>1. pay[k].funds # "NOT_ATTEMPTED"
      BY <2>1 DEF CallsOf, AccountRequests
    <3>2. QED
      BY <2>1, <2>2, <3>1 DEF CallsOf
  <2>4. ASSUME NEW j \in Keys, j # k PROVE LeavesCalls(j)
    BY <1>14, <2>4 DEF AccountReceives, LeavesCalls
  <2>5. QED
    BY <2>3, <2>4, <1>b
<1>15. ASSUME NEW k \in Keys, AccountRefuses(k) PROVE CallInv'
  <2>1. /\ Req("account", k, 1) \in AccountRequests(k)
        /\ UNCHANGED <<pay, payOp, journal, accOp>>
        /\ requests' = requests \ {Req("account", k, 1)}
    BY <1>15 DEF AccountRefuses, AccountRequests, Req
  <2>2. SoleCall(k) => SoleCall(k)'
    <3>1. SoleCall(k) => AccountRequests(k)' = {}
      BY <2>1 DEF SoleCall, AccountRequests
    <3>2. QED
      BY <2>1, <3>1 DEF SoleCall
  <2>3. \A r \in replies' : r \in replies \/ r.from # "account" \/ (r.key = k /\ payOp[k].pc = "account")
    BY <1>15 DEF AccountRefuses, Answer, Awaited
  <2>4. CallsOf(k)'
    <3>1. pay[k].funds # "NOT_ATTEMPTED"
      BY <2>1 DEF CallsOf, AccountRequests
    <3>2. \A r \in replies' : r.from = "account" /\ r.key = k => payOp[k].pc = "account"
      BY <2>3 DEF CallsOf
    <3>3. QED
      BY <2>1, <2>2, <3>1, <3>2 DEF CallsOf
  <2>5. ASSUME NEW j \in Keys, j # k PROVE LeavesCalls(j)
    BY <1>15, <2>3, <2>5 DEF AccountRefuses, LeavesCalls
  <2>6. QED
    BY <2>4, <2>5, <1>b
<1>16. ASSUME NEW k \in Keys, CommitTransfer(k) PROVE CallInv'
  <2>1. /\ accOp[k] # 0 /\ accOp'[k] = 0 /\ UNCHANGED <<pay, payOp, requests>>
        /\ journal' \in {journal, journal \cup {k}}
    BY <1>16 DEF CommitTransfer
  <2>2. PICK outcome \in {"ok", "rejected"} :
          /\ Answer("account", k, accOp[k], outcome, "NONE")
          /\ outcome = "rejected" => journal' = journal
    BY <1>16 DEF CommitTransfer
  <2>3. \A r \in replies' : \/ r \in replies
                            \/ r.key = k /\ payOp[k].pc = "account" /\ r.outcome = outcome
    BY <2>2 DEF Answer, Awaited
  <2>4. SoleCall(k) => SoleCall(k)'
    <3>1. AccountRequests(k)' = AccountRequests(k)
      BY <2>1 DEF AccountRequests
    <3>2. SoleCall(k) => AccountRequests(k) = {} /\ k \notin journal
                         /\ pay[k].funds # "NOT_COMMITTED" /\ ~RejectionTravels(k)
      BY <2>1 DEF SoleCall
    <3>3. SoleCall(k) /\ RejectionTravels(k)' => outcome = "rejected"
      BY <2>3, <3>2 DEF RejectionTravels
    <3>4. QED
      BY <2>1, <2>2, <3>1, <3>2, <3>3 DEF SoleCall
  <2>5. CallsOf(k)'
    BY <2>1, <2>3, <2>4 DEF CallsOf
  <2>6. ASSUME NEW j \in Keys, j # k PROVE LeavesCalls(j)
    BY <1>16, <2>1, <2>3, <2>6 DEF CommitTransfer, LeavesCalls
  <2>7. QED
    BY <2>5, <2>6, <1>b
<1>17. ASSUME NEW k \in Keys, NEW a \in 1..MaxReviews + 1, LedgerReceives(k, a) PROVE CallInv'
  BY <1>17, <1>a DEF LedgerReceives, LeavesCalls
<1>18. ASSUME NEW k \in Keys, PostTransfer(k) PROVE CallInv'
  BY <1>18, <1>a DEF PostTransfer, Answer, LeavesCalls
<1>19. ASSUME NEW m \in requests, Busy(m) \/ Lose(m) PROVE CallInv'
  BY <1>19, <1>a DEF Busy, Lose, LeavesCalls
<1>20. ASSUME NEW k \in Keys, TxnDies(k) PROVE CallInv'
  BY <1>20, <1>a DEF TxnDies, LeavesCalls
<1>21. ASSUME NEW k \in Keys, PayDies(k) PROVE CallInv'
  BY <1>21, <1>a DEF PayDies, RepliesTo, LeavesCalls
<1>22. ASSUME NEW k \in Keys, AccDies(k) \/ LedDies(k) PROVE CallInv'
  BY <1>22, <1>a DEF AccDies, LedDies, LeavesCalls
<1>23. QED
  BY <1>0, <1>1, <1>2, <1>3, <1>4, <1>5, <1>6, <1>7, <1>8, <1>9, <1>11, <1>12, <1>13, <1>14,
     <1>15, <1>16, <1>17, <1>18, <1>19, <1>20, <1>21, <1>22
     DEF Next, Transaction, Payment, Account, Ledger, Dies

\* NOT_ATTEMPTED and an unreviewed NOT_COMMITTED tell the truth, whatever is
\* lost, delayed or dies on the way.
THEOREM NegativesAreTrue == Spec => []NegativeStatusIsTrue
<1>1. Init => CallInv
  <2> SUFFICES ASSUME Init, NEW k \in Keys PROVE CallsOf(k)
    BY DEF CallInv
  <2>1. /\ pay[k] = NoPay /\ payOp[k].pc = "idle" /\ accOp[k] = 0
        /\ journal = {} /\ requests = {} /\ replies = {}
    BY DEF Init
  <2>2. AccountRequests(k) = {} /\ ~RejectionTravels(k)
    BY <2>1 DEF AccountRequests, RejectionTravels
  <2>3. QED
    BY <2>1, <2>2 DEF CallsOf, SoleCall, NoPay
<1>2. CallInv => NegativeStatusIsTrue
  BY DEF CallInv, CallsOf, SoleCall, NegativeStatusIsTrue
<1>3. QED
  BY <1>1, <1>2, NextCall, InvariantHolds, PTL DEF Spec

-----------------------------------------------------------------------------
(* BalancesMatchJournal                                                    *)

\* What the instructions of a set move together.
Total(S) == Sum(Amount, S)

\* No instruction moves nothing.
LEMMA TotalOfNone == Total({}) = 0
BY SumOfNone DEF Total

\* One instruction more moves its amount more.
LEMMA TotalAdds ==
  ASSUME NEW S \in SUBSET Keys, IsFiniteSet(S), NEW k \in Keys, k \notin S
  PROVE  Total(S \cup {k}) = Total(S) + Amount[k] /\ Total(S) \in Int
<1>1. Numbers(Amount, S) /\ Amount[k] \in Int
  BY MoneyAssumption DEF Numbers
<1> QED
  BY <1>1, SumAdds DEF Total

\* The journalled instructions to an account, and from it.
Credited(a) == {k \in journal : Destination[k] = a}
Debited(a)  == {k \in journal : Source[k] = a}
\* Each balance is the first one, with what was credited, less what was
\* debited.
BalanceInv ==
    /\ IsFiniteSet(journal)
    /\ \A a \in Accounts :
         balance[a] = InitialBalance[a] + Total(Credited(a)) - Total(Debited(a))

\* That is the property, in the words of the lemmas above.
LEMMA BalanceIs == BalanceInv => BalancesMatchJournal
BY DEF BalanceInv, BalancesMatchJournal, Total, Sum, Credited, Debited

\* Only the commit of a transfer writes balances, together with the journal.
LEMMA OnlyCommitMoves ==
  ASSUME [Next]_vars
  PROVE  \/ UNCHANGED <<balance, journal>>
         \/ \E k \in Keys : /\ k \notin journal
                            /\ balance' = Transferred(balance, k)
                            /\ journal' = journal \cup {k}
<1> USE DEF txnVars, payVars, accVars, ledVars
<1>1. CASE UNCHANGED vars
  BY <1>1 DEF vars
<1>2. ASSUME NEW k \in Keys, Start(k) \/ Resume(k) \/ Transaction(k)
      PROVE  UNCHANGED <<balance, journal>>
  BY <1>2 DEF Start, Resume, Transaction, CallPayment, PaymentAnswers, PaymentCallFails,
              AppendTxnFailure, AppendTxnRecovery
<1>3. ASSUME NEW k \in Keys, Payment(k) PROVE UNCHANGED <<balance, journal>>
  BY <1>3 DEF Payment, PaymentReceives, CallAccount, AccountAnswers, AccountCallFails,
              LedgerAnswers, LedgerCallFails, CompletePayment, AppendPayFailure,
              AppendPayRecovery
<1>4. ASSUME NEW k \in Keys, Account(k)
      PROVE  \/ UNCHANGED <<balance, journal>>
             \/ /\ k \notin journal
                /\ balance' = Transferred(balance, k)
                /\ journal' = journal \cup {k}
  <2>1. CASE CommitTransfer(k)
    BY <2>1 DEF CommitTransfer, Prior
  <2>2. ASSUME NEW a \in 1..MaxReviews + 1, AccountReceives(k, a)
        PROVE  UNCHANGED <<balance, journal>>
    BY <2>2 DEF AccountReceives
  <2> QED
    BY <1>4, <2>1, <2>2 DEF Account
<1>5. ASSUME NEW k \in Keys, Ledger(k) \/ Dies(k) PROVE UNCHANGED <<balance, journal>>
  BY <1>5 DEF Ledger, LedgerReceives, PostTransfer, Dies, TxnDies, PayDies, AccDies,
              LedDies, AccountRefuses
<1>6. ASSUME NEW m \in requests, Busy(m) \/ Lose(m) PROVE UNCHANGED <<balance, journal>>
  BY <1>6 DEF Busy, Lose
<1> QED
  BY <1>1, <1>2, <1>3, <1>4, <1>5, <1>6 DEF Next

\* The step that moves funds keeps every balance at what the journal says.
LEMMA NextBalance == TypeOK /\ BalanceInv /\ [Next]_vars => BalanceInv'
<1> SUFFICES ASSUME TypeOK, BalanceInv, [Next]_vars PROVE BalanceInv'
  OBVIOUS
<1>1. CASE UNCHANGED <<balance, journal>>
  <2>1. IsFiniteSet(journal)'
    BY <1>1 DEF BalanceInv
  <2>2. ASSUME NEW a \in Accounts
        PROVE  (balance[a] = InitialBalance[a] + Total(Credited(a)) - Total(Debited(a)))'
    <3>1. Credited(a)' = Credited(a) /\ Debited(a)' = Debited(a)
      BY <1>1 DEF Credited, Debited
    <3> QED
      BY <1>1, <3>1 DEF BalanceInv
  <2> QED
    BY <2>1, <2>2 DEF BalanceInv
<1>2. ASSUME NEW k \in Keys, k \notin journal, balance' = Transferred(balance, k),
             journal' = journal \cup {k}
      PROVE  BalanceInv'
  <2>1. IsFiniteSet(journal')
    BY <1>2, FS_AddElement DEF BalanceInv
  <2>2. journal \in SUBSET Keys /\ balance \in [Accounts -> Nat]
    BY DEF TypeOK
  <2>3. ASSUME NEW a \in Accounts
        PROVE  balance'[a] = InitialBalance[a] + Total(Credited(a)') - Total(Debited(a)')
    <3>1. /\ IsFiniteSet(Credited(a)) /\ IsFiniteSet(Debited(a))
          /\ Credited(a) \in SUBSET Keys /\ Debited(a) \in SUBSET Keys
          /\ k \notin Credited(a) /\ k \notin Debited(a)
      BY <1>2, <2>2, FS_Subset DEF BalanceInv, Credited, Debited
    <3>2. /\ Total(Credited(a) \cup {k}) = Total(Credited(a)) + Amount[k]
          /\ Total(Debited(a) \cup {k}) = Total(Debited(a)) + Amount[k]
          /\ Total(Credited(a)) \in Int /\ Total(Debited(a)) \in Int
      BY <3>1, TotalAdds
    <3>3. /\ Credited(a)' = IF Destination[k] = a THEN Credited(a) \cup {k} ELSE Credited(a)
          /\ Debited(a)' = IF Source[k] = a THEN Debited(a) \cup {k} ELSE Debited(a)
      BY <1>2 DEF Credited, Debited
    <3>4. balance'[a] = balance[a] + (IF Destination[k] = a THEN Amount[k] ELSE 0)
                                   - (IF Source[k] = a THEN Amount[k] ELSE 0)
      BY <1>2, <2>2, RouteAssumption, MoneyAssumption DEF Transferred
    <3>5. /\ Amount[k] \in Nat /\ InitialBalance[a] \in Nat
          /\ balance[a] = InitialBalance[a] + Total(Credited(a)) - Total(Debited(a))
      BY MoneyAssumption DEF BalanceInv
    <3>6. Source[k] # Destination[k]
      BY RouteAssumption
    <3>7. CASE Destination[k] = a
      BY <3>2, <3>3, <3>4, <3>5, <3>6, <3>7
    <3>8. CASE Source[k] = a
      BY <3>2, <3>3, <3>4, <3>5, <3>6, <3>8
    <3>9. CASE Destination[k] # a /\ Source[k] # a
      BY <3>2, <3>3, <3>4, <3>5, <3>9
    <3> QED
      BY <3>7, <3>8, <3>9
  <2> QED
    BY <2>1, <2>3 DEF BalanceInv
<1> QED
  BY <1>1, <1>2, OnlyCommitMoves

\* Every balance is what the journal says, whatever is lost, repeated, late or
\* dies: the account service moves the funds of an instruction once, whole.
THEOREM BalancesAreJournalled == Spec => []BalancesMatchJournal
<1>1. Init => BalanceInv
  <2> SUFFICES ASSUME Init PROVE BalanceInv
    OBVIOUS
  <2>1. journal = {} /\ balance = InitialBalance
    BY DEF Init
  <2>2. IsFiniteSet(journal)
    BY <2>1, FS_EmptySet
  <2>3. ASSUME NEW a \in Accounts
        PROVE  balance[a] = InitialBalance[a] + Total(Credited(a)) - Total(Debited(a))
    <3>1. Credited(a) = {} /\ Debited(a) = {}
      BY <2>1 DEF Credited, Debited
    <3>2. InitialBalance[a] \in Nat
      BY MoneyAssumption
    <3> QED
      BY <2>1, <3>1, <3>2, TotalOfNone
  <2> QED
    BY <2>2, <2>3 DEF BalanceInv
<1> QED
  BY <1>1, BalanceIs, NextBalance, InitTypeOK, NextTypeOK, PTL DEF Spec

-----------------------------------------------------------------------------
(* Money: the sum of all balances, of which there are finitely many.       *)

\* All accounts together have what they had at first.
MoneyIsConserved == Sum(balance, Accounts) = Sum(InitialBalance, Accounts)

\* However often a transfer is called, retried, lost, abandoned or cut short by
\* a crash, and however many of them interleave over the same accounts, no
\* money comes to be and none gets lost, and no account is overdrawn.
THEOREM TransfersConserveMoney ==
  ASSUME IsFiniteSet(Accounts) PROVE Spec => [](MoneyIsConserved /\ TypeOK)
<1>1. Init => MoneyIsConserved
  BY DEF Init, MoneyIsConserved
<1>2. TypeOK /\ MoneyIsConserved /\ [Next]_vars => MoneyIsConserved'
  <2> SUFFICES ASSUME TypeOK, MoneyIsConserved, [Next]_vars PROVE MoneyIsConserved'
    OBVIOUS
  <2>1. CASE UNCHANGED balance
    BY <2>1 DEF MoneyIsConserved
  <2>2. ASSUME NEW k \in Keys, balance' = Transferred(balance, k)
        PROVE  MoneyIsConserved'
    <3>1. /\ balance \in [Accounts -> Int] /\ Amount[k] \in Int
          /\ Source[k] \in Accounts /\ Destination[k] \in Accounts
          /\ Source[k] # Destination[k]
      BY RouteAssumption, MoneyAssumption DEF TypeOK
    <3> DEFINE after == Transferred(balance, k)
    <3>2. /\ after[Source[k]] = balance[Source[k]] - Amount[k]
          /\ after[Destination[k]] = balance[Destination[k]] + Amount[k]
          /\ \A a \in Accounts \ {Source[k], Destination[k]} : after[a] = balance[a]
          /\ \A a \in Accounts : balance[a] \in Int
      BY <3>1 DEF Transferred
    <3>3. Sum(after, Accounts) = Sum(balance, Accounts)
      <4> HIDE DEF after
      <4> QED
        BY <3>1, <3>2, SumKept
    <3> QED
      BY <2>2, <3>3 DEF MoneyIsConserved
  <2> QED
    BY <2>1, <2>2, OnlyCommitMoves
<1> QED
  BY <1>1, <1>2, TypeCorrect, PTL DEF Spec

-----------------------------------------------------------------------------
(* ImplementsAtomicTransfer: each step of a service is a step of           *)
(* AtomicTransfer or changes nothing it can see.                           *)

\* The stage of a transfer depends on four facts only.
LEMMA StageStays ==
  ASSUME NEW k \in Keys, (txn'[k].state = "COMPLETED") <=> (txn[k].state = "COMPLETED"),
         (pay'[k].state = "COMPLETED") <=> (pay[k].state = "COMPLETED"),
         k \in ledger' <=> k \in ledger, k \in journal' <=> k \in journal
  PROVE  Stage(k)' = Stage(k)
BY DEF Stage

\* Moving one transfer one stage on is an abstract Advance.
LEMMA StageAdvances ==
  ASSUME NEW k \in Keys, NEW from, NEW to, Stage(k) = from, Stage(k)' = to,
         \A j \in Keys : j # k => Stage(j)' = Stage(j)
  PROVE  Abstract!Advance(k, from, to)
BY DEF Abstract!Advance

\* No change of any stage is a stutter of the abstract transfer.
LEMMA Stutters ==
  ASSUME UNCHANGED balance, \A j \in Keys : Stage(j)' = Stage(j)
  PROVE  UNCHANGED <<balance, [k \in Keys |-> Stage(k)]>>
OBVIOUS

\* Four actions are seen by the abstract transfer, the rest stutter.
LEMMA NextAbstract ==
  TypeOK /\ IInv /\ [Next]_vars
     => [Abstract!Next]_<<balance, [k \in Keys |-> Stage(k)]>>
<1> SUFFICES ASSUME TypeOK, IInv, [Next]_vars
             PROVE  Abstract!Next \/ UNCHANGED <<balance, [k \in Keys |-> Stage(k)]>>
  OBVIOUS
<1> USE DEF TypeOK, txnVars, payVars, accVars, ledVars
<1>0. ASSUME UNCHANGED <<balance, journal, ledger>>,
             \A j \in Keys : (txn'[j].state = "COMPLETED") <=> (txn[j].state = "COMPLETED"),
             \A j \in Keys : (pay'[j].state = "COMPLETED") <=> (pay[j].state = "COMPLETED")
      PROVE  UNCHANGED <<balance, [k \in Keys |-> Stage(k)]>>
  BY <1>0, StageStays, Stutters
<1>1. ASSUME NEW k \in Keys, PaymentAnswers(k)
      PROVE  Abstract!Complete(k) \/ UNCHANGED <<balance, [j \in Keys |-> Stage(j)]>>
  <2>1. PICK r \in RepliesTo("payment", k) :
          \/ r.outcome = "COMPLETED" /\ txn' = [txn EXCEPT ![k].state = "COMPLETED", ![k].seen = r.funds]
          \/ txn' = [txn EXCEPT ![k].state = "REQUIRES_REVIEW", ![k].seen = r.funds]
    BY <1>1 DEF PaymentAnswers, Confirms
  <2>2. /\ UNCHANGED <<pay, balance, journal, ledger>> 
        /\ txn[k].state # "COMPLETED"
    BY <1>1 DEF PaymentAnswers, IInv, StepInv
  <2>3. CASE r.outcome = "COMPLETED" /\ txn' = [txn EXCEPT ![k].state = "COMPLETED", ![k].seen = r.funds]
    <3>1. pay[k].state = "COMPLETED"
      BY <2>3 DEF IInv, ReplyInv, StillTrue, RepliesTo
    <3>2. txn'[k].state = "COMPLETED" /\ \A j \in Keys : j # k => txn'[j] = txn[j]
      BY <2>3 DEF TxnRow
    <3>3. Stage(k) = "paid" /\ Stage(k)' = "completed"
      BY <2>2, <3>1, <3>2 DEF Stage
    <3>4. \A j \in Keys : j # k => Stage(j)' = Stage(j)
      BY <2>2, <3>2, StageStays
    <3>5. QED
      BY <2>2, <3>3, <3>4, StageAdvances DEF Abstract!Complete
  <2>4. CASE txn' = [txn EXCEPT ![k].state = "REQUIRES_REVIEW", ![k].seen = r.funds]
    <3>1. txn'[k].state # "COMPLETED" /\ \A j \in Keys : j # k => txn'[j] = txn[j]
      BY <2>4 DEF TxnRow
    <3>2. QED
      BY <2>2, <3>1, <1>0
  <2>5. QED
    BY <2>1, <2>3, <2>4
<1>2. ASSUME NEW k \in Keys, CompletePayment(k) PROVE Abstract!Pay(k)
  <2>1. /\ pay'[k].state = "COMPLETED" /\ \A j \in Keys : j # k => pay'[j] = pay[j]
        /\ UNCHANGED <<txn, balance, journal, ledger>>
    BY <1>2 DEF CompletePayment, ReturnPayment, PayRow
  <2>2. /\ pay[k].state # "COMPLETED" /\ txn[k].state # "COMPLETED"
        /\ k \in ledger
    BY <1>2 DEF CompletePayment, IInv, StepInv, StatusIsBacked, Backed
  <2>3. Stage(k) = "posted" /\ Stage(k)' = "paid"
    BY <2>1, <2>2 DEF Stage
  <2>4. \A j \in Keys : j # k => Stage(j)' = Stage(j)
    BY <2>1, StageStays
  <2>5. QED
    BY <2>1, <2>3, <2>4, StageAdvances DEF Abstract!Pay
<1>3. ASSUME NEW k \in Keys, CommitTransfer(k)
      PROVE  Abstract!Move(k) \/ UNCHANGED <<balance, [j \in Keys |-> Stage(j)]>>
  <2>1. UNCHANGED <<txn, pay, ledger>>
    BY <1>3 DEF CommitTransfer
  <2>2. CASE UNCHANGED <<balance, journal>>
    BY <2>1, <2>2, <1>0
  <2>3. CASE /\ k \notin journal /\ balance[Source[k]] >= Amount[k]
             /\ balance' = Transferred(balance, k) /\ journal' = journal \cup {k}
    <3>1. k \notin ledger /\ pay[k].state # "COMPLETED" /\ txn[k].state # "COMPLETED"
      BY <2>3 DEF IInv, StatusIsBacked, Backed
    <3>2. Stage(k) = "pending" /\ Stage(k)' = "moved"
      BY <2>1, <2>3, <3>1 DEF Stage
    <3>3. \A j \in Keys : j # k => Stage(j)' = Stage(j)
      BY <2>1, <2>3, StageStays
    <3>4. QED
      BY <2>3, <3>2, <3>3, StageAdvances DEF Abstract!Move, Abstract!Transferred, Transferred
  <2>4. balance[Source[k]] \in Nat /\ Amount[k] \in Nat
    BY RouteAssumption, MoneyAssumption
  <2>5. ~Rejected(k) => balance[Source[k]] >= Amount[k]
    BY <2>4 DEF Rejected
  <2>6. QED
    BY <1>3, <2>2, <2>3, <2>5 DEF CommitTransfer, Prior
<1>4. ASSUME NEW k \in Keys, PostTransfer(k)
      PROVE  Abstract!Post(k) \/ UNCHANGED <<balance, [j \in Keys |-> Stage(j)]>>
  <2>1. UNCHANGED <<txn, pay, balance, journal>> /\ ledger' = ledger \cup {k}
    BY <1>4 DEF PostTransfer
  <2>2. CASE k \in ledger
    BY <2>1, <2>2, <1>0
  <2>3. CASE k \notin ledger /\ k \in journal
    <3>1. pay[k].state # "COMPLETED" /\ txn[k].state # "COMPLETED"
      BY <2>3 DEF IInv, StatusIsBacked, Backed
    <3>2. Stage(k) = "moved" /\ Stage(k)' = "posted"
      BY <2>1, <2>3, <3>1 DEF Stage
    <3>3. \A j \in Keys : j # k => Stage(j)' = Stage(j)
      BY <2>1, StageStays
    <3>4. QED
      BY <2>1, <3>2, <3>3, StageAdvances DEF Abstract!Post
  <2>4. QED
    BY <1>4, <2>2, <2>3 DEF PostTransfer
<1>5. CASE UNCHANGED <<txn, pay, balance, journal, ledger>>
  BY <1>5, <1>0
<1>6. ASSUME NEW k \in Keys, Start(k)
      PROVE  UNCHANGED <<balance, [j \in Keys |-> Stage(j)]>>
  BY <1>6, <1>0 DEF Start, TxnRow, IInv, StepInv
<1>7. ASSUME NEW k \in Keys, Resume(k)
      PROVE  UNCHANGED <<balance, [j \in Keys |-> Stage(j)]>>
  BY <1>7, <1>0 DEF Resume, TxnRow, IInv, StepInv
<1>8. ASSUME NEW k \in Keys, CallPayment(k)
      PROVE  UNCHANGED <<balance, [j \in Keys |-> Stage(j)]>>
  BY <1>8, <1>0 DEF CallPayment, TxnRow, IInv, StepInv
<1>9. ASSUME NEW k \in Keys, PaymentCallFails(k)
      PROVE  UNCHANGED <<balance, [j \in Keys |-> Stage(j)]>>
  BY <1>9, <1>0 DEF PaymentCallFails, TxnRow, IInv, StepInv
<1>10. ASSUME NEW k \in Keys, AppendTxnFailure(k)
      PROVE  UNCHANGED <<balance, [j \in Keys |-> Stage(j)]>>
  BY <1>10, <1>0 DEF AppendTxnFailure, TxnRow, IInv, StepInv
<1>11. ASSUME NEW k \in Keys, AppendTxnRecovery(k)
      PROVE  UNCHANGED <<balance, [j \in Keys |-> Stage(j)]>>
  BY <1>11, <1>0 DEF AppendTxnRecovery, TxnRow, IInv, StepInv
<1>12. ASSUME NEW k \in Keys, NEW a \in 1..MaxReviews + 1, PaymentReceives(k, a)
      PROVE  UNCHANGED <<balance, [j \in Keys |-> Stage(j)]>>
  <2>1. \A j \in Keys : pay'[j].state = "COMPLETED" <=> pay[j].state = "COMPLETED"
    <3>1. CASE pay' = pay
      BY <3>1
    <3>2. CASE pay' = [pay EXCEPT ![k].state = "RECEIVED"] /\ pay[k].state = "ABSENT"
      BY <3>2 DEF PayRow
    <3>3. CASE pay' = [pay EXCEPT ![k].reviews = @ + 1]
      BY <3>3 DEF PayRow
    <3>4. QED
      BY <1>12, <3>1, <3>2, <3>3 DEF PaymentReceives
  <2>2. QED
    BY <1>12, <2>1, <1>0 DEF PaymentReceives
<1>13. ASSUME NEW k \in Keys, CallAccount(k)
      PROVE  UNCHANGED <<balance, [j \in Keys |-> Stage(j)]>>
  BY <1>13, <1>0 DEF CallAccount, WhileCalling, PayRow, IInv, StepInv
<1>14. ASSUME NEW k \in Keys, AccountAnswers(k)
      PROVE  UNCHANGED <<balance, [j \in Keys |-> Stage(j)]>>
  <2>1. \A j \in Keys : pay'[j].state = "COMPLETED" <=> pay[j].state = "COMPLETED"
    <3>1. CASE pay' = [pay EXCEPT ![k].funds = "COMMITTED"]
      BY <3>1 DEF PayRow
    <3>2. CASE Pause(k, IF pay[k].funds = "COMMITTED" THEN "COMMITTED" ELSE "NOT_COMMITTED")
      BY <1>14, <3>2 DEF AccountAnswers, Pause, PayRow, IInv, StepInv
    <3>3. QED
      BY <1>14, <3>1, <3>2 DEF AccountAnswers
  <2>2. QED
    BY <1>14, <2>1, <1>0 DEF AccountAnswers
<1>15. ASSUME NEW k \in Keys, AccountCallFails(k)
      PROVE  UNCHANGED <<balance, [j \in Keys |-> Stage(j)]>>
  BY <1>15, <1>0 DEF AccountCallFails, Pause, PayRow, IInv, StepInv
<1>16. ASSUME NEW k \in Keys, LedgerAnswers(k)
      PROVE  UNCHANGED <<balance, [j \in Keys |-> Stage(j)]>>
  BY <1>16, <1>0 DEF LedgerAnswers, RepliesTo, PayRow, IInv, StepInv
<1>17. ASSUME NEW k \in Keys, LedgerCallFails(k)
      PROVE  UNCHANGED <<balance, [j \in Keys |-> Stage(j)]>>
  BY <1>17, <1>0 DEF LedgerCallFails, Pause, PayRow, IInv, StepInv
<1>18. ASSUME NEW k \in Keys, AppendPayFailure(k)
      PROVE  UNCHANGED <<balance, [j \in Keys |-> Stage(j)]>>
  BY <1>18, <1>0 DEF AppendPayFailure, ReturnPayment, Answer, Snapshot, PayRow, IInv, StepInv
<1>19. ASSUME NEW k \in Keys, AppendPayRecovery(k)
      PROVE  UNCHANGED <<balance, [j \in Keys |-> Stage(j)]>>
  BY <1>19, <1>0 DEF AppendPayRecovery, ReturnPayment, Answer, Snapshot, PayRow, IInv, StepInv
<1>20. QED
  BY <1>1, <1>2, <1>3, <1>4, <1>5, <1>6, <1>7, <1>8, <1>9, <1>10, <1>11, <1>12, <1>13, <1>14, <1>15, <1>16, <1>17, <1>18, <1>19
     DEF Next, Transaction, Payment, Account, Ledger, Dies, vars, Abstract!Next,
         AccountReceives, AccountRefuses, LedgerReceives, Busy, Lose,
         TxnDies, PayDies, AccDies, LedDies

\* The workflow of four services, with its retries, late messages and crashes,
\* moves the funds of each transfer once and all at once, and then posts, pays
\* and completes it, in this order.
THEOREM WorkflowIsAtomic == Spec => ImplementsAtomicTransfer
<1>1. Init => Abstract!Init
  BY DEF Init, Abstract!Init, Stage, NoTxn, NoPay
<1>2. QED
  BY <1>1, NextAbstract, InvariantHolds, PTL DEF Spec, ImplementsAtomicTransfer, Abstract!Spec

-----------------------------------------------------------------------------
(* Explanations: the invariant *)

\* What a request has read of transfer k stays true while the transfer goes
\* on: completion and committed funds are final.
Reads(e) ==
    /\ context[e].key \in Keys
    /\ context[e].state = "COMPLETED" =>
         context[e].funds = "COMMITTED" /\ txn[context[e].key].state = "COMPLETED"
    /\ context[e].funds = "COMMITTED" => context[e].key \in journal

\* An answer under a context is made from it, by the rules if it says so.
Fits(text, c) ==
    /\ text.evidence = c
    /\ text.mode = "rules" => text.recovery = RecoverySaid(c)

CaseInv ==
    /\ DOMAIN at = Explainers /\ DOMAIN context = Explainers /\ DOMAIN answer = Explainers
    /\ \A e \in Explainers : at[e] # "idle" => Reads(e)
    /\ \A e \in Explainers : at[e] = "answered" => Fits(answer[e], context[e])
    /\ \A x \in cache : Fits(x.text, x.under)

\* At first no request runs and nothing is cached.
LEMMA InitCaseInv == CaseInit => CaseInv
BY DEF CaseInit, CaseInv

-----------------------------------------------------------------------------
(* The transfer goes on *)

\* Nothing that is journalled is ever taken back.
LEMMA JournalGrows == [Next]_vars => journal \subseteq journal'
<1> SUFFICES ASSUME [Next]_vars PROVE journal \subseteq journal'
  OBVIOUS
<1> USE DEF txnVars, payVars, accVars, ledVars
<1>1. CASE UNCHANGED vars
  BY <1>1 DEF vars
<1>2. ASSUME NEW k \in Keys, Start(k) \/ Resume(k) \/ Transaction(k)
      PROVE  journal' = journal
  BY <1>2 DEF Start, Resume, Transaction, CallPayment, PaymentAnswers, PaymentCallFails,
     AppendTxnFailure, AppendTxnRecovery
<1>3. ASSUME NEW k \in Keys, Payment(k) PROVE journal' = journal
  BY <1>3 DEF Payment, PaymentReceives, CallAccount, AccountAnswers, AccountCallFails,
     LedgerAnswers, LedgerCallFails, CompletePayment, AppendPayFailure, AppendPayRecovery
<1>4. ASSUME NEW k \in Keys, Account(k) PROVE journal \subseteq journal'
  BY <1>4 DEF Account, AccountReceives, CommitTransfer
<1>5. ASSUME NEW k \in Keys, Ledger(k) \/ Dies(k) PROVE journal' = journal
  BY <1>5 DEF Ledger, LedgerReceives, PostTransfer, Dies, TxnDies, PayDies, AccDies, LedDies,
     AccountRefuses
<1>6. ASSUME NEW m \in requests, Busy(m) \/ Lose(m) PROVE journal' = journal
  BY <1>6 DEF Busy, Lose
<1>7. QED
  BY <1>1, <1>2, <1>3, <1>4, <1>5, <1>6 DEF Next

\* A step of the transfer leaves true what the requests have read.
LEMMA WorkflowKeepsCase ==
    ASSUME TypeOK, IInv, CaseInv, [Next]_vars, UNCHANGED caseVars PROVE CaseInv'
<1>1. journal \subseteq journal'
  BY JournalGrows
<1>2. \A k \in Keys : txn[k].state = "COMPLETED" => txn'[k].state = "COMPLETED"
  BY NextConfirmed DEF ConfirmedStays
<1>3. QED
  BY <1>1, <1>2 DEF caseVars, CaseInv, Reads, Fits

-----------------------------------------------------------------------------
(* The requests *)

\* What the row read by a new request says is backed by the other services.
LEMMA AskKeepsCase ==
    ASSUME TypeOK, IInv, CaseInv, NEW e \in Explainers, NEW k \in Keys, Ask(e, k)
    PROVE  CaseInv'
<1> USE DEF CaseInv
<1>1. UNCHANGED <<txn, journal>>
  BY DEF Ask, vars, txnVars, accVars
<1>2. Reads(e)'
  <2>1. context'[e].key = k /\ context'[e].state = txn[k].state
        /\ context'[e].funds = LastSaved(txn[k])
    BY DEF Ask
  <2>2. txn[k].state = "COMPLETED" => txn[k].seen = "COMMITTED"
    BY DEF IInv, StatusIsBacked, Backed
  <2>3. txn[k].seen = "COMMITTED" => k \in journal
    BY DEF IInv, StatusIsBacked, Backed
  <2>4. QED
    BY <1>1, <2>1, <2>2, <2>3 DEF Reads, LastSaved
<1>3. \A d \in Explainers : d # e => at'[d] = at[d] /\ context'[d] = context[d]
                                     /\ answer'[d] = answer[d]
  BY DEF Ask
<1>4. at'[e] = "payment" /\ cache' = cache
  BY DEF Ask
<1>5. DOMAIN at' = Explainers /\ DOMAIN context' = Explainers /\ DOMAIN answer' = Explainers
  BY DEF Ask
<1>6. \A d \in Explainers : d # e => (at[d] # "idle" => Reads(d)')
  BY <1>1, <1>3 DEF Reads
<1>7. QED
  BY <1>2, <1>3, <1>4, <1>5, <1>6 DEF Fits

\* The payment's own row is at least as far as the transaction row read before.
LEMMA InspectKeepsCase ==
    ASSUME TypeOK, IInv, CaseInv, NEW e \in Explainers, InspectPayment(e)
    PROVE  CaseInv'
<1> USE DEF CaseInv
<1>1. UNCHANGED <<txn, journal>>
  BY DEF InspectPayment, vars, txnVars, accVars
<1>2. PICK funds \in FundsStatus(context[e]) :
        /\ context'[e].key = context[e].key
        /\ context'[e].state = context[e].state
        /\ context'[e].funds = funds
  BY DEF InspectPayment
<1>3. Reads(e)
  BY DEF InspectPayment
<1>4. funds = context[e].funds \/ funds = pay[context[e].key].funds
  BY <1>2 DEF FundsStatus
<1>5. Reads(e)'
  <2>1. txn[context[e].key].state = "COMPLETED" => pay[context[e].key].funds = "COMMITTED"
    BY <1>3 DEF Reads, IInv, StatusIsBacked, Backed
  <2>2. pay[context[e].key].funds = "COMMITTED" => context[e].key \in journal
    BY <1>3 DEF Reads, IInv, StatusIsBacked, Backed
  <2>3. QED
    BY <1>1, <1>2, <1>3, <1>4, <2>1, <2>2 DEF Reads
<1>6. \A d \in Explainers : d # e => at'[d] = at[d] /\ context'[d] = context[d]
  BY DEF InspectPayment
<1>7. /\ at'[e] = "model" /\ cache' = cache /\ answer' = answer
      /\ DOMAIN at' = Explainers /\ DOMAIN context' = Explainers
  BY DEF InspectPayment
<1>8. \A d \in Explainers : d # e => (at[d] # "idle" => Reads(d)')
  BY <1>1, <1>6 DEF Reads
<1>9. QED
  BY <1>5, <1>6, <1>7, <1>8 DEF Fits

\* Answers are made of what their own context says, also those from the cache.
LEMMA AnsweringKeepsCase ==
    ASSUME CaseInv, NEW e \in Explainers,
           InspectionFails(e) \/ Recall(e) \/ Consult(e) \/ Explained(e)
    PROVE  CaseInv'
<1> USE DEF CaseInv
<1>1. UNCHANGED <<txn, journal>>
  BY DEF InspectionFails, Recall, Consult, Explained, vars, txnVars, accVars
<1>2. CASE InspectionFails(e)
  <2>1. \A d \in Explainers : d # e => at'[d] = at[d] /\ context'[d] = context[d]
    BY <1>2 DEF InspectionFails
  <2>2. /\ at'[e] = "idle" /\ cache' = cache /\ answer' = answer
        /\ DOMAIN at' = Explainers /\ DOMAIN context' = Explainers
    BY <1>2 DEF InspectionFails
  <2>3. QED
    BY <1>1, <2>1, <2>2 DEF Reads, Fits
<1>3. CASE Recall(e)
  <2>1. PICK x \in Cached(context[e]) : Respond(e, x.text)
    BY <1>3 DEF Recall
  <2>2. Fits(x.text, context[e])
    BY <2>1 DEF Cached, CacheKey
  <2>3. context' = context /\ cache' = cache
    BY <1>3 DEF Recall
  <2>4. /\ answer'[e] = x.text
        /\ \A d \in Explainers : d # e => at'[d] = at[d] /\ answer'[d] = answer[d]
        /\ DOMAIN at' = Explainers /\ DOMAIN answer' = Explainers
    BY <2>1 DEF Respond
  <2>5. at[e] # "idle"
    BY <1>3 DEF Recall
  <2>6. QED
    BY <1>1, <2>2, <2>3, <2>4, <2>5 DEF Reads, Fits
<1>4. CASE Consult(e)
  BY <1>1, <1>4 DEF Consult, Cached, Reads, Fits
<1>5. CASE Explained(e)
  <2>1. PICK text \in {ByRules(context[e]), Generated(context[e])} :
          Respond(e, text) /\ Remember(context[e], text)
    BY <1>5 DEF Explained
  <2>2. Fits(text, context[e])
    BY DEF Fits, ByRules, Generated, Text
  <2>3. \A x \in cache' : x \in cache \/ x = Entry(context[e], text)
    BY <2>1 DEF Remember
  <2>4. \A x \in cache' : Fits(x.text, x.under)
    BY <2>2, <2>3 DEF Entry, CacheKey
  <2>5. /\ answer'[e] = text
        /\ \A d \in Explainers : d # e => at'[d] = at[d] /\ answer'[d] = answer[d]
        /\ DOMAIN at' = Explainers /\ DOMAIN answer' = Explainers
    BY <2>1 DEF Respond
  <2>6. context' = context /\ at[e] # "idle"
    BY <1>5 DEF Explained
  <2>7. QED
    BY <1>1, <2>2, <2>4, <2>5, <2>6 DEF Reads, Fits
<1>6. QED
  BY <1>2, <1>3, <1>4, <1>5

-----------------------------------------------------------------------------
(* The theorems *)

\* An explain request changes nothing of the workflow.
LEMMA ExplainReadsOnly ==
    ASSUME NEW e \in Explainers, Explain(e)
    PROVE  UNCHANGED vars
<1>1. CASE \E k \in Keys : Ask(e, k)
  BY <1>1 DEF Ask
<1>2. CASE InspectPayment(e)
  BY <1>2 DEF InspectPayment
<1>3. CASE InspectionFails(e)
  BY <1>3 DEF InspectionFails
<1>4. CASE Recall(e)
  BY <1>4 DEF Recall
<1>5. CASE Consult(e)
  BY <1>5 DEF Consult
<1>6. CASE Explained(e)
  BY <1>6 DEF Explained
<1>7. QED
  BY <1>1, <1>2, <1>3, <1>4, <1>5, <1>6 DEF Explain

\* The workflow's own invariant holds beside the requests, which only read.
LEMMA CaseInvAlways == CaseSpec => [](TypeOK /\ IInv /\ CaseInv)
<1>1. CaseInit => TypeOK /\ IInv /\ CaseInv
  BY InitTypeOK, InitIInv, InitCaseInv DEF CaseInit
<1>2. TypeOK /\ IInv /\ CaseInv /\ [CaseNext]_allVars => (TypeOK /\ IInv /\ CaseInv)'
  <2> SUFFICES ASSUME TypeOK, IInv, CaseInv, [CaseNext]_allVars
               PROVE  (TypeOK /\ IInv /\ CaseInv)'
    OBVIOUS
  <2>1. [Next]_vars
    <3>1. CASE UNCHANGED allVars
      BY <3>1 DEF allVars
    <3>2. CASE \E e \in Explainers : Explain(e)
      BY <3>2, ExplainReadsOnly
    <3>3. QED
      BY <3>1, <3>2 DEF CaseNext
  <2>2. TypeOK' /\ IInv'
    BY <2>1, NextTypeOK, NextIInv
  <2>3. CASE UNCHANGED caseVars
    BY <2>1, <2>2, <2>3, WorkflowKeepsCase
  <2>4. CASE \E e \in Explainers : Explain(e)
    BY <2>2, <2>4, AskKeepsCase, InspectKeepsCase, AnsweringKeepsCase DEF Explain
  <2>5. QED
    BY <2>2, <2>3, <2>4 DEF CaseNext, allVars
<1>3. QED
  BY <1>1, <1>2, PTL DEF CaseSpec

\* The evidence put together for an explanation agrees with itself and with
\* the journal, although two services committed it at different times.
THEOREM EvidenceIsConsistent == CaseSpec => []EvidenceAgrees
<1>1. CaseInv => EvidenceAgrees
  BY DEF CaseInv, Reads, EvidenceAgrees
<1>2. QED
  BY <1>1, CaseInvAlways, PTL

\* No request is answered about an earlier state of its transfer, whoever
\* filled the cache and whatever was evicted meanwhile, and no generated answer
\* is ever given for that of the rules.
THEOREM AnswersAreCurrent == CaseSpec => []AnswersFit
<1>1. CaseInv => AnswersFit
  BY DEF CaseInv, Fits, AnswersFit
<1>2. QED
  BY <1>1, CaseInvAlways, PTL
=============================================================================
