-------------------------- MODULE TransferWorkflow --------------------------
(***************************************************************************)
(* The durable transfer workflow: the transaction service drives the       *)
(* payment service, which has the account service move the funds and the   *)
(* ledger service post them.  Every service commits its own row, holds an  *)
(* advisory lock per (service, user, key) while it works, and may die, be  *)
(* unreachable or answer after its caller stopped waiting.                 *)
(*                                                                         *)
(* A key stands for one (user, idempotency key) with one payload.  A call  *)
(* of any service is identified by the attempt of the transaction          *)
(* service it works for, since an attempt makes each call at most once.    *)
(***************************************************************************)
EXTENDS TransferData, FiniteSetsExt

CONSTANTS
    MaxReviews,  \* bound: engineer reviews of one transfer
    MaxFaults    \* bound: lost requests, dead handlers, early timeouts

ASSUME BoundAssumption == MaxReviews \in Nat /\ MaxFaults \in Nat

VARIABLES
    txn,       \* txn[k]: the transaction service's workflow row
    txnOp,     \* txnOp[k]: the step of its handler holding the lock of k
    pay,       \* pay[k]: the payment service's workflow row
    payOp,     \* payOp[k]: step and attempt of its handler holding the lock
    balance,   \* balance[a]: account rows
    journal,   \* keys with a committed Transfer and its two entries
    accOp,     \* accOp[k]: attempt in the account service, 0 for none
    ledger,    \* keys with a committed TransferPosting
    ledOp,     \* ledOp[k]: attempt in the ledger service, 0 for none
    requests,  \* requests on their way to a service
    replies,   \* answers on their way back to a caller that still waits
    faults     \* faults so far

txnVars == <<txn, txnOp>>
payVars == <<pay, payOp>>
accVars == <<balance, journal, accOp>>
ledVars == <<ledger, ledOp>>
vars == <<txnVars, payVars, accVars, ledVars, requests, replies, faults>>

-----------------------------------------------------------------------------
(* Values *)

States   == {"ABSENT", "RECEIVED", "PROCESSING", "REQUIRES_REVIEW", "COMPLETED"}
Funds    == {"NOT_ATTEMPTED", "UNKNOWN", "NOT_COMMITTED", "COMMITTED"}
TxnSteps == {"idle", "call", "payment", "failure", "recovery"}
PaySteps == {"idle", "call", "account", "ledger", "finish", "failure", "recovery"}

\* seen: funds_status in the saved payment evidence; failed, recovered:
\* failure_history, recovery_history not empty; reviews: review events.
TxnRow == [state : States, seen : Funds \cup {"NONE"},
           failed : BOOLEAN, recovered : BOOLEAN, reviews : Nat]
PayRow == [state : States, funds : Funds, posted : BOOLEAN,
           failed : BOOLEAN, recovered : BOOLEAN, reviews : Nat]

NoTxn == [state |-> "ABSENT", seen |-> "NONE",
          failed |-> FALSE, recovered |-> FALSE, reviews |-> 0]
NoPay == [state |-> "ABSENT", funds |-> "NOT_ATTEMPTED", posted |-> FALSE,
          failed |-> FALSE, recovered |-> FALSE, reviews |-> 0]

Services == {"payment", "account", "ledger"}
Request  == [to : Services, key : Keys, attempt : Nat]
Reply    == [from : Services, key : Keys, attempt : Nat,
             outcome : {"COMPLETED", "PAUSED", "ok", "rejected"},
             funds : Funds \cup {"NONE"}]

-----------------------------------------------------------------------------
(* Calls *)

\* The attempt record_event numbers the transaction service's events with.
Attempt(k) == 1 + txn[k].reviews

\* call_service sends the request of k to a service.
Req(s, k, a) == [to |-> s, key |-> k, attempt |-> a]
Send(s, k, a) == requests' = requests \cup {Req(s, k, a)}

\* The caller of (s, k, a) still waits for the answer.
Awaited(s, k, a) ==
    IF s = "payment" THEN txnOp[k] = "payment" /\ Attempt(k) = a
                     ELSE payOp[k].pc = s /\ payOp[k].attempt = a

\* An answer to a caller that gave up goes nowhere.
Answer(s, k, a, outcome, funds) ==
    replies' = IF Awaited(s, k, a)
               THEN replies \cup {[from |-> s, key |-> k, attempt |-> a,
                                   outcome |-> outcome, funds |-> funds]}
               ELSE replies

\* The answers the caller of (s, k) has not taken.
RepliesTo(s, k) == {r \in replies : r.from = s /\ r.key = k}

Snapshot(row) == IF row.state = "COMPLETED" THEN "COMPLETED" ELSE "PAUSED"

\* Some answer may still come: the request travels, a handler works on it,
\* or the answer travels.
Pending(s, k, a) ==
    \/ Req(s, k, a) \in requests
    \/ RepliesTo(s, k) # {}
    \/ s = "payment" /\ payOp[k].pc # "idle" /\ payOp[k].attempt = a
    \/ s = "account" /\ accOp[k] = a
    \/ s = "ledger" /\ ledOp[k] = a

\* Mutant: a call that nobody will answer has no timeout.
NeverTimesOut(s, k, a) == Pending(s, k, a) /\ faults < MaxFaults /\ faults' = faults + 1

\* A call ends without an answer: the service is unreachable, refused it or
\* died, or (a fault) the caller's timeout beat an answer still to come.
NoAnswer(s, k, a) ==
    \/ ~Pending(s, k, a) /\ UNCHANGED faults
    \/ Pending(s, k, a) /\ faults < MaxFaults /\ faults' = faults + 1

-----------------------------------------------------------------------------
(* The transaction service *)

\* POST: under the lock, insert the row and commit it.  A POST that finds the
\* row or the lock taken only reads.
Start(k) ==
    /\ txnOp[k] = "idle"
    /\ txn[k].state = "ABSENT"
    /\ txn' = [txn EXCEPT ![k].state = "RECEIVED"]
    /\ txnOp' = [txnOp EXCEPT ![k] = "call"]
    /\ UNCHANGED <<payVars, accVars, ledVars, requests, replies, faults>>

\* Mutant: only a row in REQUIRES_REVIEW can be resumed.
ResumesPausedOnly(k) ==
    /\ txnOp[k] = "idle"
    /\ txn[k].state = "REQUIRES_REVIEW"
    /\ txn[k].reviews < MaxReviews
    /\ txn' = [txn EXCEPT ![k].reviews = @ + 1]
    /\ txnOp' = [txnOp EXCEPT ![k] = "call"]
    /\ UNCHANGED <<payVars, accVars, ledVars, requests, replies, faults>>

\* resume: an engineer reviews any row that is not COMPLETED, in whatever
\* state an earlier handler left it.
Resume(k) ==
    /\ txnOp[k] = "idle"
    /\ txn[k].state \notin {"ABSENT", "COMPLETED"}
    /\ txn[k].reviews < MaxReviews
    /\ txn' = [txn EXCEPT ![k].reviews = @ + 1]
    /\ txnOp' = [txnOp EXCEPT ![k] = "call"]
    /\ UNCHANGED <<payVars, accVars, ledVars, requests, replies, faults>>

CallPayment(k) ==
    /\ txnOp[k] = "call"
    /\ txn' = [txn EXCEPT ![k].state = "PROCESSING"]
    /\ txnOp' = [txnOp EXCEPT ![k] = "payment"]
    /\ Send("payment", k, Attempt(k))
    /\ UNCHANGED <<payVars, accVars, ledVars, replies, faults>>

\* The payment snapshot of r completes the transfer.
\* Mutant: any snapshot does.
AnySnapshotConfirms(r) == TRUE
Confirms(r) == r.outcome = "COMPLETED"

\* The payment snapshot arrived: save it, then pause or complete.  The
\* histories are appended in a commit of their own.
PaymentAnswers(k) ==
    /\ txnOp[k] = "payment"
    /\ replies' = replies \ RepliesTo("payment", k)
    /\ \E r \in RepliesTo("payment", k) :
         /\ IF Confirms(r)
            THEN /\ txn' = [txn EXCEPT ![k].state = "COMPLETED", ![k].seen = r.funds]
                 /\ txnOp' = [txnOp EXCEPT ![k] =
                                IF txn[k].failed THEN "recovery" ELSE "idle"]
            ELSE /\ txn' = [txn EXCEPT ![k].state = "REQUIRES_REVIEW", ![k].seen = r.funds]
                 /\ txnOp' = [txnOp EXCEPT ![k] = "failure"]
    /\ UNCHANGED <<payVars, accVars, ledVars, requests, faults>>

PaymentCallFails(k) ==
    /\ txnOp[k] = "payment"
    /\ NoAnswer("payment", k, Attempt(k))
    /\ txn' = [txn EXCEPT ![k].state = "REQUIRES_REVIEW"]
    /\ txnOp' = [txnOp EXCEPT ![k] = "failure"]
    /\ replies' = replies \ RepliesTo("payment", k)
    /\ UNCHANGED <<payVars, accVars, ledVars, requests>>

\* append_evidence of the transaction row, then the handler returns.
AppendTxnFailure(k) ==
    /\ txnOp[k] = "failure"
    /\ txn' = [txn EXCEPT ![k].failed = TRUE]
    /\ txnOp' = [txnOp EXCEPT ![k] = "idle"]
    /\ UNCHANGED <<payVars, accVars, ledVars, requests, replies, faults>>

AppendTxnRecovery(k) ==
    /\ txnOp[k] = "recovery"
    /\ txn' = [txn EXCEPT ![k].recovered = TRUE]
    /\ txnOp' = [txnOp EXCEPT ![k] = "idle"]
    /\ UNCHANGED <<payVars, accVars, ledVars, requests, replies, faults>>

-----------------------------------------------------------------------------
(* The payment service *)

\* The attempt may run a payment that exists and is not COMPLETED: it carries
\* a review.  Mutant: every attempt may.
RunsUnreviewed(a) == TRUE
Reviewed(a) == a > 1

\* The handler runs: a first call inserts the row, a reviewed call of a row
\* that is not COMPLETED records the review; any other call reads the row.
PaymentReceives(k, a) ==
    /\ Req("payment", k, a) \in requests
    /\ payOp[k].pc = "idle"
    /\ requests' = requests \ {Req("payment", k, a)}
    /\ \/ /\ pay[k].state = "ABSENT"
          /\ pay' = [pay EXCEPT ![k].state = "RECEIVED"]
          /\ payOp' = [payOp EXCEPT ![k] = [pc |-> "call", attempt |-> a]]
          /\ UNCHANGED replies
       \/ /\ pay[k].state \notin {"ABSENT", "COMPLETED"}
          /\ Reviewed(a)
          /\ pay' = [pay EXCEPT ![k].reviews = @ + 1]
          /\ payOp' = [payOp EXCEPT ![k] = [pc |-> "call", attempt |-> a]]
          /\ UNCHANGED replies
       \/ /\ pay[k].state = "COMPLETED" \/ (pay[k].state # "ABSENT" /\ ~Reviewed(a))
          /\ Answer("payment", k, a, Snapshot(pay[k]), pay[k].funds)
          /\ UNCHANGED payVars
    /\ UNCHANGED <<txnVars, accVars, ledVars, faults>>

\* funds_status while the account call is out.
WhileCalling(funds) == IF funds = "COMMITTED" THEN "COMMITTED" ELSE "UNKNOWN"

\* funds_status is UNKNOWN from before the account call until an answer.
CallAccount(k) ==
    /\ payOp[k].pc = "call"
    /\ pay' = [pay EXCEPT ![k].state = "PROCESSING",
                          ![k].funds = WhileCalling(@)]
    /\ payOp' = [payOp EXCEPT ![k].pc = "account"]
    /\ Send("account", k, payOp[k].attempt)
    /\ UNCHANGED <<txnVars, accVars, ledVars, replies, faults>>

\* Pause the payment for review with the given funds_status.
Pause(k, funds) ==
    /\ pay' = [pay EXCEPT ![k].state = "REQUIRES_REVIEW", ![k].funds = funds]
    /\ payOp' = [payOp EXCEPT ![k].pc = "failure"]

\* The account service answered: committed, then the ledger is asked; or a
\* definite rejection, and the funds count as not committed.
AccountAnswers(k) ==
    /\ payOp[k].pc = "account"
    /\ replies' = replies \ RepliesTo("account", k)
    /\ \E r \in RepliesTo("account", k) :
         /\ \/ /\ r.outcome = "ok"
               /\ pay' = [pay EXCEPT ![k].funds = "COMMITTED"]
               /\ payOp' = [payOp EXCEPT ![k].pc = "ledger"]
               /\ Send("ledger", k, payOp[k].attempt)
            \/ /\ r.outcome = "rejected"
               /\ Pause(k, IF pay[k].funds = "COMMITTED" THEN "COMMITTED"
                                                         ELSE "NOT_COMMITTED")
               /\ UNCHANGED requests
    /\ UNCHANGED <<txnVars, accVars, ledVars, faults>>

\* Mutant: a call without an answer counts as a rejection.
TimeoutRejects(k) ==
    /\ payOp[k].pc = "account"
    /\ NoAnswer("account", k, payOp[k].attempt)
    /\ Pause(k, "NOT_COMMITTED")
    /\ replies' = replies \ RepliesTo("account", k)
    /\ UNCHANGED <<txnVars, accVars, ledVars, requests>>

AccountCallFails(k) ==
    /\ payOp[k].pc = "account"
    /\ NoAnswer("account", k, payOp[k].attempt)
    /\ Pause(k, pay[k].funds)
    /\ replies' = replies \ RepliesTo("account", k)
    /\ UNCHANGED <<txnVars, accVars, ledVars, requests>>

LedgerAnswers(k) ==
    /\ payOp[k].pc = "ledger"
    /\ RepliesTo("ledger", k) # {}
    /\ replies' = replies \ RepliesTo("ledger", k)
    /\ pay' = [pay EXCEPT ![k].posted = TRUE]
    /\ payOp' = [payOp EXCEPT ![k].pc = "finish"]
    /\ UNCHANGED <<txnVars, accVars, ledVars, requests, faults>>

\* Mutant: the payment finishes without the ledger's confirmation.
LedgerIsOptional(k) ==
    /\ payOp[k].pc = "ledger"
    /\ NoAnswer("ledger", k, payOp[k].attempt)
    /\ payOp' = [payOp EXCEPT ![k].pc = "finish"]
    /\ replies' = replies \ RepliesTo("ledger", k)
    /\ UNCHANGED <<pay, txnVars, accVars, ledVars, requests>>

LedgerCallFails(k) ==
    /\ payOp[k].pc = "ledger"
    /\ NoAnswer("ledger", k, payOp[k].attempt)
    /\ Pause(k, pay[k].funds)
    /\ replies' = replies \ RepliesTo("ledger", k)
    /\ UNCHANGED <<txnVars, accVars, ledVars, requests>>

\* The handler returns its snapshot and lets the lock go.
ReturnPayment(k, row) ==
    /\ pay' = [pay EXCEPT ![k] = row]
    /\ payOp' = [payOp EXCEPT ![k].pc = "idle"]
    /\ Answer("payment", k, payOp[k].attempt, Snapshot(row), row.funds)

\* Completion is a recovery if the row failed before.
Recovers(row) == row.failed

CompletePayment(k) ==
    /\ payOp[k].pc = "finish"
    /\ IF Recovers(pay[k])
       THEN /\ pay' = [pay EXCEPT ![k].state = "COMPLETED"]
            /\ payOp' = [payOp EXCEPT ![k].pc = "recovery"]
            /\ UNCHANGED replies
       ELSE ReturnPayment(k, [pay[k] EXCEPT !.state = "COMPLETED"])
    /\ UNCHANGED <<txnVars, accVars, ledVars, requests, faults>>

AppendPayFailure(k) ==
    /\ payOp[k].pc = "failure"
    /\ ReturnPayment(k, [pay[k] EXCEPT !.failed = TRUE])
    /\ UNCHANGED <<txnVars, accVars, ledVars, requests, faults>>

AppendPayRecovery(k) ==
    /\ payOp[k].pc = "recovery"
    /\ ReturnPayment(k, [pay[k] EXCEPT !.recovered = TRUE])
    /\ UNCHANGED <<txnVars, accVars, ledVars, requests, faults>>

-----------------------------------------------------------------------------
(* The account service *)

AccountReceives(k, a) ==
    /\ Req("account", k, a) \in requests
    /\ accOp[k] = 0
    /\ requests' = requests \ {Req("account", k, a)}
    /\ accOp' = [accOp EXCEPT ![k] = a]
    /\ UNCHANGED <<txnVars, payVars, balance, journal, ledVars, replies, faults>>

\* The customer's token, which only the first attempt carries, expired on the
\* way: the service answers 401.
AccountRefuses(k) ==
    /\ Req("account", k, 1) \in requests
    /\ faults < MaxFaults
    /\ faults' = faults + 1
    /\ requests' = requests \ {Req("account", k, 1)}
    /\ Answer("account", k, 1, "rejected", "NONE")
    /\ UNCHANGED <<txnVars, payVars, accVars, ledVars>>

\* A Transfer of this user and key exists.  Mutant: nobody looks.
NoPrior(k) == FALSE
Prior(k) == k \in journal

\* transfer_rejection, of the reasons the one that depends on the state.
Rejected(k) == balance[Source[k]] < Amount[k]

\* One database transaction: a prior Transfer is returned, an overdraft is
\* rejected, otherwise the debit, the credit and the journal commit together.
CommitTransfer(k) ==
    /\ accOp[k] # 0
    /\ \/ /\ Prior(k)
          /\ Answer("account", k, accOp[k], "ok", "NONE")
          /\ UNCHANGED <<balance, journal>>
       \/ /\ ~Prior(k) /\ Rejected(k)
          /\ Answer("account", k, accOp[k], "rejected", "NONE")
          /\ UNCHANGED <<balance, journal>>
       \/ /\ ~Prior(k) /\ ~Rejected(k)
          /\ balance' = Transferred(balance, k)
          /\ journal' = journal \cup {k}
          /\ Answer("account", k, accOp[k], "ok", "NONE")
    /\ accOp' = [accOp EXCEPT ![k] = 0]
    /\ UNCHANGED <<txnVars, payVars, ledVars, requests, faults>>

-----------------------------------------------------------------------------
(* The ledger service *)

LedgerReceives(k, a) ==
    /\ Req("ledger", k, a) \in requests
    /\ ledOp[k] = 0
    /\ requests' = requests \ {Req("ledger", k, a)}
    /\ ledOp' = [ledOp EXCEPT ![k] = a]
    /\ UNCHANGED <<txnVars, payVars, accVars, ledger, replies, faults>>

\* Return the prior posting, or read the committed transfer and its entries
\* from the account service, validate them and commit the posting.
PostTransfer(k) ==
    /\ ledOp[k] # 0
    /\ k \in ledger \/ k \in journal
    /\ ledger' = ledger \cup {k}
    /\ Answer("ledger", k, ledOp[k], "ok", "NONE")
    /\ ledOp' = [ledOp EXCEPT ![k] = 0]
    /\ UNCHANGED <<txnVars, payVars, accVars, requests, faults>>

-----------------------------------------------------------------------------
(* Locks and faults *)

\* operation_lock is try-only: a second operation of a key answers 409.
Busy(m) ==
    /\ \/ m.to = "payment" /\ payOp[m.key].pc # "idle"
       \/ m.to = "account" /\ accOp[m.key] # 0
       \/ m.to = "ledger" /\ ledOp[m.key] # 0
    /\ requests' = requests \ {m}
    /\ UNCHANGED <<txnVars, payVars, accVars, ledVars, replies, faults>>

Fault == faults < MaxFaults /\ faults' = faults + 1

\* A request is lost, or the middleware answers it with an injected error.
Lose(m) ==
    /\ Fault
    /\ requests' = requests \ {m}
    /\ UNCHANGED <<txnVars, payVars, accVars, ledVars, replies>>

\* A handler dies between two of its commits (a crash, a database error):
\* its connection closes and PostgreSQL drops the lock; the rows stay.
TxnDies(k) ==
    /\ Fault
    /\ txnOp[k] # "idle"
    /\ txnOp' = [txnOp EXCEPT ![k] = "idle"]
    /\ replies' = replies \ RepliesTo("payment", k)
    /\ UNCHANGED <<txn, payVars, accVars, ledVars, requests>>

PayDies(k) ==
    /\ Fault
    /\ payOp[k].pc # "idle"
    /\ payOp' = [payOp EXCEPT ![k].pc = "idle"]
    /\ replies' = replies \ (RepliesTo("account", k) \cup RepliesTo("ledger", k))
    /\ UNCHANGED <<txnVars, pay, accVars, ledVars, requests>>

AccDies(k) ==
    /\ Fault
    /\ accOp[k] # 0
    /\ accOp' = [accOp EXCEPT ![k] = 0]
    /\ UNCHANGED <<txnVars, payVars, balance, journal, ledVars, requests, replies>>

LedDies(k) ==
    /\ Fault
    /\ ledOp[k] # 0
    /\ ledOp' = [ledOp EXCEPT ![k] = 0]
    /\ UNCHANGED <<txnVars, payVars, accVars, ledger, requests, replies>>

-----------------------------------------------------------------------------
Init ==
    /\ txn = [k \in Keys |-> NoTxn]
    /\ txnOp = [k \in Keys |-> "idle"]
    /\ pay = [k \in Keys |-> NoPay]
    /\ payOp = [k \in Keys |-> [pc |-> "idle", attempt |-> 0]]
    /\ balance = InitialBalance
    /\ journal = {}
    /\ accOp = [k \in Keys |-> 0]
    /\ ledger = {}
    /\ ledOp = [k \in Keys |-> 0]
    /\ requests = {}
    /\ replies = {}
    /\ faults = 0

Transaction(k) ==
    \/ CallPayment(k) \/ PaymentAnswers(k) \/ PaymentCallFails(k)
    \/ AppendTxnFailure(k) \/ AppendTxnRecovery(k)

Payment(k) ==
    \/ \E a \in 1..MaxReviews + 1 : PaymentReceives(k, a)
    \/ CallAccount(k) \/ AccountAnswers(k) \/ AccountCallFails(k)
    \/ LedgerAnswers(k) \/ LedgerCallFails(k) \/ CompletePayment(k)
    \/ AppendPayFailure(k) \/ AppendPayRecovery(k)

Account(k) ==
    \/ \E a \in 1..MaxReviews + 1 : AccountReceives(k, a)
    \/ CommitTransfer(k)

Ledger(k) ==
    \/ \E a \in 1..MaxReviews + 1 : LedgerReceives(k, a)
    \/ PostTransfer(k)

Dies(k) == TxnDies(k) \/ PayDies(k) \/ AccDies(k) \/ LedDies(k) \/ AccountRefuses(k)

Next ==
    \/ \E k \in Keys : \/ Start(k) \/ Resume(k)
                       \/ Transaction(k) \/ Payment(k) \/ Account(k) \/ Ledger(k)
                       \/ Dies(k)
    \/ \E m \in requests : Busy(m) \/ Lose(m)

Spec == Init /\ [][Next]_vars

\* Handlers run on, timers fire; nothing obliges a customer to start a
\* transfer, an engineer to review it, or a fault to happen.
HandlerFairness ==
    /\ \A k \in Keys : /\ WF_vars(Transaction(k)) /\ WF_vars(Payment(k))
                       /\ WF_vars(Account(k)) /\ WF_vars(Ledger(k))
    /\ WF_vars(\E m \in requests : Busy(m))

FairSpec == Spec /\ HandlerFairness

-----------------------------------------------------------------------------
(* What the investigation of a transfer tells the engineer *)

NextAction(k) ==
    IF txn[k].state = "REQUIRES_REVIEW" THEN "submit a review"
    ELSE IF txn[k].failed \/ pay[k].failed THEN "recovery is confirmed"
    ELSE "inspect the saved case evidence"

-----------------------------------------------------------------------------
(* Properties *)

TypeOK ==
    /\ txn \in [Keys -> TxnRow]
    /\ txnOp \in [Keys -> TxnSteps]
    /\ pay \in [Keys -> PayRow]
    /\ payOp \in [Keys -> [pc : PaySteps, attempt : Nat]]
    /\ balance \in [Accounts -> Nat]
    /\ journal \subseteq Keys
    /\ accOp \in [Keys -> Nat]
    /\ ledger \subseteq Keys
    /\ ledOp \in [Keys -> Nat]
    /\ requests \subseteq Request
    /\ replies \subseteq Reply
    /\ faults \in 0..MaxFaults

\* Every status a service records is backed by the service that did the work:
\* a completed transfer by a completed payment, a completed payment by moved
\* and posted funds, COMMITTED by the account journal, a posting by a
\* committed account transfer.
Backed(k) ==
    /\ txn[k].state = "COMPLETED" => pay[k].state = "COMPLETED" /\ txn[k].seen = "COMMITTED"
    /\ pay[k].state = "COMPLETED" => pay[k].funds = "COMMITTED" /\ pay[k].posted
    /\ pay[k].funds = "COMMITTED" \/ txn[k].seen = "COMMITTED" => k \in journal
    /\ pay[k].posted => k \in ledger
    /\ k \in ledger => k \in journal

StatusIsBacked == \A k \in Keys : Backed(k)

\* What makes it inductive: what the steps of the handlers rely on, ...
StepInv ==
    \A k \in Keys :
      /\ txnOp[k] \in {"call", "payment", "failure"} => txn[k].state # "COMPLETED"
      /\ txnOp[k] = "recovery" => txn[k].state = "COMPLETED" /\ txn[k].failed
      /\ payOp[k].pc \in {"call", "account", "ledger", "finish", "failure"}
            => pay[k].state # "COMPLETED"
      /\ payOp[k].pc = "recovery" => pay[k].state = "COMPLETED" /\ pay[k].failed
      /\ payOp[k].pc \in {"ledger", "finish"} => pay[k].funds = "COMMITTED"
      /\ payOp[k].pc = "finish" => pay[k].posted
      /\ txn[k].seen = "COMMITTED" => pay[k].funds = "COMMITTED"

\* ... and what an answer on its way still says when it is read.
StillTrue(r) ==
    /\ r.from = "payment" =>
         /\ r.outcome = "COMPLETED" => pay[r.key].state = "COMPLETED" /\ r.funds = "COMMITTED"
         /\ r.funds = "COMMITTED" => pay[r.key].funds = "COMMITTED"
         /\ txn[r.key].seen = "COMMITTED" => r.funds = "COMMITTED"
    /\ r.from = "account" /\ r.outcome = "ok" => r.key \in journal
    /\ r.from = "ledger" => r.key \in ledger

ReplyInv == \A r \in replies : StillTrue(r)

\* The account service moves the funds of every journalled instruction exactly
\* once and all at once, however often the call is retried, lost or abandoned:
\* each balance is what the journal says.
BalancesMatchJournal ==
    \A a \in Accounts :
      LET Total(S) == MapThenSumSet(LAMBDA k : Amount[k], S)
      IN  balance[a] = InitialBalance[a]
                         + Total({k \in journal : Destination[k] = a})
                         - Total({k \in journal : Source[k] = a})

\* A negative funds status is true when only one account call was ever made:
\* NOT_ATTEMPTED means that none was, and NOT_COMMITTED on an unreviewed
\* payment that nothing moved.
NegativeStatusIsTrue ==
    \A k \in Keys :
      /\ pay[k].funds = "NOT_ATTEMPTED" =>
            /\ k \notin journal /\ accOp[k] = 0
            /\ \A m \in requests : m.key = k => m.to = "payment"
      /\ pay[k].funds = "NOT_COMMITTED" /\ pay[k].reviews = 0 => k \notin journal

\* Recovery evidence is written only on a completed row that failed before
\* (the append follows the commit of COMPLETED, under the same lock).
RecoveryFollowsFailure ==
    \A k \in Keys : \A row \in {txn[k], pay[k]} :
      row.recovered => row.state = "COMPLETED" /\ row.failed

\* COMPLETED is final in both workflow rows, and a confirmed movement of
\* funds is never reported as unconfirmed again, whatever a later attempt,
\* a late message or a restart does.
ConfirmedIsFinal ==
    [][\A k \in Keys :
         /\ txn[k].state = "COMPLETED" => txn'[k].state = "COMPLETED"
         /\ pay[k].state = "COMPLETED" => pay'[k].state = "COMPLETED"
         /\ pay[k].funds = "COMMITTED" => pay'[k].funds = "COMMITTED"
         /\ txn[k].seen = "COMMITTED" => txn'[k].seen = "COMMITTED"]_vars

\* A paused payment runs again only for an attempt an engineer reviewed: an
\* unreviewed call that was delayed, or a replayed POST, only reads it.
RetryNeedsReview ==
    [][\A k \in Keys :
         pay[k].state = "REQUIRES_REVIEW" /\ pay'[k].state = "PROCESSING"
           => payOp[k].attempt > 1 /\ payOp[k].attempt <= Attempt(k)]_vars

\* The workflow implements the abstract transfer.
Stage(k) ==
    IF txn[k].state = "COMPLETED" THEN "completed"
    ELSE IF pay[k].state = "COMPLETED" THEN "paid"
    ELSE IF k \in ledger THEN "posted"
    ELSE IF k \in journal THEN "moved"
    ELSE "pending"

Abstract == INSTANCE AtomicTransfer WITH stage <- [k \in Keys |-> Stage(k)]

ImplementsAtomicTransfer == Abstract!Spec

\* No operation keeps its lock for ever: every handler of the nested calls
\* ends, although each waits for the next one and any of them may die.
OperationsEnd ==
    \A k \in Keys :
      /\ txnOp[k] # "idle" ~> txnOp[k] = "idle"
      /\ payOp[k].pc # "idle" ~> payOp[k].pc = "idle"
      /\ accOp[k] # 0 ~> accOp[k] = 0
      /\ ledOp[k] # 0 ~> ledOp[k] = 0

-----------------------------------------------------------------------------
(* An engineer who reviews whatever is not completed: the first time at    *)
(* any moment, then only after every earlier operation of it has ended.    *)

Quiet(k) ==
    /\ payOp[k].pc = "idle" /\ accOp[k] = 0 /\ ledOp[k] = 0
    /\ \A m \in requests : m.key # k

Resumed(k) == txn'[k].reviews > txn[k].reviews

PatientSpec ==
    /\ Init
    /\ [][/\ Next
          /\ \A k \in Keys : Resumed(k) => Quiet(k) \/ txn[k].reviews = 0]_vars
    /\ HandlerFairness
    /\ \A k \in Keys : WF_vars(Resume(k) /\ Quiet(k))

\* With such an engineer a received transfer whose source can pay completes,
\* wherever MaxFaults faults strike it.
ReceivedCompletes ==
    \A k \in Keys : txn[k].state = "RECEIVED" ~> txn[k].state = "COMPLETED"

-----------------------------------------------------------------------------
(* A claim of the repository that the code does not keep *)

\* The investigation says "Recovery is confirmed" only of completed transfers.
RecoveryConfirmedMeansCompleted ==
    \A k \in Keys :
      NextAction(k) = "recovery is confirmed" => txn[k].state = "COMPLETED"
=============================================================================
