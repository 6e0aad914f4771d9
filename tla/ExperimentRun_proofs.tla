------------------------ MODULE ExperimentRun_proofs ------------------------
(***************************************************************************)
(* What the research path and its runner promise for every number of       *)
(* requests and runs, every plan and every number of faults, proved from   *)
(* one inductive invariant about the calls of one request.                 *)
(*                                                                         *)
(* What the localization promises for every number of requests: first that *)
(* the rules outweigh the scores, then, from what a fault leaves in the    *)
(* events of one request (tallies) and of all of them (shares), that a     *)
(* fault which shows clearly is located.                                   *)
(***************************************************************************)
EXTENDS RunLocalization, SumTheorems

\* How far the calls of a request have come shows in what they have left.
CallsOf(r) ==
    /\ \A t \in Services : phase[r][t] = "none" => reply[r][t] = "none"
    /\ {reply[r]["auth"], reply[r]["lookup"]} \subseteq {"none", "ok", "refused", "failed"}
    /\ reply[r]["transaction"] \in {"none", "ok", "conflict", "failed"}
    /\ scenario[r] = "invalid_amount" => phase[r]["auth"] = "none"
    /\ phase[r]["lookup"] # "none" => reply[r]["auth"] = "ok"
    /\ phase[r]["transaction"] # "none" => reply[r]["lookup"] = "ok"
    /\ row[r] # "NONE" => phase[r]["transaction"] # "none"
    /\ phase[r]["validate"] # "none" => row[r] # "NONE"
    /\ phase[r]["payment"] # "none" => reply[r]["validate"] = "ok"
    /\ phase[r]["payEntry"] # "none" => phase[r]["payment"] # "none"
    /\ phase[r]["txnEntry"] # "none" => reply[r]["payment"] = "ok"

\* What is stored for a request, and in which order.
StoredOf(r) ==
    /\ reply[r]["payEntry"] = "ok" => <<r, "PAYMENT_COMPLETED">> \in entries
    /\ reply[r]["txnEntry"] = "ok" => <<r, "TRANSACTION_COMPLETED">> \in entries
    /\ <<r, "PAYMENT_COMPLETED">> \in entries => phase[r]["payEntry"] # "none"
    /\ <<r, "TRANSACTION_COMPLETED">> \in entries => phase[r]["txnEntry"] # "none"
    /\ r \in paid => <<r, "PAYMENT_COMPLETED">> \in entries
    /\ reply[r]["payment"] = "ok" => r \in paid
    /\ row[r] = "COMPLETED" => reply[r]["txnEntry"] = "ok"

\* What the callers were told.
ToldOf(r) ==
    /\ reply[r]["transaction"] = "ok" => row[r] = "COMPLETED"
    /\ reply[r]["transaction"] = "conflict" =>
         row[r] = "FAILED" /\ reply[r]["validate"] = "invalid"
    /\ Result(r) = "ok" => reply[r]["transaction"] = "ok"
    /\ Result(r) = "conflict" => reply[r]["transaction"] = "conflict"
    /\ Result(r) = "refused" =>
         \/ scenario[r] = "invalid_amount"
         \/ reply[r]["auth"] = "refused"
         \/ reply[r]["lookup"] = "refused"

\* An identifier has one record.
OneRecord ==
    \A q, r \in Requests :
       IdOf[q] = IdOf[r] /\ row[q] # "NONE" /\ row[r] # "NONE" => q = r

\* A run with a manifest had what it expected.
CompleteAsExpected ==
    \A x \in Runs : run[x] = "complete" => \A r \in PlannedBy(x) : Expected(r)

Inv ==
    /\ TypeOK
    /\ \A r \in Requests : CallsOf(r) /\ StoredOf(r) /\ ToldOf(r)
    /\ OneRecord
    /\ CompleteAsExpected

\* The invariant without the runner.
PathInv ==
    /\ scenario \in [Requests -> Scenarios]
    /\ phase \in [Requests -> [Services -> Phases]]
    /\ reply \in [Requests -> [Services -> Replies]]
    /\ row \in [Requests -> Statuses]
    /\ entries \subseteq Requests \X Entry
    /\ paid \subseteq Requests
    /\ \A r \in Requests : CallsOf(r) /\ StoredOf(r) /\ ToldOf(r)
    /\ OneRecord

-----------------------------------------------------------------------------
\* The endpoints that each service calls, and the types of the entries.
LEMMA EndpointFacts ==
  /\ CalledBy["gateway"] = {"auth", "lookup", "transaction"}
  /\ CalledBy["transaction"] = {"validate", "payment", "txnEntry"}
  /\ CalledBy["payment"] = {"payEntry"}
  /\ DOMAIN EntryType = {"payEntry", "txnEntry"}
  /\ EntryType["payEntry"] = "PAYMENT_COMPLETED"
  /\ EntryType["txnEntry"] = "TRANSACTION_COMPLETED"
BY DEF CalledBy, EntryType

\* What an answer changes: one phase, and at most one reply, from none.
LEMMA AnswerChanges ==
  ASSUME PathInv, NEW r \in Requests, NEW t \in Services,
         NEW answer \in Replies \ {"none"}, Answered(r, t, answer)
  PROVE  /\ phase' \in [Requests -> [Services -> Phases]]
         /\ reply' \in [Requests -> [Services -> Replies]]
         /\ \A q \in Requests : q # r => phase'[q] = phase[q] /\ reply'[q] = reply[q]
         /\ \A s \in Services : s # t => phase'[r][s] = phase[r][s] /\ reply'[r][s] = reply[r][s]
         /\ phase'[r][t] = "closed"
         /\ \/ reply'[r][t] = reply[r][t]
            \/ reply[r][t] = "none" /\ reply'[r][t] = answer
<1>1. phase' = [phase EXCEPT ![r][t] = "closed"]
  BY DEF Answered
<1>2. \/ reply' = reply
      \/ reply[r][t] = "none" /\ reply' = [reply EXCEPT ![r][t] = answer]
  BY DEF Answered, Waits
<1>3. /\ phase' \in [Requests -> [Services -> Phases]]
      /\ \A q \in Requests : q # r => phase'[q] = phase[q]
      /\ \A s \in Services : s # t => phase'[r][s] = phase[r][s]
      /\ phase'[r][t] = "closed"
  BY <1>1 DEF PathInv, Phases
<1>4. CASE reply' = reply
  BY <1>3, <1>4 DEF PathInv
<1>5. CASE reply[r][t] = "none" /\ reply' = [reply EXCEPT ![r][t] = answer]
  BY <1>3, <1>5 DEF PathInv
<1>6. QED
  BY <1>2, <1>4, <1>5

\* What a call changes.
LEMMA CallChanges ==
  ASSUME PathInv, NEW r \in Requests, NEW s, NEW t \in Services, Call(r, s, t)
  PROVE  /\ phase' \in [Requests -> [Services -> Phases]]
         /\ \A q \in Requests : q # r => phase'[q] = phase[q]
         /\ \A u \in Services : u # t => phase'[r][u] = phase[r][u]
         /\ phase[r][t] = "none" /\ phase'[r][t] = "open"
         /\ UNCHANGED <<reply, row, entries, paid, faults>>
BY DEF Call, PathInv, Phases

\* What is not touched stays as it is for every other request.
LEMMA OthersKept ==
  ASSUME PathInv, NEW r \in Requests, UNCHANGED scenario,
         \A q \in Requests : q # r =>
            /\ phase'[q] = phase[q] /\ reply'[q] = reply[q] /\ row'[q] = row[q]
            /\ q \in paid' <=> q \in paid
            /\ \A e \in Entry : <<q, e>> \in entries' <=> <<q, e>> \in entries
  PROVE  \A q \in Requests : q # r => CallsOf(q)' /\ StoredOf(q)' /\ ToldOf(q)'
BY DEF PathInv, CallsOf, StoredOf, ToldOf, Result, Entry

-----------------------------------------------------------------------------
\* An answer the handler of service t may give for request r.
MayAnswer(r, t, answer) ==
    /\ t \in {"auth", "lookup"} => answer \in {"ok", "refused", "failed"}
    /\ t = "transaction" =>
         /\ answer \in {"ok", "conflict", "failed"}
         /\ answer = "ok" => row[r] = "COMPLETED"
         /\ answer = "conflict" => row[r] = "FAILED" /\ reply[r]["validate"] = "invalid"
    /\ t = "payment" /\ answer = "ok" => r \in paid
    /\ t = "payEntry" /\ answer = "ok" => <<r, "PAYMENT_COMPLETED">> \in entries
    /\ t = "txnEntry" /\ answer = "ok" => <<r, "TRANSACTION_COMPLETED">> \in entries
    /\ t = "gateway" =>
         /\ answer = "ok" => reply[r]["transaction"] = "ok"
         /\ answer = "conflict" => reply[r]["transaction"] = "conflict"
         /\ answer = "refused" =>
              \/ scenario[r] = "invalid_amount"
              \/ reply[r]["auth"] = "refused"
              \/ reply[r]["lookup"] = "refused"

\* Such an answer, or none in time, keeps the invariant.
LEMMA AnswerKeeps ==
  ASSUME PathInv, NEW r \in Requests, NEW t \in Services,
         NEW answer \in Replies \ {"none"}, MayAnswer(r, t, answer),
         UNCHANGED <<scenario, row, entries, paid>>,
         phase' \in [Requests -> [Services -> Phases]],
         reply' \in [Requests -> [Services -> Replies]],
         \A q \in Requests : q # r => phase'[q] = phase[q] /\ reply'[q] = reply[q],
         \A s \in Services : s # t => phase'[r][s] = phase[r][s] /\ reply'[r][s] = reply[r][s],
         phase[r][t] # "none", phase'[r][t] # "none",
         \/ reply'[r][t] = reply[r][t]
         \/ reply[r][t] = "none" /\ reply'[r][t] = answer
  PROVE  PathInv'
<1>1. \A s \in Services :
        /\ phase'[r][s] = "none" <=> phase[r][s] = "none"
        /\ reply[r][s] # "none" => reply'[r][s] = reply[r][s]
        /\ reply'[r][s] = reply[r][s] \/ (s = t /\ reply'[r][s] = answer)
  OBVIOUS
<1>2. CallsOf(r) /\ StoredOf(r) /\ ToldOf(r)
  BY DEF PathInv
<1>3. CallsOf(r)'
  BY <1>1, <1>2 DEF CallsOf, MayAnswer, Services
<1>4. StoredOf(r)'
  BY <1>1, <1>2 DEF StoredOf, MayAnswer, Services
<1>5. ToldOf(r)'
  BY <1>1, <1>2 DEF ToldOf, MayAnswer, Services, Result
<1>6. \A q \in Requests : q # r => CallsOf(q)' /\ StoredOf(q)' /\ ToldOf(q)'
  BY OthersKept
<1>7. QED
  BY <1>3, <1>4, <1>5, <1>6 DEF PathInv, OneRecord

\* A call that service s may make for request r.
MayCall(r, t) ==
    /\ t = "auth" => scenario[r] # "invalid_amount"
    /\ t = "lookup" => reply[r]["auth"] = "ok"
    /\ t = "transaction" => reply[r]["lookup"] = "ok"
    /\ t = "validate" => row[r] # "NONE"
    /\ t = "payment" => reply[r]["validate"] = "ok"
    /\ t = "payEntry" => phase[r]["payment"] # "none"
    /\ t = "txnEntry" => reply[r]["payment"] = "ok"

\* Such a call keeps the invariant.
LEMMA CallKeeps ==
  ASSUME PathInv, NEW r \in Requests, NEW t \in Services, MayCall(r, t),
         phase' \in [Requests -> [Services -> Phases]],
         \A q \in Requests : q # r => phase'[q] = phase[q],
         \A s \in Services : s # t => phase'[r][s] = phase[r][s],
         phase[r][t] = "none", phase'[r][t] = "open",
         UNCHANGED <<scenario, reply, row, entries, paid>>
  PROVE  PathInv'
<1>1. CallsOf(r) /\ StoredOf(r) /\ ToldOf(r)
  BY DEF PathInv
<1>2. \A s \in Services : phase[r][s] # "none" => phase'[r][s] # "none"
  OBVIOUS
<1>3. CallsOf(r)'
  BY <1>1, <1>2 DEF CallsOf, MayCall, Services
<1>4. StoredOf(r)' /\ ToldOf(r)'
  BY <1>1, <1>2 DEF StoredOf, ToldOf, Services, Result
<1>5. \A q \in Requests : q # r => CallsOf(q)' /\ StoredOf(q)' /\ ToldOf(q)'
  BY OthersKept
<1>6. QED
  BY <1>3, <1>4, <1>5 DEF PathInv, OneRecord

-----------------------------------------------------------------------------
\* A handler that ends with such an answer.
LEMMA HandlerAnswers ==
  ASSUME PathInv, NEW r \in Requests, NEW t \in Services,
         NEW answer \in Replies \ {"none"}, MayAnswer(r, t, answer),
         Answered(r, t, answer), phase[r][t] = "open",
         UNCHANGED <<scenario, row, entries, paid>>
  PROVE  PathInv'
BY AnswerChanges, AnswerKeeps

\* Answers, faults and timeouts keep the invariant.
LEMMA AnswersKeep ==
  ASSUME PathInv, UNCHANGED scenario, NEW r \in Requests,
         \/ \E t \in Services : Die(r, t) \/ Timeout(r, t)
         \/ AnswerTransaction(r) \/ Validate(r) \/ AnswerPayment(r)
         \/ \E s \in DOMAIN EntryType : AnswerEntry(r, s)
         \/ Login(r) \/ Lookup(r) \/ AnswerGateway(r)
  PROVE  PathInv'
<1>0. CallsOf(r) /\ StoredOf(r) /\ ToldOf(r)
  BY DEF PathInv
<1>1. ASSUME NEW t \in Services, Die(r, t) PROVE PathInv'
  <2>1. MayAnswer(r, t, "failed") /\ "failed" \in Replies \ {"none"}
    BY DEF MayAnswer, Replies
  <2>2. QED
    BY <1>1, <2>1, HandlerAnswers DEF Die
<1>2. ASSUME NEW t \in Services, Timeout(r, t) PROVE PathInv'
  <2>1. MayAnswer(r, t, "failed") /\ "failed" \in Replies \ {"none"}
    BY DEF MayAnswer, Replies
  <2>2. /\ reply' = [reply EXCEPT ![r][t] = "failed"] /\ reply[r][t] = "none"
        /\ phase' = phase /\ phase[r][t] # "none"
        /\ UNCHANGED <<scenario, row, entries, paid>>
    BY <1>2 DEF Timeout, Waits
  <2>3. /\ reply' \in [Requests -> [Services -> Replies]]
        /\ \A q \in Requests : q # r => reply'[q] = reply[q]
        /\ \A s \in Services : s # t => reply'[r][s] = reply[r][s]
        /\ reply'[r][t] = "failed"
    BY <2>1, <2>2 DEF PathInv
  <2>4. phase' \in [Requests -> [Services -> Phases]]
    BY <2>2 DEF PathInv
  <2>5. QED
    BY <2>1, <2>2, <2>3, <2>4, AnswerKeeps
<1>3. CASE AnswerTransaction(r)
  <2> DEFINE answer == IF row[r] = "COMPLETED" THEN "ok"
                       ELSE IF reply[r]["validate"] = "invalid" THEN "conflict" ELSE "failed"
  <2>1. MayAnswer(r, "transaction", answer) /\ answer \in Replies \ {"none"}
    BY <1>3 DEF AnswerTransaction, MayAnswer, Replies
  <2>2. Answered(r, "transaction", answer) /\ phase[r]["transaction"] = "open"
    BY <1>3 DEF AnswerTransaction, Answer, Works
  <2>3. UNCHANGED <<row, entries, paid>> /\ "transaction" \in Services
    BY <1>3 DEF AnswerTransaction, Answer, Services
  <2> HIDE DEF answer
  <2>4. QED
    BY <2>1, <2>2, <2>3, HandlerAnswers
<1>4. CASE Validate(r)
  <2>1. PICK answer \in {"ok", "invalid"} : Answer(r, "validate", answer)
    BY <1>4 DEF Validate
  <2>2. /\ MayAnswer(r, "validate", answer) /\ answer \in Replies \ {"none"}
        /\ phase[r]["validate"] = "open" /\ "validate" \in Services
    BY <1>4 DEF Validate, Works, MayAnswer, Replies, Services
  <2>3. QED
    BY <2>1, <2>2, HandlerAnswers DEF Answer
<1>5. CASE AnswerPayment(r)
  <2>1. PICK answer \in {"ok", "failed"} :
          Answer(r, "payment", answer) /\ (answer = "ok" => r \in paid)
    BY <1>5 DEF AnswerPayment
  <2>2. /\ MayAnswer(r, "payment", answer) /\ answer \in Replies \ {"none"}
        /\ phase[r]["payment"] = "open" /\ "payment" \in Services
    BY <1>5, <2>1 DEF AnswerPayment, Works, MayAnswer, Replies, Services
  <2>3. QED
    BY <2>1, <2>2, HandlerAnswers DEF Answer
<1>6. ASSUME NEW s \in DOMAIN EntryType, AnswerEntry(r, s) PROVE PathInv'
  <2>1. MayAnswer(r, s, "ok") /\ "ok" \in Replies \ {"none"} /\ s \in Services
    BY <1>6, EndpointFacts DEF AnswerEntry, MayAnswer, Replies, Services
  <2>2. QED
    BY <1>6, <2>1, HandlerAnswers DEF AnswerEntry, Answer
<1>7. CASE Login(r) \/ Lookup(r)
  <2>1. PICK t \in {"auth", "lookup"}, answer \in {"ok", "refused"} :
          Answer(r, t, answer) /\ phase[r][t] = "open"
    BY <1>7 DEF Login, Lookup, Works
  <2>2. MayAnswer(r, t, answer) /\ answer \in Replies \ {"none"} /\ t \in Services
    BY DEF MayAnswer, Replies, Services
  <2>3. QED
    BY <2>1, <2>2, HandlerAnswers DEF Answer
<1>8. CASE AnswerGateway(r)
  <2>1. "gateway" \in Services /\ phase[r]["gateway"] = "open"
    BY <1>8 DEF AnswerGateway, Works, Services
  <2>2. CASE scenario[r] = "invalid_amount" /\ Answer(r, "gateway", "refused")
    <3>1. MayAnswer(r, "gateway", "refused") /\ "refused" \in Replies \ {"none"}
      BY <2>2 DEF MayAnswer, Replies
    <3>2. QED
      BY <2>1, <2>2, <3>1, HandlerAnswers DEF Answer
  <2>3. ASSUME NEW s \in {"auth", "lookup", "transaction"}, reply[r][s] # "none",
               s = "transaction" \/ reply[r][s] # "ok",
               Answer(r, "gateway", GatewayReply(reply[r][s]))
        PROVE  PathInv'
    <3> DEFINE answer == GatewayReply(reply[r][s])
    <3>1. MayAnswer(r, "gateway", answer) /\ answer \in Replies \ {"none"}
      BY <1>0, <2>3 DEF CallsOf, MayAnswer, GatewayReply, Replies
    <3>2. Answered(r, "gateway", answer) /\ UNCHANGED <<row, entries, paid>>
      BY <2>3 DEF Answer
    <3> HIDE DEF answer
    <3>3. QED
      BY <2>1, <3>1, <3>2, HandlerAnswers
  <2>4. QED
    BY <1>8, <2>2, <2>3, EndpointFacts DEF AnswerGateway
<1>9. QED
  BY <1>1, <1>2, <1>3, <1>4, <1>5, <1>6, <1>7, <1>8

\* Calls keep the invariant.
LEMMA CallsKeep ==
  ASSUME PathInv, UNCHANGED scenario, NEW r \in Requests,
         \/ \E s \in CalledBy["transaction"] : CallDownstream(r, s)
         \/ CallLedger(r) \/ Orchestrate(r)
  PROVE  PathInv'
<1>1. ASSUME NEW s, NEW t \in Services, Call(r, s, t), MayCall(r, t) PROVE PathInv'
  BY <1>1, CallChanges, CallKeeps
<1>2. CASE \E s \in CalledBy["transaction"] : CallDownstream(r, s)
  <2>1. PICK t \in {"validate", "payment", "txnEntry"} : CallDownstream(r, t)
    BY <1>2, EndpointFacts
  <2>2. MayCall(r, t) /\ t \in Services
    BY <2>1 DEF CallDownstream, GoesOnTo, MayCall, Services
  <2>3. QED
    BY <1>1, <2>1, <2>2 DEF CallDownstream
<1>3. CASE CallLedger(r)
  <2>1. MayCall(r, "payEntry") /\ "payEntry" \in Services
    BY <1>3 DEF CallLedger, Call, Works, MayCall, Services
  <2>2. QED
    BY <1>1, <1>3, <2>1 DEF CallLedger
<1>4. CASE Orchestrate(r)
  <2>1. PICK t \in {"auth", "lookup", "transaction"} :
          Call(r, "gateway", t) /\ MayCall(r, t)
    BY <1>4 DEF Orchestrate, MayCall
  <2>2. QED
    BY <1>1, <2>1 DEF Services
<1>5. QED
  BY <1>2, <1>3, <1>4

\* What a handler stores keeps the invariant.
LEMMA StoresKeep ==
  ASSUME PathInv, UNCHANGED scenario, NEW r \in Requests,
         \/ Record(r) \/ Fail(r) \/ Complete(r) \/ Save(r)
         \/ \E s \in DOMAIN EntryType : Post(r, s)
  PROVE  PathInv'
<1>0. CallsOf(r) /\ StoredOf(r) /\ ToldOf(r)
  BY DEF PathInv
<1>1. ASSUME NEW status \in Statuses \ {"NONE"}, row' = [row EXCEPT ![r] = status],
             UNCHANGED <<phase, reply, entries, paid>>,
             CallsOf(r)', StoredOf(r)', ToldOf(r)',
             row[r] # "NONE" \/ IsFresh(r)
      PROVE  PathInv'
  <2>1. \A q \in Requests : q # r => row'[q] = row[q]
    BY <1>1 DEF PathInv
  <2>2. \A q \in Requests : q # r => CallsOf(q)' /\ StoredOf(q)' /\ ToldOf(q)'
    BY <1>1, <2>1, OthersKept
  <2>3. OneRecord'
    BY <1>1, <2>1 DEF PathInv, OneRecord, IsFresh
  <2>4. QED
    BY <1>1, <2>2, <2>3 DEF PathInv
<1>2. CASE Record(r)
  <2>1. CASE IsFresh(r)
    <3>1. row' = [row EXCEPT ![r] = "PENDING"] /\ UNCHANGED <<phase, reply, entries, paid>>
      BY <1>2, <2>1 DEF Record
    <3>2. row[r] = "NONE" /\ row'[r] = "PENDING" /\ phase[r]["transaction"] # "none"
      BY <1>2, <3>1 DEF Record, Works, PathInv
    <3>3. CallsOf(r)' /\ StoredOf(r)' /\ ToldOf(r)'
      BY <1>0, <3>1, <3>2 DEF CallsOf, StoredOf, ToldOf, Result
    <3>4. QED
      BY <1>1, <2>1, <3>1, <3>3 DEF Statuses
  <2>2. CASE ~IsFresh(r)
    <3>1. /\ Answered(r, "transaction", "failed") /\ UNCHANGED <<row, entries, paid>>
          /\ phase[r]["transaction"] = "open"
      BY <1>2, <2>2 DEF Record, Works
    <3>2. MayAnswer(r, "transaction", "failed") /\ "transaction" \in Services
      BY DEF MayAnswer, Services
    <3>3. QED
      BY <3>1, <3>2, HandlerAnswers DEF Replies
  <2>3. QED
    BY <2>1, <2>2
<1>3. CASE Fail(r)
  <2>1. /\ row' = [row EXCEPT ![r] = "FAILED"] /\ UNCHANGED <<phase, reply, entries, paid>>
        /\ row[r] = "PENDING"
    BY <1>3 DEF Fail
  <2>2. row'[r] = "FAILED"
    BY <2>1 DEF PathInv
  <2>3. CallsOf(r)' /\ StoredOf(r)' /\ ToldOf(r)'
    BY <1>0, <2>1, <2>2 DEF CallsOf, StoredOf, ToldOf, Result
  <2>4. QED
    BY <1>1, <2>1, <2>3 DEF Statuses
<1>4. CASE Complete(r)
  <2>1. /\ row' = [row EXCEPT ![r] = "COMPLETED"] /\ UNCHANGED <<phase, reply, entries, paid>>
        /\ row[r] = "PENDING" /\ reply[r]["txnEntry"] = "ok"
    BY <1>4 DEF Complete
  <2>2. row'[r] = "COMPLETED"
    BY <2>1 DEF PathInv
  <2>3. CallsOf(r)' /\ StoredOf(r)' /\ ToldOf(r)'
    BY <1>0, <2>1, <2>2 DEF CallsOf, StoredOf, ToldOf, Result
  <2>4. QED
    BY <1>1, <2>1, <2>3 DEF Statuses
<1>5. CASE Save(r)
  <2>1. /\ paid' = paid \cup {r} /\ UNCHANGED <<phase, reply, row, entries>>
        /\ reply[r]["payEntry"] = "ok"
    BY <1>5 DEF Save, Paid
  <2>2. CallsOf(r)' /\ StoredOf(r)' /\ ToldOf(r)'
    BY <1>0, <2>1 DEF CallsOf, StoredOf, ToldOf, Result
  <2>3. \A q \in Requests : q # r => CallsOf(q)' /\ StoredOf(q)' /\ ToldOf(q)'
    BY <2>1, OthersKept
  <2>4. QED
    BY <2>1, <2>2, <2>3 DEF PathInv, OneRecord
<1>6. ASSUME NEW s \in DOMAIN EntryType, Post(r, s) PROVE PathInv'
  <2>1. PICK e \in Entry :
          /\ entries' = entries \cup {<<r, e>>} /\ UNCHANGED <<phase, reply, row, paid>>
          /\ e = "PAYMENT_COMPLETED" => phase[r]["payEntry"] # "none"
          /\ e = "TRANSACTION_COMPLETED" => phase[r]["txnEntry"] # "none"
    BY <1>6, EndpointFacts DEF Post, Entry
  <2>2. CallsOf(r)' /\ ToldOf(r)'
    BY <1>0, <2>1 DEF CallsOf, ToldOf, Result
  <2>3. StoredOf(r)'
    BY <1>0, <2>1 DEF StoredOf, Entry
  <2>4. \A q \in Requests : q # r => CallsOf(q)' /\ StoredOf(q)' /\ ToldOf(q)'
    BY <2>1, OthersKept
  <2>5. QED
    BY <2>1, <2>2, <2>3, <2>4 DEF PathInv, OneRecord
<1>7. QED
  BY <1>2, <1>3, <1>4, <1>5, <1>6

\* What a client was told is not told otherwise, and no plan is redrawn.
LEMMA ToldForGood ==
  ASSUME PathInv, NEW r \in Requests, Handle(r), NEW q \in Requests, Result(q) # "none"
  PROVE  Result(q)' = Result(q)
<1> USE DEF Result
<1>1. ASSUME NEW t \in Services, NEW answer \in Replies, Answered(r, t, answer)
      PROVE  reply'[q]["gateway"] = reply[q]["gateway"]
  BY <1>1 DEF Answered, Waits, PathInv
<1>2. ASSUME NEW t \in Services, Timeout(r, t)
      PROVE  reply'[q]["gateway"] = reply[q]["gateway"]
  BY <1>2 DEF Timeout, Waits, PathInv
<1>3. CASE \E t \in Services : Die(r, t)
  BY <1>1, <1>3 DEF Die, Replies
<1>4. CASE \/ Record(r) \/ Fail(r) \/ Complete(r) \/ Save(r)
           \/ \E s \in DOMAIN EntryType : Post(r, s)
  BY <1>1, <1>4 DEF Record, Fail, Complete, Save, Post, Services, Replies
<1>5. CASE \/ \E s \in CalledBy["transaction"] : CallDownstream(r, s)
           \/ CallLedger(r) \/ Orchestrate(r)
  BY <1>5 DEF CallDownstream, CallLedger, Orchestrate, Call
<1>6. CASE \/ AnswerTransaction(r) \/ Validate(r) \/ AnswerPayment(r) \/ Login(r) \/ Lookup(r)
  BY <1>1, <1>6 DEF AnswerTransaction, Validate, AnswerPayment, Login, Lookup,
     Answer, Services, Replies
<1>7. ASSUME NEW s \in DOMAIN EntryType, AnswerEntry(r, s)
      PROVE  reply'[q]["gateway"] = reply[q]["gateway"]
  BY <1>1, <1>7, EndpointFacts DEF AnswerEntry, Answer, Services, Replies
<1>8. CASE AnswerGateway(r)
  <2>1. PICK answer \in Replies : Answer(r, "gateway", answer)
    BY <1>8, EndpointFacts DEF AnswerGateway, GatewayReply, Replies, PathInv, Services
  <2>2. QED
    BY <1>1, <2>1 DEF Answer, Services
<1>9. QED
  BY <1>2, <1>3, <1>4, <1>5, <1>6, <1>7, <1>8 DEF Handle

-----------------------------------------------------------------------------
\* The two forms of the invariant.
LEMMA InvIsPathInv ==
  Inv <=> /\ PathInv /\ scenario \in Plans /\ faults \in Nat
          /\ run \in [Runs -> RunStates] /\ CompleteAsExpected
BY PlanAssumption DEF Inv, PathInv, TypeOK

\* The invariant holds before anything is sent.
LEMMA InvAtStart == Init => Inv
<1> SUFFICES ASSUME Init PROVE Inv
  OBVIOUS
<1> USE PlanAssumption DEF Init, RtInit
<1>1. TypeOK
  BY DEF TypeOK, Phases, Replies, Statuses, RunStates
<1>2. \A r \in Requests : CallsOf(r) /\ StoredOf(r) /\ ToldOf(r)
  BY DEF CallsOf, StoredOf, ToldOf, Result, Services
<1>3. OneRecord /\ CompleteAsExpected
  BY DEF OneRecord, CompleteAsExpected
<1>4. QED
  BY <1>1, <1>2, <1>3 DEF Inv

\* A handler's step keeps it.
LEMMA HandleKeeps ==
  ASSUME Inv, NEW r \in Requests, Handle(r), UNCHANGED run
  PROVE  Inv'
<1>1. PathInv /\ UNCHANGED scenario
  BY InvIsPathInv DEF Handle
<1>2. PathInv'
  BY <1>1, AnswersKeep, CallsKeep, StoresKeep DEF Handle
<1>3. faults' \in Nat
  BY EndpointFacts DEF Inv, TypeOK, Handle, Die, Timeout, Record, Fail, Complete,
     AnswerTransaction, Answer, CallDownstream, Call, Validate, CallLedger,
     Save, AnswerPayment, Post, AnswerEntry, Orchestrate, Login, Lookup,
     AnswerGateway
<1>4. CompleteAsExpected'
  <2> SUFFICES ASSUME NEW x \in Runs, run[x] = "complete", NEW q \in PlannedBy(x)
               PROVE  Expected(q)'
    BY DEF CompleteAsExpected, PlannedBy
  <2>1. Expected(q) /\ q \in Requests
    BY DEF Inv, CompleteAsExpected, PlannedBy
  <2>2. Result(q)' = Result(q)
    BY <1>1, <2>1, ToldForGood DEF Expected
  <2>3. QED
    BY <1>1, <2>1, <2>2 DEF Expected
<1>5. QED
  BY <1>1, <1>2, <1>3, <1>4 DEF Inv, PathInv, TypeOK

\* What is known of a request stays known while its path is left alone.
LEMMA PathUntouched ==
  ASSUME UNCHANGED rtVars, NEW r \in Requests, CallsOf(r), StoredOf(r), ToldOf(r)
  PROVE  (CallsOf(r) /\ StoredOf(r) /\ ToldOf(r))'
<1>1. /\ scenario' = scenario /\ phase' = phase /\ reply' = reply
      /\ row' = row /\ entries' = entries /\ paid' = paid
  BY DEF rtVars
<1>2. CallsOf(r)'
  BY <1>1 DEF CallsOf
<1>3. StoredOf(r)'
  BY <1>1 DEF StoredOf
<1>4. ToldOf(r)'
  BY <1>1 DEF ToldOf, Result
<1>5. QED
  BY <1>2, <1>3, <1>4

\* A step of the runner keeps it.
LEMMA RunnerKeeps ==
  ASSUME Inv,
         \/ \E x \in Runs : Start(x) \/ Finish(x) \/ Stop(x)
         \/ \E r \in Requests : Submit(r) \/ GiveUp(r)
  PROVE  Inv'
<1>0. PathInv
  BY InvIsPathInv
<1>1. ASSUME NEW x \in Runs, Start(x) \/ Finish(x) \/ Stop(x) PROVE Inv'
  <2>1. UNCHANGED rtVars
    BY <1>1 DEF Start, Finish, Stop
  <2>2. PICK state \in RunStates :
          /\ run' = [run EXCEPT ![x] = state]
          /\ state = "complete" => \A r \in PlannedBy(x) : Expected(r)
    BY <1>1 DEF Start, Finish, Stop, Clean, RunStates
  <2>3. run' \in [Runs -> RunStates] /\ TypeOK'
    BY <2>1, <2>2 DEF Inv, TypeOK, rtVars
  <2>4. CompleteAsExpected'
    BY <2>1, <2>2 DEF Inv, TypeOK, CompleteAsExpected, Expected, Result, PlannedBy, rtVars
  <2>5. \A r \in Requests : (CallsOf(r) /\ StoredOf(r) /\ ToldOf(r))'
    BY <2>1, PathUntouched DEF Inv
  <2>6. OneRecord'
    BY <2>1 DEF Inv, OneRecord, rtVars
  <2>7. QED
    BY <2>3, <2>4, <2>5, <2>6 DEF Inv
<1>2. ASSUME NEW r \in Requests, Submit(r) PROVE Inv'
  <2>1. /\ phase' = [phase EXCEPT ![r]["gateway"] = "open"] /\ phase[r]["gateway"] = "none"
        /\ UNCHANGED <<scenario, reply, row, entries, paid, faults, run>>
    BY <1>2 DEF Submit
  <2>2. "gateway" \in Services /\ MayCall(r, "gateway")
    BY DEF Services, MayCall
  <2>3. /\ phase' \in [Requests -> [Services -> Phases]]
        /\ \A q \in Requests : q # r => phase'[q] = phase[q]
        /\ \A s \in Services : s # "gateway" => phase'[r][s] = phase[r][s]
        /\ phase'[r]["gateway"] = "open"
    BY <1>0, <2>1, <2>2 DEF PathInv, Phases
  <2>4. PathInv'
    BY <1>0, <2>1, <2>2, <2>3, CallKeeps
  <2>5. CompleteAsExpected'
    BY <2>1 DEF Inv, CompleteAsExpected, Expected, Result, PlannedBy
  <2>6. QED
    BY <2>1, <2>4, <2>5 DEF Inv, PathInv, TypeOK
<1>3. ASSUME NEW r \in Requests, GiveUp(r) PROVE Inv'
  <2>1. /\ reply' = [reply EXCEPT ![r]["gateway"] = "failed"]
        /\ reply[r]["gateway"] = "none" /\ phase[r]["gateway"] # "none"
        /\ UNCHANGED <<scenario, phase, row, entries, paid, faults, run>>
    BY <1>3 DEF GiveUp, UnderWay, Result
  <2>2. /\ "gateway" \in Services /\ MayAnswer(r, "gateway", "failed")
        /\ "failed" \in Replies \ {"none"}
    BY DEF Services, MayAnswer, Replies
  <2>3. /\ reply' \in [Requests -> [Services -> Replies]]
        /\ \A q \in Requests : q # r => reply'[q] = reply[q]
        /\ \A s \in Services : s # "gateway" => reply'[r][s] = reply[r][s]
        /\ reply'[r]["gateway"] = "failed"
        /\ phase' \in [Requests -> [Services -> Phases]]
    BY <1>0, <2>1, <2>2 DEF PathInv
  <2>4. PathInv'
    BY <1>0, <2>1, <2>2, <2>3, AnswerKeeps
  <2>5. CompleteAsExpected'
    <3> SUFFICES ASSUME NEW x \in Runs, run[x] = "complete", NEW q \in PlannedBy(x)
                 PROVE  Expected(q)'
      BY <2>1 DEF CompleteAsExpected, PlannedBy
    <3>1. Expected(q) /\ q \in Requests
      BY DEF Inv, CompleteAsExpected, PlannedBy
    <3>2. Result(q)' = Result(q)
      BY <2>1, <2>3, <3>1 DEF Expected, Result
    <3>3. QED
      BY <2>1, <3>1, <3>2 DEF Expected
  <2>6. QED
    BY <2>1, <2>4, <2>5 DEF Inv, PathInv, TypeOK
<1>4. QED
  BY <1>1, <1>2, <1>3

\* Every step keeps the invariant.
LEMMA InvKept == Inv /\ [Next]_vars => Inv'
<1> SUFFICES ASSUME Inv, [Next]_vars PROVE Inv'
  OBVIOUS
<1>1. CASE UNCHANGED vars
  <2>1. TypeOK'
    BY <1>1 DEF Inv, TypeOK, vars, rtVars
  <2>2. \A r \in Requests : (CallsOf(r) /\ StoredOf(r) /\ ToldOf(r))'
    <3>1. UNCHANGED rtVars
      BY <1>1 DEF vars
    <3>2. QED
      BY <3>1, PathUntouched DEF Inv
  <2>3. OneRecord' /\ CompleteAsExpected'
    BY <1>1 DEF Inv, OneRecord, CompleteAsExpected, Expected, Result, PlannedBy, vars, rtVars
  <2>4. QED
    BY <2>1, <2>2, <2>3 DEF Inv
<1>2. CASE Next
  BY <1>2, HandleKeeps, RunnerKeeps DEF Next
<1>3. QED
  BY <1>1, <1>2

\* The invariant always holds.
THEOREM InvAlways == Spec => []Inv
BY InvAtStart, InvKept, PTL DEF Spec

\* Every variable always has a value of its type.
THEOREM ResearchTypeCorrect == Spec => []TypeOK
<1>1. Inv => TypeOK
  BY DEF Inv
<1>2. QED
  BY <1>1, InvAlways, PTL

\* The evidence of a request never outruns itself.
THEOREM EvidenceIsChained == Spec => []EvidenceChain
<1>1. Inv => EvidenceChain
  BY DEF Inv, EvidenceChain, StoredOf, CallsOf
<1>2. QED
  BY <1>1, InvAlways, PTL

\* A client is told no more than what was stored.
THEOREM ClientsAreToldTheTruth == Spec => []AnswersAreTrue
<1>1. Inv => AnswersAreTrue
  <2> SUFFICES ASSUME Inv, NEW r \in Requests
               PROVE  /\ Result(r) = "ok" => row[r] = "COMPLETED"
                      /\ Result(r) \in {"refused", "conflict"} =>
                           /\ row[r] \in {"NONE", "FAILED"}
                           /\ r \notin paid
                           /\ {e \in entries : e[1] = r} = {}
    BY DEF AnswersAreTrue
  <2>1. CallsOf(r) /\ StoredOf(r) /\ ToldOf(r) /\ entries \subseteq Requests \X Entry
    BY DEF Inv, TypeOK
  <2>2. Result(r) \in {"refused", "conflict"} =>
          row[r] \in {"NONE", "FAILED"} /\ reply[r]["validate"] # "ok"
    BY <2>1 DEF CallsOf, ToldOf, Services
  <2>3. reply[r]["validate"] # "ok" =>
          /\ <<r, "PAYMENT_COMPLETED">> \notin entries
          /\ <<r, "TRANSACTION_COMPLETED">> \notin entries
    BY <2>1 DEF CallsOf, StoredOf, Services
  <2>4. reply[r]["validate"] # "ok" => r \notin paid /\ {e \in entries : e[1] = r} = {}
    BY <2>1, <2>3 DEF StoredOf, Entry
  <2>5. QED
    BY <2>1, <2>2, <2>4 DEF ToldOf
<1>2. QED
  BY <1>1, InvAlways, PTL

\* An identifier is posted and paid for one request only.
THEOREM PaidOncePerRequest == Spec => []OncePerRequest
<1>1. Inv => OncePerRequest
  <2> SUFFICES ASSUME Inv, NEW q \in Requests, NEW r \in Requests, IdOf[q] = IdOf[r],
                      {q, r} \subseteq {e[1] : e \in entries}
               PROVE  q = r
    BY DEF OncePerRequest
  <2>1. ASSUME NEW x \in Requests, x \in {e[1] : e \in entries} PROVE row[x] # "NONE"
    <3>0. PICK e \in entries : e[1] = x
      BY <2>1
    <3>1. PICK t \in Entry : <<x, t>> \in entries
      <4>1. e \in Requests \X Entry
        BY <3>0 DEF Inv, TypeOK
      <4>2. e = <<e[1], e[2]>> /\ e[2] \in Entry
        BY <4>1
      <4>3. QED
        BY <3>0, <4>2
    <3>2. CallsOf(x) /\ StoredOf(x)
      BY DEF Inv
    <3>3. QED
      BY <3>1, <3>2 DEF CallsOf, StoredOf, Entry, Services
  <2>2. QED
    BY <2>1 DEF Inv, OneRecord
<1>2. QED
  BY <1>1, InvAlways, PTL

\* A manifest vouches for the whole evidence of its run.
THEOREM ManifestsAreClean == Spec => []ManifestIsClean
<1>1. Inv => ManifestIsClean
  <2> SUFFICES ASSUME Inv, NEW x \in Runs, run[x] = "complete", NEW r \in PlannedBy(x)
               PROVE  IF scenario[r] = "valid"
                        THEN row[r] = "COMPLETED" /\ r \in paid /\ {r} \X Entry \subseteq entries
                        ELSE row[r] = "NONE" /\ r \notin paid
    BY DEF ManifestIsClean
  <2>1. Expected(r) /\ CallsOf(r) /\ StoredOf(r) /\ ToldOf(r)
    BY DEF Inv, CompleteAsExpected, PlannedBy
  <2>2. CASE scenario[r] = "valid"
    <3>1. row[r] = "COMPLETED" /\ r \in paid
      BY <2>1, <2>2 DEF Expected, CallsOf, StoredOf, ToldOf, Services
    <3>2. <<r, "PAYMENT_COMPLETED">> \in entries /\ <<r, "TRANSACTION_COMPLETED">> \in entries
      BY <2>1, <3>1 DEF StoredOf
    <3>3. QED
      BY <2>2, <3>1, <3>2 DEF Entry
  <2>3. CASE scenario[r] # "valid"
    BY <2>1, <2>3 DEF Expected, CallsOf, StoredOf, ToldOf, Services
  <2>4. QED
    BY <2>2, <2>3
<1>2. QED
  BY <1>1, InvAlways, PTL

-----------------------------------------------------------------------------
(* Localization: what can be counted                                       *)

\* The members of a finite set have finitely many values, no more than there are
\* members.
LEMMA FiniteImage ==
  ASSUME NEW S, IsFiniteSet(S), NEW f
  PROVE  /\ IsFiniteSet({f[x] : x \in S})
         /\ Cardinality({f[x] : x \in S}) <= Cardinality(S)
<1> DEFINE T == {f[x] : x \in S}
           g == [x \in S |-> f[x]]
<1>1. g \in Surjection(S, T)
  BY DEF Surjection
<1> QED
  BY <1>1, FS_Surjection

\* Seven things are finitely many.
LEMMA FiniteSeven ==
  ASSUME NEW a, NEW b, NEW c, NEW d, NEW e, NEW f, NEW g
  PROVE  IsFiniteSet({a, b, c, d, e, f, g})
<1>0. /\ \A s, x : IsFiniteSet(s) => IsFiniteSet(s \cup {x})
      /\ IsFiniteSet({a})
  BY FS_Singleton, FS_AddElement
<1>1. IsFiniteSet({a} \cup {b} \cup {c} \cup {d} \cup {e} \cup {f} \cup {g})
  BY <1>0
<1>2. {a, b, c, d, e, f, g} = {a} \cup {b} \cup {c} \cup {d} \cup {e} \cup {f} \cup {g}
  OBVIOUS
<1> QED
  BY <1>1, <1>2

\* There are seven calls, and finitely many ways for a request to go.
LEMMA OutcomesFinite == DOMAIN Calls = 1..7 /\ IsFiniteSet(DOMAIN Calls) /\ IsFiniteSet(Outcomes)
<1>1. DOMAIN Calls = 1..7
  BY DEF Calls
<1>2. IsFiniteSet(1..7)
  <2>1. 1 \in Int /\ 7 \in Int
    OBVIOUS
  <2> QED
    BY <2>1, FS_Interval
<1>3. IsFiniteSet(Troubles)
  BY FiniteSeven DEF Troubles
<1>4. IsFiniteSet((1..7) \X Troubles)
  BY <1>2, <1>3, FS_Product
<1>5. IsFiniteSet({Fine} \cup {Refused})
  BY FS_Singleton, FS_AddElement
<1>6. IsFiniteSet(({Fine} \cup {Refused}) \cup ((1..7) \X Troubles))
  BY <1>4, <1>5, FS_Union
<1>7. Outcomes = ({Fine} \cup {Refused}) \cup ((1..7) \X Troubles)
  BY <1>1 DEF Outcomes
<1> QED
  BY <1>1, <1>2, <1>6, <1>7

\* A request leaves finitely many events.
LEMMA EventsFinite == ASSUME NEW o \in Outcomes PROVE IsFiniteSet(EventsOf[o])
<1>1. IsFiniteSet(OfGateway(o))
  <2>1. \A a, b, c : IsFiniteSet({a, b, c})
    <3> TAKE a, b, c
    <3>1. IsFiniteSet({a} \cup {b} \cup {c})
      BY FS_Singleton, FS_AddElement
    <3>2. {a, b, c} = {a} \cup {b} \cup {c}
      OBVIOUS
    <3> QED
      BY <3>1, <3>2
  <2> QED
    BY <2>1 DEF OfGateway
<1>2. IsFiniteSet(Made(o))
  BY OutcomesFinite, FS_Subset DEF Made
<1>3. IsFiniteSet(CallEvents(o))
  <2> DEFINE f == [c \in Made(o) |->
                     LET failed == c \in Broken(o)
                     IN  Row(10 * c, Event(Calls[c].from, Calls[c].to, failed,
                             IF failed THEN Word(o, c) ELSE "none", failed /\ Slow(o)))]
  <2>1. CallEvents(o) = {f[c] : c \in Made(o)}
    BY DEF CallEvents
  <2> HIDE DEF f
  <2> QED
    BY <1>2, <2>1, FiniteImage
<1>4. ASSUME NEW c \in Made(o) PROVE IsFiniteSet(Own(o, c))
  <2> DEFINE rows == OwnEvents(o, c)
             f == [k \in DOMAIN rows |-> Row(10 * c + k, rows[k])]
  <2>1. DOMAIN rows \in {1..3, 1..2, 1..1, {}}
    BY DEF OwnEvents
  <2> HIDE DEF rows
  <2>2. IsFiniteSet(DOMAIN rows)
    <3>1. DOMAIN rows \in SUBSET (1..7)
      BY <2>1
    <3>2. IsFiniteSet(1..7)
      BY OutcomesFinite
    <3> QED
      BY <3>1, <3>2, FS_Subset
  <2>3. Own(o, c) = {f[k] : k \in DOMAIN rows}
    BY DEF Own, rows
  <2> HIDE DEF f
  <2> QED
    BY <2>2, <2>3, FiniteImage
<1>5. IsFiniteSet(UNION {Own(o, c) : c \in Made(o)})
  <2> DEFINE f == [c \in Made(o) |-> Own(o, c)]
  <2>1. {Own(o, c) : c \in Made(o)} = {f[c] : c \in Made(o)}
    OBVIOUS
  <2>2. IsFiniteSet({f[c] : c \in Made(o)})
    <3> HIDE DEF f
    <3> QED
      BY <1>2, FiniteImage
  <2>3. \A T \in {Own(o, c) : c \in Made(o)} : IsFiniteSet(T)
    BY <1>4
  <2> HIDE DEF f
  <2> QED
    BY <2>1, <2>2, <2>3, FS_UNION
<1>6. EventsOf[o] = (OfGateway(o) \cup CallEvents(o)) \cup UNION {Own(o, c) : c \in Made(o)}
  BY DEF EventsOf
<1> QED
  BY <1>1, <1>3, <1>5, <1>6, FS_Union

\* More of the same is more.
LEMMA TimesGrows ==
  ASSUME NEW n \in Nat, NEW a \in Nat, NEW b \in Nat, a <= b
  PROVE  n * a \in Nat /\ n * b \in Nat /\ n * a <= n * b
<1>1. n * (b - a) \in Nat /\ n * a \in Nat /\ n * b \in Nat
  OBVIOUS
<1>2. n * b = n * a + n * (b - a)
  OBVIOUS
<1> QED
  BY <1>1, <1>2

\* x is a number from 0 to n.
Within(n, x) == x \in Nat /\ x <= n

\* A part is at most a thousand thousandths.
LEMMA ThousandthsBounded ==
  ASSUME NEW a \in Nat, NEW n \in Nat, a <= n, n > 0
  PROVE  Within(1000, (1000 * a) \div n)
<1>1. 1000 * a \in Nat /\ 1000 * a <= n * 1000
  OBVIOUS
<1> QED
  BY <1>1 DEF Within

\* Of the events of a request in a stream, those with a mark are some.
LEMMA TallyBounded ==
  ASSUME NEW o \in Outcomes, NEW x \in Streams, NEW m \in Marks
  PROVE  /\ Tally[o][x][m] \in Nat /\ Tally[o][x]["any"] \in Nat
         /\ Tally[o][x][m] <= Tally[o][x]["any"]
<1> DEFINE Rows(k) == {r \in EventsOf[o] : In(r.event, x) /\ Marked(r.event, k)}
<1>1. "any" \in Marks
  BY DEF Marks
<1>2. \A k \in Marks : Tally[o][x][k] = Cardinality(Rows(k))
  BY DEF Tally
<1>3. \A k \in Marks : Rows(k) \in SUBSET Rows("any") /\ Rows(k) \in SUBSET EventsOf[o]
  BY DEF Marked
<1> HIDE DEF Rows
<1>4. IsFiniteSet(EventsOf[o])
  BY EventsFinite
<1>5. \A k \in Marks : IsFiniteSet(Rows(k)) /\ Cardinality(Rows(k)) \in Nat
  BY <1>3, <1>4, FS_Subset, FS_CardinalityType
<1>6. Cardinality(Rows(m)) <= Cardinality(Rows("any"))
  BY <1>1, <1>3, <1>5, FS_Subset
<1> QED
  BY <1>1, <1>2, <1>5, <1>6

\* A stretch: how many of its requests went each way.
Bag(bag) == bag \in [Outcomes -> Nat]

\* What the requests of a bag that go a way have in a stream with a mark.
Weights(bag, x, m) == [o \in Outcomes |-> bag[o] * Tally[o][x][m]]

\* The ways that requests of a bag go.
Gone(bag) == {o \in Outcomes : bag[o] > 0}

\* A count is a sum over these ways.
LEMMA CountIs ==
  ASSUME NEW bag, Bag(bag), NEW x \in Streams, NEW m \in Marks
  PROVE  Count(bag, x, m) = Sum(Weights(bag, x, m), Gone(bag))
<1> DEFINE S == Gone(bag)
           W == Weights(bag, x, m)
           Fold(g) == g = [s \in SUBSET S |->
                             IF s = {} THEN 0
                             ELSE bag[Taken(s)] * Tally[Taken(s)][x][m] + g[s \ {Taken(s)}]]
<1>1. Count(bag, x, m) = (CHOOSE g : Fold(g))[S]
  BY DEF Count, MapThenSumSet, MapThenFoldSet, Taken, Gone
<1>2. \A s \in SUBSET S : s # {} => W[Taken(s)] = bag[Taken(s)] * Tally[Taken(s)][x][m]
  BY TakenIs DEF Weights, Gone
<1>3. IsFiniteSet(S) /\ S \in SUBSET Outcomes
  BY OutcomesFinite, FS_Subset DEF Gone
<1>4. Numbers(W, S)
  BY <1>3, TallyBounded DEF Numbers, Weights, Bag
<1> HIDE DEF W, S
<1>5. \A g : SumsUp(W, g, SUBSET S) => Fold(g)
  BY <1>2 DEF SumsUp
<1>6. \A g : Fold(g) => SumsUp(W, g, SUBSET S)
  BY <1>2 DEF SumsUp
<1>7. \E g : Fold(g)
  BY <1>3, <1>5, SumsExist
<1> DEFINE h == CHOOSE g : Fold(g)
<1>8. Fold(h)
  <2> HIDE DEF Fold
  <2> QED
    BY <1>7
<1>9. SumsUp(W, h, SUBSET S)
  BY <1>6, <1>8
<1> HIDE DEF h, Fold
<1>10. Sum(W, S) = h[S]
  BY <1>3, <1>4, <1>9, SumOf
<1> QED
  BY <1>1, <1>10 DEF h, W, S

\* Of what is counted, the marked is a part.
LEMMA CountBounded ==
  ASSUME NEW bag, Bag(bag), NEW x \in Streams, NEW m \in Marks
  PROVE  /\ Count(bag, x, m) \in Nat /\ Count(bag, x, "any") \in Nat
         /\ Count(bag, x, m) <= Count(bag, x, "any")
<1> DEFINE S == Gone(bag)
           f == Weights(bag, x, m)
           g == Weights(bag, x, "any")
<1>1. IsFiniteSet(S) /\ S \in SUBSET Outcomes
  BY OutcomesFinite, FS_Subset DEF Gone
<1>2. ASSUME NEW o \in S PROVE f[o] \in Nat /\ g[o] \in Nat /\ f[o] <= g[o]
  <2>1. o \in Outcomes /\ bag[o] \in Nat
    BY <1>1 DEF Bag
  <2>2. /\ Tally[o][x][m] \in Nat /\ Tally[o][x]["any"] \in Nat
        /\ Tally[o][x][m] <= Tally[o][x]["any"]
    BY <2>1, TallyBounded
  <2>3. f[o] = bag[o] * Tally[o][x][m] /\ g[o] = bag[o] * Tally[o][x]["any"]
    BY <2>1 DEF Weights
  <2> QED
    BY <2>1, <2>2, <2>3, TimesGrows
<1>3. "any" \in Marks
  BY DEF Marks
<1>4. Count(bag, x, m) = Sum(f, S) /\ Count(bag, x, "any") = Sum(g, S)
  BY <1>3, CountIs
<1> HIDE DEF S, f, g
<1>5. Sum(f, S) \in Nat /\ Sum(g, S) \in Nat /\ Sum(f, S) <= Sum(g, S)
  BY <1>1, <1>2, SumMonotone
<1> QED
  BY <1>4, <1>5

\* Hence a rate is between none and all.
LEMMA RateBounded ==
  ASSUME NEW bag, Bag(bag), NEW x \in Streams, NEW m \in Marks
  PROVE  Within(1000, Rate(bag, x, m))
<1> DEFINE n == Count(bag, x, "any")
           a == Count(bag, x, m)
<1>1. a \in Nat /\ n \in Nat /\ a <= n
  BY CountBounded
<1>2. Rate(bag, x, m) = IF n = 0 THEN 0 ELSE (1000 * a) \div n
  BY DEF Rate
<1> HIDE DEF n, a
<1> QED
  BY <1>1, <1>2, ThousandthsBounded DEF Within

\* A finite set of numbers has a greatest one, which Max is.
LEMMA MaxIsGreatest ==
  ASSUME NEW S \in SUBSET Int, IsFiniteSet(S), S # {}
  PROVE  Max(S) \in S /\ \A k \in S : Max(S) >= k
<1> DEFINE f == [k \in S |-> k]
<1>1. Numbers(f, S)
  BY DEF Numbers
<1>2. \E k \in S : \A l \in S : f[k] >= f[l]
  <2> HIDE DEF f
  <2> QED
    BY <1>1, GreatestExists
<1>3. \E k \in S : \A l \in S : k >= l
  BY <1>2
<1> QED
  BY <1>3 DEF Max

\* The highest of numbers in a range is in it.
LEMMA HighestBounded ==
  ASSUME NEW n \in Nat, NEW S, IsFiniteSet(S), \A k \in S : Within(n, k)
  PROVE  Within(n, Highest(S)) /\ \A k \in S : Highest(S) >= k
<1>1. CASE S = {}
  BY <1>1 DEF Highest, Within
<1>2. CASE S # {}
  <2>1. S \in SUBSET Int
    BY DEF Within
  <2>2. Max(S) \in S /\ \A k \in S : Max(S) >= k
    BY <1>2, <2>1, MaxIsGreatest
  <2> QED
    BY <1>2, <2>2 DEF Highest
<1> QED
  BY <1>1, <1>2

\* Few things are finitely many.
LEMMA FewAreFinite ==
  /\ \A a : IsFiniteSet({a})
  /\ \A a, b : IsFiniteSet({a, b})
  /\ \A a, b, c : IsFiniteSet({a, b, c})
<1>1. \A a, b, c : IsFiniteSet({a, b, c})
  <2> TAKE a, b, c
  <2>1. IsFiniteSet({a, b, c, c, c, c, c})
    BY FiniteSeven
  <2>2. {a, b, c} = {a, b, c, c, c, c, c}
    OBVIOUS
  <2> QED
    BY <2>1, <2>2
<1>2. \A a, b : IsFiniteSet({a, b})
  <2> TAKE a, b
  <2>1. {a, b} = {a, b, b}
    OBVIOUS
  <2> QED
    BY <1>1, <2>1
<1>3. \A a : IsFiniteSet({a})
  BY FS_Singleton
<1> QED
  BY <1>1, <1>2, <1>3

\* There are finitely many services and dependencies.
LEMMA NamesFinite == IsFiniteSet(Names) /\ IsFiniteSet(EdgeNames)
<1>1. IsFiniteSet({"gateway", "authentication", "account", "transaction", "payment",
                   "ledger", "ledger"})
  BY FiniteSeven
<1>2. Names = {"gateway", "authentication", "account", "transaction", "payment",
               "ledger", "ledger"}
  BY DEF Names
<1>3. IsFiniteSet({EdgeOf[c] : c \in DOMAIN Calls})
  BY OutcomesFinite, FiniteImage
<1> QED
  BY <1>1, <1>2, <1>3 DEF EdgeNames

-----------------------------------------------------------------------------
(* Localization: evidence and scores are bounded                           *)

\* Evidence is in thousandths.
OfService(v) == /\ Within(1000, v.emitted) /\ Within(1000, v.inbound)
                /\ Within(1000, v.latency) /\ Within(1000, v.locked)

OfEdge(v) == /\ Within(1000, v.failure) /\ Within(1000, v.latency) /\ Within(1000, v.timeout)
             /\ Within(1000, v.connection) /\ Within(1000, v.status503)

OfDatabase(v) == Within(1000, v.errors) /\ v.affected \in Nat

\* Of every candidate.
Measured(ev) ==
    /\ \A s \in Names : OfService(ev.service[s])
    /\ \A e \in EdgeNames : OfEdge(ev.edge[e])
    /\ OfDatabase(ev.database)

\* Two rates differ by no more than either can be.
LEMMA IncreaseBounded ==
  ASSUME Bag(before), Bag(current), NEW x \in Streams, NEW m \in Marks
  PROVE  Within(1000, Increase(x, m))
<1> DEFINE a == Rate(current, x, m)
           b == Rate(before, x, m)
<1>1. Within(1000, a) /\ Within(1000, b)
  BY RateBounded
<1>2. Increase(x, m) = IF a - b > 0 THEN a - b ELSE 0
  BY DEF Increase
<1> HIDE DEF a, b
<1> QED
  BY <1>1, <1>2 DEF Within

\* A latency lies between nothing and the highest.
LEMMA LatencyBounded == ASSUME NEW x \in Streams PROVE Within(1000, Latency(x))
<1>1. Mixed[x] \in 231..1000
  BY MixedAssumption
<1>2. Within(1000, Mixed[x]) /\ Within(1000, 0) /\ Within(1000, 231) /\ Within(1000, 1000)
  BY <1>1 DEF Within
<1>3. Latency(x) \in {0, 231, 1000, Mixed[x]}
  BY DEF Latency
<1> QED
  BY <1>2, <1>3

\* What is measured is in thousandths.
LEMMA EvidenceBounded ==
  ASSUME Bag(before), Bag(current)
  PROVE  Measured([service |-> ServiceEvidence, edge |-> EdgeEvidence,
                   database |-> DatabaseEvidence])
<1>1. \A s \in Names : <<"emitted", s>> \in Streams /\ <<"inbound", s>> \in Streams
  BY DEF Streams
<1>2. /\ \A e \in EdgeNames : <<"edge", e>> \in Streams
      /\ <<"all", "events">> \in Streams
  BY DEF Streams
<1>3. {"failed", "timeout", "connect", "503", "database", "locked"} \subseteq Marks
  BY DEF Marks
<1>4. \A x \in Streams, m \in Marks : Within(1000, Increase(x, m))
  BY IncreaseBounded
<1>5. \A x \in Streams, m \in Marks : Within(1000, Rate(current, x, m))
  BY RateBounded
<1>6. \A x \in Streams : Within(1000, Latency(x))
  BY LatencyBounded
<1>7. ASSUME NEW s \in Names PROVE OfService(ServiceEvidence[s])
  <2> DEFINE x == <<"emitted", s>>
             y == <<"inbound", s>>
             a == Increase(x, "failed")
             b == Increase(y, "failed")
             c == Latency(x)
             d == Rate(current, x, "locked")
  <2>1. Within(1000, a) /\ Within(1000, b) /\ Within(1000, c) /\ Within(1000, d)
    BY <1>1, <1>3, <1>4, <1>5, <1>6
  <2>2. ServiceEvidence[s] = [emitted |-> a, inbound |-> b, latency |-> c, locked |-> d]
    BY DEF ServiceEvidence
  <2> HIDE DEF a, b, c, d
  <2> QED
    BY <2>1, <2>2 DEF OfService
<1>8. ASSUME NEW e \in EdgeNames PROVE OfEdge(EdgeEvidence[e])
  <2> DEFINE x == <<"edge", e>>
             a == Increase(x, "failed")
             b == Latency(x)
             c == Rate(current, x, "timeout")
             d == Rate(current, x, "connect")
             f == Rate(current, x, "503")
  <2>1. /\ Within(1000, a) /\ Within(1000, b) /\ Within(1000, c)
        /\ Within(1000, d) /\ Within(1000, f)
    BY <1>2, <1>3, <1>4, <1>5, <1>6
  <2>2. EdgeEvidence[e] = [failure |-> a, latency |-> b, timeout |-> c,
                           connection |-> d, status503 |-> f]
    BY DEF EdgeEvidence
  <2> HIDE DEF a, b, c, d, f
  <2> QED
    BY <2>1, <2>2 DEF OfEdge
<1>9. Within(1000, DatabaseEvidence.errors)
  BY <1>2, <1>3, <1>4 DEF DatabaseEvidence
<1>10. DatabaseEvidence.affected \in Nat
  <2> DEFINE S == {s \in Names : Count(current, <<"emitted", s>>, "failed") > 0}
  <2>1. IsFiniteSet(Names)
    BY NamesFinite
  <2>2. S \in SUBSET Names
    OBVIOUS
  <2>3. DatabaseEvidence.affected = Cardinality(S)
    BY DEF DatabaseEvidence
  <2> HIDE DEF S
  <2> QED
    BY <2>1, <2>2, <2>3, FS_Subset, FS_CardinalityType
<1> HIDE DEF ServiceEvidence, EdgeEvidence, DatabaseEvidence
<1>11. OfDatabase(DatabaseEvidence)
  BY <1>9, <1>10 DEF OfDatabase
<1> QED
  BY <1>7, <1>8, <1>11 DEF Measured

\* What the transport shows is in thousandths, too.
LEMMA TransportBounded ==
  ASSUME NEW v, OfEdge(v)
  PROVE  Within(1000, Transport(v)) /\ Within(1000, Unreached(v))
<1> DEFINE a == v.timeout
           b == v.connection
           c == v.status503
<1>1. Within(1000, a) /\ Within(1000, b) /\ Within(1000, c)
  BY DEF OfEdge
<1>2. Transport(v) = Max({a, b, c}) /\ Unreached(v) = Max({b, c})
  BY DEF Transport, Unreached
<1> HIDE DEF a, b, c
<1>3. IsFiniteSet({a, b, c}) /\ IsFiniteSet({b, c})
  BY FewAreFinite
<1>4. {a, b, c} \in SUBSET Int /\ {b, c} \in SUBSET Int
  BY <1>1 DEF Within
<1>5. Max({a, b, c}) \in {a, b, c} /\ Max({b, c}) \in {b, c}
  BY <1>3, <1>4, MaxIsGreatest
<1>6. \A k \in {a, b, c} : Within(1000, k)
  BY <1>1
<1>7. Max({b, c}) \in {a, b, c}
  BY <1>5
<1> QED
  BY <1>2, <1>5, <1>6, <1>7

\* A bonus is at most that of the first failure.
LEMMA BonusBounded ==
  /\ \A x : Within(50000, Bonus(x))
  /\ \A s : Within(50000, BonusOf(s))
<1>1. \A x : Within(50000, Bonus(x))
  BY DEF Bonus, Within
<1>2. ASSUME NEW s PROVE Within(50000, BonusOf(s))
  <2> DEFINE S == {Bonus(<<"emitted", s>>), Bonus(<<"inbound", s>>)}
  <2>1. \A k \in S : Within(50000, k)
    BY <1>1
  <2>2. IsFiniteSet(S)
    BY FewAreFinite
  <2>3. BonusOf(s) = Highest(S) /\ 50000 \in Nat
    BY DEF BonusOf
  <2> HIDE DEF S
  <2> QED
    BY <2>1, <2>2, <2>3, HighestBounded
<1> QED
  BY <1>1, <1>2

\* Of a million millionths and a bonus.
ScoreBound == 1050000

\* No candidate scores more.
LEMMA ScoresBounded ==
  /\ \A v : OfService(v) => Within(1000000, ServiceScore(v))
  /\ \A v : OfEdge(v) => Within(1000000, EdgeScore(v))
  /\ \A v : OfDatabase(v) => Within(1000000, DatabaseScore(v))
<1>1. ASSUME NEW v, OfService(v) PROVE Within(1000000, ServiceScore(v))
  BY <1>1 DEF ServiceScore, OfService, Within
<1>2. ASSUME NEW v, OfEdge(v) PROVE Within(1000000, EdgeScore(v))
  <2> DEFINE all == 650 * v.failure + 250 * v.latency + 100 * Transport(v)
  <2>1. Within(1000, Transport(v))
    BY <1>2, TransportBounded
  <2>2. Within(1000000, all)
    BY <1>2, <2>1 DEF OfEdge, Within
  <2>3. EdgeScore(v) = all \/ EdgeScore(v) = (72 * all) \div 100
    BY DEF EdgeScore
  <2> HIDE DEF all
  <2> QED
    BY <2>2, <2>3 DEF Within
<1>3. ASSUME NEW v, OfDatabase(v) PROVE Within(1000000, DatabaseScore(v))
  <2> DEFINE q == (1000 * v.affected) \div 3
             m == Min({1000, q})
  <2>1. q \in Nat
    BY <1>3 DEF OfDatabase
  <2>2. DatabaseScore(v) = 750 * v.errors + 250 * m
    BY DEF DatabaseScore
  <2> HIDE DEF q
  <2>3. Within(1000, m)
    <3>1. \E k \in {1000, q} : \A l \in {1000, q} : k <= l
      BY <2>1
    <3> QED
      BY <2>1, <3>1 DEF Min, Within
  <2> HIDE DEF m
  <2> QED
    BY <1>3, <2>2, <2>3 DEF OfDatabase, Within
<1> QED
  BY <1>1, <1>2, <1>3

-----------------------------------------------------------------------------
(* Localization: the rules decide                                          *)

\* k comes before l, or ties with it, by the first n coordinates.
Before(k, l, n) == \E i \in 1..n : k[i] > l[i] /\ \A j \in 1..(i - 1) : k[j] = l[j]
Alike(k, l, n) == \A j \in 1..n : k[j] = l[j]

\* Among keys of equal length there is one that no other comes before: of the
\* keys with the greatest first coordinate those with the greatest second one,
\* and so on.
LEMMA LeadingIs ==
  ASSUME NEW keys, IsFiniteSet(keys), keys # {}, NEW N \in Nat, N > 0,
         \A k \in keys : Len(k) = N /\ \A i \in 1..N : k[i] \in Int
  PROVE  /\ Leading(keys) \in keys
         /\ \A l \in keys : Before(Leading(keys), l, N) \/ Alike(Leading(keys), l, N)
<1> DEFINE Tops(n, K) == \A k \in K, l \in keys :
                            Before(k, l, n) \/ (Alike(k, l, n) /\ l \in K)
           Ok == {n \in Nat : n <= N => \E K \in SUBSET keys : K # {} /\ Tops(n, K)}
<1>1. 0 \in Ok
  <2>1. Tops(0, keys)
    BY DEF Alike
  <2> QED
    BY <2>1
<1>2. ASSUME NEW n \in Nat, n \in Ok PROVE n + 1 \in Ok
  <2> SUFFICES ASSUME n + 1 <= N
               PROVE  \E K \in SUBSET keys : K # {} /\ Tops(n + 1, K)
    <3> HIDE DEF Tops
    <3> QED
      OBVIOUS
  <2>1. PICK K \in SUBSET keys : K # {} /\ Tops(n, K)
    BY <1>2
  <2> DEFINE f == [k \in K |-> k[n + 1]]
  <2>2. IsFiniteSet(K) /\ Numbers(f, K)
    BY FS_Subset DEF Numbers
  <2>3. PICK top \in K : \A l \in K : f[top] >= f[l]
    <3> HIDE DEF f
    <3> QED
      BY <2>1, <2>2, GreatestExists
  <2> DEFINE L == {k \in K : k[n + 1] = top[n + 1]}
  <2>4. L \in SUBSET keys /\ L # {}
    BY <2>3
  <2>5. ASSUME NEW k \in L, NEW l \in keys
        PROVE  Before(k, l, n + 1) \/ (Alike(k, l, n + 1) /\ l \in L)
    <3>0. k \in K /\ k[n + 1] = top[n + 1] /\ k[n + 1] \in Int /\ l[n + 1] \in Int
      BY <2>1
    <3>1. CASE Before(k, l, n)
      <4>1. PICK i \in 1..n : k[i] > l[i] /\ \A j \in 1..(i - 1) : k[j] = l[j]
        BY <3>1 DEF Before
      <4>2. i \in 1..(n + 1)
        BY <4>1
      <4>3. Before(k, l, n + 1)
        BY <4>1, <4>2 DEF Before
      <4> QED
        BY <4>3
    <3>2. CASE Alike(k, l, n) /\ l \in K
      <4>1. k[n + 1] >= l[n + 1]
        BY <2>3, <3>0, <3>2
      <4>2. CASE k[n + 1] = l[n + 1]
        <5>1. Alike(k, l, n + 1)
          BY <3>2, <4>2 DEF Alike
        <5> QED
          BY <3>0, <3>2, <4>2, <5>1
      <4>3. CASE k[n + 1] > l[n + 1]
        <5>1. n + 1 \in 1..(n + 1) /\ (n + 1) - 1 = n
          OBVIOUS
        <5>2. Before(k, l, n + 1)
          BY <3>2, <4>3, <5>1 DEF Before, Alike
        <5> QED
          BY <5>2
      <4> QED
        BY <3>0, <4>1, <4>2, <4>3
    <3> QED
      BY <2>1, <3>0, <3>1, <3>2
  <2> HIDE DEF L
  <2>6. Tops(n + 1, L)
    BY <2>5
  <2> QED
    BY <2>4, <2>6
<1>3. Ok = Nat
  <2> HIDE DEF Ok
  <2>1. Ok \in SUBSET Nat
    BY DEF Ok
  <2> QED
    BY <1>1, <1>2, <2>1, LeastFailure
<1>4. PICK K \in SUBSET keys : K # {} /\ Tops(N, K)
  <2>1. N \in Ok
    BY <1>3
  <2> QED
    BY <2>1
<1>5. PICK k \in K : TRUE
  BY <1>4
<1>6. k \in keys /\ \A l \in keys : Before(k, l, N) \/ Alike(k, l, N)
  BY <1>4, <1>5
<1> DEFINE Leads(m) == \A l \in keys :
              \E i \in 1..Len(m) :
                /\ \A j \in 1..(i - 1) : m[j] = l[j]
                /\ m[i] > l[i] \/ (i = Len(m) /\ m[i] = l[i])
<1>7. ASSUME NEW m \in keys PROVE Leads(m) <=> \A l \in keys : Before(m, l, N) \/ Alike(m, l, N)
  <2>1. Len(m) = N
    OBVIOUS
  <2>2. ASSUME NEW l \in keys, Before(m, l, N) \/ Alike(m, l, N)
        PROVE  \E i \in 1..N : /\ \A j \in 1..(i - 1) : m[j] = l[j]
                               /\ m[i] > l[i] \/ (i = N /\ m[i] = l[i])
    <3>1. CASE Before(m, l, N)
      BY <3>1 DEF Before
    <3>2. CASE Alike(m, l, N)
      <4>1. N \in 1..N /\ m[N] = l[N] /\ \A j \in 1..(N - 1) : m[j] = l[j]
        BY <3>2 DEF Alike
      <4> QED
        BY <4>1
    <3> QED
      BY <2>2, <3>1, <3>2
  <2>3. ASSUME NEW l \in keys,
               \E i \in 1..N : /\ \A j \in 1..(i - 1) : m[j] = l[j]
                               /\ m[i] > l[i] \/ (i = N /\ m[i] = l[i])
        PROVE  Before(m, l, N) \/ Alike(m, l, N)
    <3>1. PICK i \in 1..N : /\ \A j \in 1..(i - 1) : m[j] = l[j]
                            /\ m[i] > l[i] \/ (i = N /\ m[i] = l[i])
      BY <2>3
    <3>2. CASE m[i] > l[i]
      BY <3>1, <3>2 DEF Before
    <3>3. CASE i = N /\ m[i] = l[i]
      BY <3>1, <3>3 DEF Alike
    <3> QED
      BY <3>1, <3>2, <3>3
  <2> QED
    BY <2>1, <2>2, <2>3
<1>8. Leads(k)
  BY <1>6, <1>7
<1>9. Leading(keys) = CHOOSE m \in keys : Leads(m)
  BY DEF Leading
<1> HIDE DEF Leads
<1>10. Leading(keys) \in keys /\ Leads(Leading(keys))
  BY <1>6, <1>8, <1>9
<1> QED
  BY <1>7, <1>10

\* Candidates have different names.
LEMMA CandidatesDiffer ==
  /\ DOMAIN Candidates = 1..14
  /\ \A i, j \in 1..14 : Candidates[i] = Candidates[j] => i = j
  /\ \A s \in Names : \E i \in 1..14 : Candidates[i] = s
  /\ \A e \in EdgeNames : \E i \in 1..14 : Candidates[i] = e
<1>1. DOMAIN Candidates = 1..14
  BY DEF Candidates
<1>2. \A i, j \in 1..14 : Candidates[i] = Candidates[j] => i = j
  BY DEF Candidates
<1>3. /\ Candidates[1] = "account" /\ Candidates[2] = "authentication"
      /\ Candidates[3] = "gateway" /\ Candidates[7] = "ledger"
      /\ Candidates[8] = "payment" /\ Candidates[11] = "transaction"
      /\ Candidates[4] = "gateway->account" /\ Candidates[5] = "gateway->authentication"
      /\ Candidates[6] = "gateway->transaction" /\ Candidates[9] = "payment->ledger"
      /\ Candidates[12] = "transaction->account" /\ Candidates[13] = "transaction->ledger"
      /\ Candidates[14] = "transaction->payment" /\ Candidates[10] = "postgresql"
  BY DEF Candidates
<1>4. \A s \in Names : \E i \in 1..14 : Candidates[i] = s
  BY <1>3 DEF Names
<1>5. \A e \in EdgeNames :
         e \in {"gateway->authentication", "gateway->account", "gateway->transaction",
                "transaction->account", "transaction->payment", "payment->ledger",
                "transaction->ledger"}
  BY OutcomesFinite DEF EdgeNames, EdgeOf
<1>6. \A e \in EdgeNames : \E i \in 1..14 : Candidates[i] = e
  BY <1>3, <1>5
<1> QED
  BY <1>1, <1>2, <1>4, <1>6

\* Where a candidate is in the list, there it is.
LEMMA PlaceIs ==
  ASSUME NEW c, c \in Names \/ c \in EdgeNames
  PROVE  Place(c) \in 1..14 /\ Candidates[Place(c)] = c
<1>1. \E i \in 1..14 : Candidates[i] = c
  BY CandidatesDiffer
<1> QED
  BY <1>1, CandidatesDiffer DEF Place

\* Whose calls there are.
LEMMA CallsAre ==
  /\ \A c \in 1..7 : Calls[c].from \in Names /\ Calls[c].to \in Names
  /\ \A s \in Names : Depth[s] \in 0..3
  /\ \A e \in EdgeNames : /\ CallOf[e] \in 1..7 /\ EdgeOf[CallOf[e]] = e
                          /\ Caller(e) \in Names /\ Callee(e) \in Names
<1>1. ASSUME NEW c \in 1..7 PROVE Calls[c].from \in Names /\ Calls[c].to \in Names
  <2>1. c = 1 \/ c = 2 \/ c = 3 \/ c = 4 \/ c = 5 \/ c = 6 \/ c = 7
    OBVIOUS
  <2> QED
    BY <2>1 DEF Calls, Names
<1>2. \A s \in Names : Depth[s] \in 0..3
  BY DEF Names, Depth
<1>3. ASSUME NEW e \in EdgeNames
      PROVE  CallOf[e] \in 1..7 /\ EdgeOf[CallOf[e]] = e
  <2>1. \E c \in DOMAIN Calls : EdgeOf[c] = e
    BY DEF EdgeNames
  <2>2. CallOf[e] = CHOOSE c \in DOMAIN Calls : EdgeOf[c] = e
    BY DEF CallOf
  <2> QED
    BY <2>1, <2>2, OutcomesFinite
<1>4. \A e \in EdgeNames : Caller(e) \in Names /\ Callee(e) \in Names
  BY <1>1, <1>3 DEF Caller, Callee
<1> QED
  BY <1>1, <1>2, <1>3, <1>4

\* A key that no other comes before is not less in the first coordinate.
LEMMA LeadsInFirst ==
  ASSUME NEW k, NEW l, NEW N \in Nat, N > 0, k[1] \in Int, l[1] \in Int,
         Before(k, l, N) \/ Alike(k, l, N)
  PROVE  k[1] >= l[1]
<1>1. CASE Before(k, l, N)
  <2>1. PICK i \in 1..N : k[i] > l[i] /\ \A j \in 1..(i - 1) : k[j] = l[j]
    BY <1>1 DEF Before
  <2>2. CASE i = 1
    BY <2>1, <2>2
  <2>3. CASE i # 1
    <3>1. 1 \in 1..(i - 1)
      BY <2>3
    <3> QED
      BY <2>1, <3>1
  <2> QED
    BY <2>2, <2>3
<1>2. CASE Alike(k, l, N)
  <2>1. 1 \in 1..N
    OBVIOUS
  <2> QED
    BY <1>2, <2>1 DEF Alike
<1> QED
  BY <1>1, <1>2

\* How well the calls into a service do not reach it, in thousandths.
LEMMA StrengthBounded ==
  ASSUME Measured(evidence), NEW s PROVE Within(1000, Strength(s))
<1> DEFINE f == [e \in Into(s) |-> Unreached(Edge(e))]
           S == {f[e] : e \in Into(s)}
<1>1. \A e \in Into(s) : e \in EdgeNames
  BY DEF Into
<1>2. IsFiniteSet(Into(s))
  BY <1>1, NamesFinite, FS_Subset
<1>3. \A e \in Into(s) : Within(1000, f[e])
  BY <1>1, TransportBounded DEF Measured, Edge
<1>4. Strength(s) = Highest(S)
  <2>1. S = {Unreached(Edge(e)) : e \in Into(s)}
    OBVIOUS
  <2> QED
    BY <2>1 DEF Strength
<1> HIDE DEF f
<1>5. IsFiniteSet(S) /\ \A k \in S : Within(1000, k)
  BY <1>2, <1>3, FiniteImage
<1> HIDE DEF S
<1>6. 1000 \in Nat
  OBVIOUS
<1> QED
  BY <1>4, <1>5, <1>6, HighestBounded

\* The rule for callees that cannot be reached picks one of them, and none that
\* is less deep than another.
LEMMA MostUnavailableIs ==
  ASSUME Measured(evidence), Unavailable # {}
  PROVE  /\ MostUnavailable \in Unavailable /\ MostUnavailable \in Names
         /\ \A s \in Unavailable : Depth[s] <= Depth[MostUnavailable]
<1> DEFINE f == [s \in Unavailable |-> <<Depth[s], Strength(s), Place(s)>>]
           keys == {f[s] : s \in Unavailable}
<1>1. \A s \in Unavailable : s \in Names
  BY DEF Unavailable
<1>2. IsFiniteSet(Unavailable)
  BY <1>1, NamesFinite, FS_Subset
<1>3. ASSUME NEW s \in Unavailable
      PROVE  /\ Depth[s] \in Int /\ Strength(s) \in Int /\ Place(s) \in Int
             /\ Candidates[Place(s)] = s
  BY <1>1, CallsAre, StrengthBounded, PlaceIs DEF Within
<1>4. ASSUME NEW s \in Unavailable
      PROVE  /\ Len(f[s]) = 3 /\ f[s][1] = Depth[s] /\ f[s][3] = Place(s)
             /\ \A i \in 1..3 : f[s][i] \in Int
  <2> DEFINE a == Depth[s]
             b == Strength(s)
             c == Place(s)
  <2>1. f[s] = <<a, b, c>>
    OBVIOUS
  <2>2. a \in Int /\ b \in Int /\ c \in Int
    BY <1>3
  <2> HIDE DEF f, a, b, c
  <2>3. f[s][1] = a /\ f[s][2] = b /\ f[s][3] = c /\ Len(f[s]) = 3
    BY <2>1
  <2>4. \A i \in 1..3 : i = 1 \/ i = 2 \/ i = 3
    OBVIOUS
  <2> QED
    BY <2>2, <2>3, <2>4 DEF a, c
<1>5. MostUnavailable = Candidates[Leading(keys)[3]]
  <2>1. keys = {<<Depth[s], Strength(s), Place(s)>> : s \in Unavailable}
    OBVIOUS
  <2> QED
    BY <2>1 DEF MostUnavailable
<1> HIDE DEF f
<1>6. IsFiniteSet(keys) /\ keys # {}
  BY <1>2, FiniteImage
<1>7. \A k \in keys : Len(k) = 3 /\ \A i \in 1..3 : k[i] \in Int
  BY <1>4
<1>8. /\ Leading(keys) \in keys
      /\ \A l \in keys : Before(Leading(keys), l, 3) \/ Alike(Leading(keys), l, 3)
  <2>1. 3 \in Nat /\ 3 > 0
    OBVIOUS
  <2> HIDE DEF keys
  <2> QED
    BY <1>6, <1>7, <2>1, LeadingIs
<1>9. PICK s \in Unavailable : Leading(keys) = f[s]
  BY <1>8
<1>10. MostUnavailable = s
  BY <1>3, <1>4, <1>5, <1>9
<1>11. ASSUME NEW t \in Unavailable PROVE Depth[t] <= Depth[s]
  <2>1. Before(f[s], f[t], 3) \/ Alike(f[s], f[t], 3)
    BY <1>8, <1>9
  <2>2. f[s][1] >= f[t][1]
    <3>1. 3 \in Nat /\ 3 > 0 /\ f[s][1] \in Int /\ f[t][1] \in Int
      BY <1>3, <1>4
    <3> QED
      BY <2>1, <3>1, LeadsInFirst
  <2> QED
    BY <1>3, <1>4, <2>2
<1> QED
  BY <1>1, <1>10, <1>11

\* The rule for dependencies that time out picks one of them, and none whose
\* caller is less deep than another's.
LEMMA DeepestTimedOutIs ==
  ASSUME Measured(evidence), TimedOut # {}
  PROVE  /\ DeepestTimedOut \in TimedOut /\ DeepestTimedOut \in EdgeNames
         /\ \A e \in TimedOut : Depth[Caller(e)] <= Depth[Caller(DeepestTimedOut)]
<1> DEFINE f == [e \in TimedOut |->
                   <<Depth[Caller(e)], Depth[Callee(e)], Edge(e).timeout, Place(e)>>]
           keys == {f[e] : e \in TimedOut}
<1>1. \A e \in TimedOut : e \in EdgeNames
  BY DEF TimedOut
<1>2. IsFiniteSet(TimedOut)
  BY <1>1, NamesFinite, FS_Subset
<1>3. ASSUME NEW e \in TimedOut
      PROVE  /\ Depth[Caller(e)] \in Int /\ Depth[Callee(e)] \in Int
             /\ Edge(e).timeout \in Int /\ Place(e) \in Int
             /\ Candidates[Place(e)] = e
  <2>1. Edge(e).timeout \in Int
    BY <1>1 DEF Measured, OfEdge, Within, Edge
  <2>2. Depth[Caller(e)] \in Int /\ Depth[Callee(e)] \in Int
    BY <1>1, CallsAre
  <2> QED
    BY <1>1, <2>1, <2>2, PlaceIs
<1>4. ASSUME NEW e \in TimedOut
      PROVE  /\ Len(f[e]) = 4 /\ f[e][1] = Depth[Caller(e)] /\ f[e][4] = Place(e)
             /\ \A i \in 1..4 : f[e][i] \in Int
  <2> DEFINE a == Depth[Caller(e)]
             b == Depth[Callee(e)]
             c == Edge(e).timeout
             d == Place(e)
  <2>1. f[e] = <<a, b, c, d>>
    OBVIOUS
  <2>2. a \in Int /\ b \in Int /\ c \in Int /\ d \in Int
    BY <1>3
  <2> HIDE DEF f, a, b, c, d
  <2>3. /\ f[e][1] = a /\ f[e][2] = b /\ f[e][3] = c /\ f[e][4] = d
        /\ Len(f[e]) = 4
    BY <2>1
  <2>4. \A i \in 1..4 : i = 1 \/ i = 2 \/ i = 3 \/ i = 4
    OBVIOUS
  <2> QED
    BY <2>2, <2>3, <2>4 DEF a, d
<1>5. DeepestTimedOut = Candidates[Leading(keys)[4]]
  <2>1. keys = {<<Depth[Caller(e)], Depth[Callee(e)], Edge(e).timeout, Place(e)>> :
                e \in TimedOut}
    OBVIOUS
  <2> QED
    BY <2>1 DEF DeepestTimedOut
<1> HIDE DEF f
<1>6. IsFiniteSet(keys) /\ keys # {}
  BY <1>2, FiniteImage
<1>7. \A k \in keys : Len(k) = 4 /\ \A i \in 1..4 : k[i] \in Int
  BY <1>4
<1>8. /\ Leading(keys) \in keys
      /\ \A l \in keys : Before(Leading(keys), l, 4) \/ Alike(Leading(keys), l, 4)
  <2>1. 4 \in Nat /\ 4 > 0
    OBVIOUS
  <2> HIDE DEF keys
  <2> QED
    BY <1>6, <1>7, <2>1, LeadingIs
<1>9. PICK e \in TimedOut : Leading(keys) = f[e]
  BY <1>8
<1>10. DeepestTimedOut = e
  BY <1>3, <1>4, <1>5, <1>9
<1>11. ASSUME NEW d \in TimedOut PROVE Depth[Caller(d)] <= Depth[Caller(e)]
  <2>1. Before(f[e], f[d], 4) \/ Alike(f[e], f[d], 4)
    BY <1>8, <1>9
  <2>2. f[e][1] >= f[d][1]
    <3>1. 4 \in Nat /\ 4 > 0 /\ f[e][1] \in Int /\ f[d][1] \in Int
      BY <1>3, <1>4
    <3> QED
      BY <2>1, <3>1, LeadsInFirst
  <2> QED
    BY <1>3, <1>4, <2>2
<1> QED
  BY <1>1, <1>10, <1>11

\* The candidate whose score is the greatest with what the rules add is ranked
\* first.
LEMMA GreatestLeads ==
  ASSUME \A i \in 1..14 : scores[i] \in Nat,
         NEW p \in 1..14, NEW v \in Nat,
         Boosts = {<<Candidates[p], v>>} \/ (Boosts = {} /\ v = 0),
         \A i \in 1..14 : i # p => scores[i] < scores[p] + v, Rank
  PROVE  ranking'[1] = Candidates[p]
<1> DEFINE Raise(i) == {b[2] : b \in {x \in Boosts : x[1] = Candidates[i]}}
           total == [i \in DOMAIN Candidates |-> scores[i] + Highest(Raise(i))]
           above(i) == {j \in DOMAIN Candidates :
                          total[j] > total[i] \/ (total[j] = total[i] /\ j < i)}
           Pick(n) == CHOOSE i \in DOMAIN Candidates : Cardinality(above(i)) = n - 1
<1>1. ranking' = [n \in 1..3 |-> Candidates[Pick(n)]]
  BY DEF Rank
<1>4. Highest({v}) = v /\ Highest({}) = 0
  <2>0. IsFiniteSet({v})
    BY FewAreFinite
  <2>1. {v} # {} /\ {v} \in SUBSET Int
    OBVIOUS
  <2>2. Max({v}) \in {v}
    BY <2>0, <2>1, MaxIsGreatest
  <2> QED
    BY <2>1, <2>2 DEF Highest
<1>2. Highest(Raise(p)) = v
  <2>1. CASE Boosts = {<<Candidates[p], v>>}
    <3> DEFINE one == <<Candidates[p], v>>
    <3>1. one[1] = Candidates[p] /\ one[2] = v
      OBVIOUS
    <3>2. Boosts = {one}
      BY <2>1
    <3> HIDE DEF one
    <3>3. {x \in Boosts : x[1] = Candidates[p]} = {one}
      BY <3>1, <3>2
    <3>4. {b[2] : b \in {one}} = {v}
      BY <3>1
    <3>5. Raise(p) = {v}
      BY <3>3, <3>4
    <3> QED
      BY <1>4, <3>5
  <2>2. CASE Boosts = {} /\ v = 0
    <3>1. Raise(p) = {}
      BY <2>2
    <3> QED
      BY <1>4, <2>2, <3>1
  <2> QED
    BY <2>1, <2>2
<1>3. ASSUME NEW i \in 1..14, i # p PROVE Highest(Raise(i)) = 0
  <2>1. Raise(i) = {}
    BY <1>3, CandidatesDiffer
  <2> QED
    BY <1>4, <2>1
<1>5. \A i \in 1..14 : total[i] = scores[i] + Highest(Raise(i))
  BY CandidatesDiffer
<1>6. \A i \in 1..14 : i # p => total[i] = scores[i] + 0
  BY <1>3, <1>5
<1>7. total[p] = scores[p] + v
  BY <1>2, <1>5
<1> HIDE DEF total, Raise
<1>8. \A i \in 1..14 : i # p => total[p] > total[i]
  BY <1>6, <1>7
<1>9. total[p] \in Int /\ \A i \in 1..14 : total[i] \in Int
  BY <1>6, <1>7
<1>10. above(p) = {}
  <2>1. ASSUME NEW j \in 1..14, total[j] > total[p] \/ (total[j] = total[p] /\ j < p)
        PROVE  FALSE
    BY <2>1, <1>8, <1>9
  <2> QED
    BY <2>1, CandidatesDiffer
<1>11. Cardinality(above(p)) = 0
  BY <1>10, FS_EmptySet
<1>12. ASSUME NEW i \in 1..14, i # p PROVE Cardinality(above(i)) # 0
  <2>1. p \in above(i)
    BY <1>8, <1>12, CandidatesDiffer
  <2>2. IsFiniteSet(1..14)
    <3>1. 1 \in Int /\ 14 \in Int
      OBVIOUS
    <3> QED
      BY <3>1, FS_Interval
  <2>3. above(i) \in SUBSET (1..14)
    BY CandidatesDiffer
  <2> HIDE DEF above
  <2> QED
    BY <2>1, <2>2, <2>3, FS_Subset, FS_EmptySet
<1> HIDE DEF above
<1>13. Pick(1) = p
  BY <1>11, <1>12, CandidatesDiffer
<1> HIDE DEF Pick
<1> QED
  BY <1>1, <1>13

\* The candidate that alone is boosted by more than any score is ranked first.
LEMMA BoostedLeads ==
  ASSUME \A i \in 1..14 : Within(ScoreBound, scores[i]),
         NEW p \in 1..14, NEW v \in Nat, v > ScoreBound,
         Boosts = {<<Candidates[p], v>>}, Rank
  PROVE  ranking'[1] = Candidates[p]
<1>1. \A i \in 1..14 : scores[i] \in Nat
  BY DEF Within
<1>2. \A i \in 1..14 : i # p => scores[i] < scores[p] + v
  BY DEF Within, ScoreBound
<1>3. Boosts = {<<Candidates[p], v>>} \/ (Boosts = {} /\ v = 0)
  OBVIOUS
<1> QED
  BY <1>1, <1>2, <1>3, GreatestLeads

\* What the first four rules say is ahead.
Ruled == DatabaseFails \/ BroadLoad \/ Unavailable # {} \/ TimedOut # {}

Lead ==
    IF DatabaseFails THEN "postgresql"
    ELSE IF BroadLoad THEN "gateway"
    ELSE IF Unavailable # {} THEN MostUnavailable
    ELSE DeepestTimedOut

\* It depends on the evidence only.
LEMMA LeadDepends == evidence' = evidence => Lead' = Lead /\ Ruled' = Ruled
BY DEF Lead, Ruled, DatabaseFails, BroadLoad, Unavailable, TimedOut, MostUnavailable,
       DeepestTimedOut, Service, Edge, Strength

\* It is boosted by more than any score, and nothing else is.
LEMMA LeadIsBoosted ==
  ASSUME Measured(evidence), Ruled
  PROVE  \E p \in 1..14, v \in Nat :
           v > ScoreBound /\ Boosts = {<<Candidates[p], v>>} /\ Lead = Candidates[p]
<1>1. CASE DatabaseFails
  <2>1. Candidates[10] = "postgresql"
    BY DEF Candidates
  <2>2. Boosts = {<<"postgresql", 3000000>>} /\ Lead = "postgresql"
    BY <1>1 DEF Boosts, Lead
  <2>3. 10 \in 1..14 /\ 3000000 \in Nat /\ 3000000 > ScoreBound
    BY DEF ScoreBound
  <2> QED
    BY <2>1, <2>2, <2>3
<1>2. CASE ~DatabaseFails /\ BroadLoad
  <2>1. Candidates[3] = "gateway"
    BY DEF Candidates
  <2>2. Boosts = {<<"gateway", 3000000>>} /\ Lead = "gateway"
    BY <1>2 DEF Boosts, Lead
  <2>3. 3 \in 1..14 /\ 3000000 \in Nat /\ 3000000 > ScoreBound
    BY DEF ScoreBound
  <2> QED
    BY <2>1, <2>2, <2>3
<1>3. CASE ~DatabaseFails /\ ~BroadLoad /\ Unavailable # {}
  <2>1. Place(MostUnavailable) \in 1..14 /\ Candidates[Place(MostUnavailable)] = MostUnavailable
    BY <1>3, MostUnavailableIs, PlaceIs
  <2>2. Boosts = {<<MostUnavailable, 2000000>>} /\ Lead = MostUnavailable
    BY <1>3 DEF Boosts, Lead
  <2>3. 2000000 \in Nat /\ 2000000 > ScoreBound
    BY DEF ScoreBound
  <2> QED
    BY <2>1, <2>2, <2>3
<1>4. CASE ~DatabaseFails /\ ~BroadLoad /\ Unavailable = {} /\ TimedOut # {}
  <2>1. Place(DeepestTimedOut) \in 1..14 /\ Candidates[Place(DeepestTimedOut)] = DeepestTimedOut
    BY <1>4, DeepestTimedOutIs, PlaceIs
  <2>2. Boosts = {<<DeepestTimedOut, 1300000>>} /\ Lead = DeepestTimedOut
    BY <1>4 DEF Boosts, Lead
  <2>3. 1300000 \in Nat /\ 1300000 > ScoreBound
    BY DEF ScoreBound
  <2> QED
    BY <2>1, <2>2, <2>3
<1> QED
  BY <1>1, <1>2, <1>3, <1>4 DEF Ruled

\* What is ahead is ranked first.
LEMMA RuledLeads ==
  ASSUME Measured(evidence), \A i \in 1..14 : Within(ScoreBound, scores[i]), Ruled, Rank
  PROVE  ranking'[1] = Lead
<1>1. PICK p \in 1..14, v \in Nat :
         v > ScoreBound /\ Boosts = {<<Candidates[p], v>>} /\ Lead = Candidates[p]
  BY LeadIsBoosted
<1>2. ranking'[1] = Candidates[p]
  BY <1>1, BoostedLeads
<1> QED
  BY <1>1, <1>2

\* The evidence and the scores are bounded once they are there, and the rules
\* have decided once there is a ranking.
RankInv ==
    /\ Bag(before) /\ Bag(current)
    /\ evidence # NoEvidence =>
         Measured(evidence) /\ \A i \in 1..14 : Within(ScoreBound, scores[i])
    /\ ranking # <<>> => evidence # NoEvidence /\ (Ruled => ranking[1] = Lead)

LEMMA RankInvInit == RankInit => RankInv
<1> SUFFICES ASSUME RankInit PROVE RankInv
  OBVIOUS
<1>1. Bag(Nobody)
  BY DEF Bag, Nobody
<1>2. Bag(before)
  <2>1. PICK n \in 0..MaxRefused :
           before = [Nobody EXCEPT ![Fine] = MaxBefore - n, ![Refused] = n]
    BY DEF RankInit
  <2>2. n \in Nat /\ MaxBefore - n \in Nat
    BY RankAssumption
  <2>3. \A o \in Outcomes : before[o] \in {MaxBefore - n, n, 0}
    BY <2>1 DEF Nobody
  <2>4. before = [o \in Outcomes |-> before[o]]
    BY <2>1 DEF Nobody
  <2>5. \A o \in Outcomes : before[o] \in Nat
    BY <2>2, <2>3
  <2> QED
    BY <2>4, <2>5 DEF Bag
<1> QED
  BY <1>1, <1>2 DEF RankInit, RankInv

LEMMA RankInvNext == RankInv /\ RankStep => RankInv'
<1> SUFFICES ASSUME RankInv, RankStep PROVE RankInv'
  OBVIOUS
<1>1. ASSUME NEW o \in {Fine, Refused, fault}, Happen(o) PROVE RankInv'
  <2>1. /\ evidence = NoEvidence /\ evidence' = evidence /\ ranking' = ranking
        /\ before' = before /\ current' = [current EXCEPT ![o] = @ + 1]
    BY <1>1 DEF Happen
  <2>2. current \in [Outcomes -> Nat]
    BY DEF RankInv, Bag
  <2>3. /\ current' = [p \in Outcomes |-> current'[p]]
        /\ \A p \in Outcomes : current'[p] \in {current[p], current[p] + 1}
    BY <2>1, <2>2
  <2>4. \A p \in Outcomes : current'[p] \in Nat
    BY <2>2, <2>3
  <2>5. Bag(current')
    BY <2>3, <2>4 DEF Bag
  <2> QED
    BY <2>1, <2>5 DEF RankInv
<1>2. CASE Measure
  <2>1. /\ evidence = NoEvidence /\ ranking' = ranking
        /\ before' = before /\ current' = current
        /\ evidence' = [service |-> ServiceEvidence, edge |-> EdgeEvidence,
                        database |-> DatabaseEvidence]
    BY <1>2 DEF Measure
  <2>2. Measured(evidence')
    BY <2>1, EvidenceBounded DEF RankInv
  <2>3. ASSUME NEW i \in 1..14 PROVE Within(ScoreBound, scores'[i])
    <3> DEFINE c == Candidates[i]
    <3>1. scores'[i] =
            IF c \in Names THEN ServiceScore(evidence'.service[c]) + BonusOf(c)
            ELSE IF c \in EdgeNames THEN EdgeScore(evidence'.edge[c]) + Bonus(<<"edge", c>>)
            ELSE DatabaseScore(evidence'.database) + Bonus(<<"all", "events">>)
      BY <1>2, CandidatesDiffer DEF Measure
    <3> HIDE DEF c
    <3>2. CASE c \in Names
      <4>1. Within(1000000, ServiceScore(evidence'.service[c]))
        BY <2>2, <3>2, ScoresBounded DEF Measured
      <4>2. Within(50000, BonusOf(c))
        BY BonusBounded
      <4> QED
        BY <3>1, <3>2, <4>1, <4>2 DEF Within, ScoreBound
    <3>3. CASE c \notin Names /\ c \in EdgeNames
      <4>1. Within(1000000, EdgeScore(evidence'.edge[c]))
        BY <2>2, <3>3, ScoresBounded DEF Measured
      <4>2. Within(50000, Bonus(<<"edge", c>>))
        BY BonusBounded
      <4> QED
        BY <3>1, <3>3, <4>1, <4>2 DEF Within, ScoreBound
    <3>4. CASE c \notin Names /\ c \notin EdgeNames
      <4>1. Within(1000000, DatabaseScore(evidence'.database))
        BY <2>2, ScoresBounded DEF Measured
      <4>2. Within(50000, Bonus(<<"all", "events">>))
        BY BonusBounded
      <4> QED
        BY <3>1, <3>4, <4>1, <4>2 DEF Within, ScoreBound
    <3> QED
      BY <3>2, <3>3, <3>4
  <2>4. Bag(before') /\ Bag(current') /\ ranking' = <<>>
    BY <2>1 DEF RankInv
  <2> QED
    BY <2>2, <2>3, <2>4 DEF RankInv
<1>3. CASE Rank
  <2>1. /\ evidence # NoEvidence /\ evidence' = evidence /\ scores' = scores
        /\ before' = before /\ current' = current
    BY <1>3 DEF Rank
  <2>2. Measured(evidence) /\ \A i \in 1..14 : Within(ScoreBound, scores[i])
    BY <2>1 DEF RankInv
  <2>3. ASSUME Ruled PROVE ranking'[1] = Lead
    BY <1>3, <2>2, <2>3, RuledLeads
  <2>4. Ruled' => ranking'[1] = Lead'
    BY <2>1, <2>3, LeadDepends
  <2>5. Bag(before') /\ Bag(current')
    BY <2>1 DEF RankInv
  <2>6. Measured(evidence') /\ \A i \in 1..14 : Within(ScoreBound, scores'[i])
    BY <2>1, <2>2
  <2> QED
    BY <2>1, <2>4, <2>5, <2>6 DEF RankInv
<1> QED
  BY <1>1, <1>2, <1>3 DEF RankStep

\* What is left alone stays as it was.
LEMMA RankInvStutters == RankInv /\ UNCHANGED rankVars => RankInv'
<1> SUFFICES ASSUME RankInv, UNCHANGED rankVars PROVE RankInv'
  OBVIOUS
<1>1. /\ before' = before /\ current' = current /\ evidence' = evidence
      /\ scores' = scores /\ ranking' = ranking
  BY DEF rankVars
<1>2. Lead' = Lead /\ Ruled' = Ruled
  BY <1>1, LeadDepends
<1>3. Bag(before') /\ Bag(current')
  BY <1>1 DEF RankInv
<1>4. evidence' # NoEvidence =>
        Measured(evidence') /\ \A i \in 1..14 : Within(ScoreBound, scores'[i])
  BY <1>1 DEF RankInv
<1> QED
  BY <1>1, <1>2, <1>3, <1>4 DEF RankInv

\* RankInv always holds.
LEMMA RankInvAlways == StudySpec => []RankInv
<1>1. StudyInit => RankInv
  BY RankInvInit DEF StudyInit
<1>2. RankInv /\ [StudyNext]_studyVars => RankInv'
  <2> SUFFICES ASSUME RankInv, [StudyNext]_studyVars PROVE RankInv'
    OBVIOUS
  <2>1. RankStep \/ UNCHANGED rankVars
    BY DEF StudyNext, studyVars
  <2> QED
    BY <2>1, RankInvNext, RankInvStutters
<1> QED
  BY <1>1, <1>2, PTL DEF StudySpec

\* Whatever the events of the two stretches are, and however many requests they
\* hold, the candidate that one of the first four rules of _causal_rerank picks
\* is the one reported first: no sum of other evidence outweighs it.
THEOREM LocalizationFollowsRules == StudySpec => []RulesDecide
<1>1. RankInv => RulesDecide
  BY DEF RankInv, RulesDecide, Ruled, Lead
<1> QED
  BY <1>1, RankInvAlways, PTL

\* To a study of runs, the localization adds nothing: its behaviours are those of
\* the research path and its runner, of which the theorems above hold.
THEOREM StudiesAreRuns == StudySpec => Spec
<1>1. StudyInit => Init
  BY DEF StudyInit
<1>2. [StudyNext]_studyVars => [Next]_vars
  BY DEF StudyNext, studyVars
<1> QED
  BY <1>1, <1>2, PTL DEF StudySpec, Spec

-----------------------------------------------------------------------------
(* Localization: the events of a request                                   *)

\* The troubles that a call may have.
Faults == (1..7) \X Troubles

\* Who calls whom, within which calls.
LEMMA CallTable ==
  /\ Calls[1].from = "gateway" /\ Calls[1].to = "authentication" /\ Calls[1].within = {}
  /\ Calls[2].from = "gateway" /\ Calls[2].to = "account" /\ Calls[2].within = {}
  /\ Calls[3].from = "gateway" /\ Calls[3].to = "transaction" /\ Calls[3].within = {}
  /\ Calls[4].from = "transaction" /\ Calls[4].to = "account" /\ Calls[4].within = {3}
  /\ Calls[5].from = "transaction" /\ Calls[5].to = "payment" /\ Calls[5].within = {3}
  /\ Calls[6].from = "payment" /\ Calls[6].to = "ledger" /\ Calls[6].within = {3, 5}
  /\ Calls[7].from = "transaction" /\ Calls[7].to = "ledger" /\ Calls[7].within = {3}
BY DEF Calls

\* A call is one of seven.
LEMMA SevenCalls ==
  \A c \in 1..7 : c = 1 \/ c = 2 \/ c = 3 \/ c = 4 \/ c = 5 \/ c = 6 \/ c = 7
OBVIOUS

\* No two calls have the same ends, or the same name.
LEMMA CallsDiffer ==
  /\ \A c, d \in 1..7 : Calls[c].from = Calls[d].from /\ Calls[c].to = Calls[d].to => c = d
  /\ \A c, d \in 1..7 : EdgeOf[c] = EdgeOf[d] => c = d
  /\ \A c \in 1..7 : EdgeOf[c] \in EdgeNames /\ CallOf[EdgeOf[c]] = c
<1>1. ASSUME NEW c \in 1..7, NEW d \in 1..7,
             Calls[c].from = Calls[d].from, Calls[c].to = Calls[d].to
      PROVE  c = d
  BY <1>1, CallTable, SevenCalls
<1>2. \A c, d \in 1..7 : EdgeOf[c] = EdgeOf[d] => c = d
  BY DEF EdgeOf
<1>3. ASSUME NEW c \in 1..7 PROVE EdgeOf[c] \in EdgeNames /\ CallOf[EdgeOf[c]] = c
  <2>1. EdgeOf[c] \in EdgeNames
    BY OutcomesFinite DEF EdgeNames
  <2>2. CallOf[EdgeOf[c]] \in 1..7 /\ EdgeOf[CallOf[EdgeOf[c]]] = EdgeOf[c]
    BY <2>1, CallsAre
  <2> QED
    BY <1>2, <2>1, <2>2
<1> QED
  BY <1>1, <1>2, <1>3

\* A fault is an outcome that is neither fine nor refused.
LEMMA FaultsAre ==
  ASSUME NEW o \in Faults
  PROVE  /\ o \in Outcomes /\ o # Fine /\ o # Refused
         /\ o[1] \in 1..7 /\ o[2] \in Troubles
         /\ Made(o) = 1..o[1] /\ Broken(o) = {o[1]} \cup Calls[o[1]].within
<1>1. o \in Outcomes /\ o[1] \in 1..7 /\ o[2] \in Troubles /\ o = <<o[1], o[2]>>
  BY OutcomesFinite DEF Faults, Outcomes
<1>2. o # Fine
  BY <1>1 DEF Fine
<1>3. o # Refused
  BY <1>1 DEF Refused, Troubles
<1>4. Made(o) = 1..o[1]
  BY <1>1, <1>2, OutcomesFinite DEF Made
<1> QED
  BY <1>1, <1>2, <1>3, <1>4 DEF Broken

\* The failing end of a call, and of those around it.
Upstream(c) == {"gateway"} \cup {Calls[d].from : d \in {c} \cup Calls[c].within}

\* The services that fail: these, and the callee if it is there to say so.
Hurt(o) ==
    IF o[2] \in {"timeout", "connect"} THEN Upstream(o[1])
    ELSE Upstream(o[1]) \cup {Calls[o[1]].to}

\* The callee of a call is no failing end of it, but those of the calls around it
\* are, and call further, for a service nearer to the root.
LEMMA UpstreamIs ==
  ASSUME NEW c \in 1..7
  PROVE  /\ Upstream(c) \subseteq {"gateway", "transaction", "payment"}
         /\ Calls[c].to \notin Upstream(c)
         /\ "payment" \in Upstream(c) => c = 6
         /\ \A d \in Calls[c].within :
              /\ d \in 1..7 /\ d < c /\ Calls[d].to \in Upstream(c)
              /\ Calls[d].to # Calls[c].to
              /\ Depth[Calls[d].from] < Depth[Calls[c].from]
<1>1. /\ Upstream(1) = {"gateway"} /\ Upstream(2) = {"gateway"} /\ Upstream(3) = {"gateway"}
      /\ Upstream(4) = {"gateway", "transaction"}
      /\ Upstream(5) = {"gateway", "transaction"}
      /\ Upstream(6) = {"gateway", "transaction", "payment"}
      /\ Upstream(7) = {"gateway", "transaction"}
  <2>1. {1} \cup Calls[1].within = {1}
    BY CallTable
  <2>2. {2} \cup Calls[2].within = {2}
    BY CallTable
  <2>3. {3} \cup Calls[3].within = {3}
    BY CallTable
  <2>4. {4} \cup Calls[4].within = {3, 4}
    BY CallTable
  <2>5. {5} \cup Calls[5].within = {3, 5}
    BY CallTable
  <2>6. {6} \cup Calls[6].within = {3, 5, 6}
    BY CallTable
  <2>7. {7} \cup Calls[7].within = {3, 7}
    BY CallTable
  <2>8. Upstream(1) = {"gateway"} /\ Upstream(2) = {"gateway"} /\ Upstream(3) = {"gateway"}
    BY <2>1, <2>2, <2>3, CallTable DEF Upstream
  <2>9. /\ Upstream(4) = {"gateway", "transaction"}
        /\ Upstream(5) = {"gateway", "transaction"}
        /\ Upstream(7) = {"gateway", "transaction"}
    BY <2>4, <2>5, <2>7, CallTable DEF Upstream
  <2>10. Upstream(6) = {"gateway", "transaction", "payment"}
    BY <2>6, CallTable DEF Upstream
  <2> QED
    BY <2>8, <2>9, <2>10
<1>2. Upstream(c) \subseteq {"gateway", "transaction", "payment"}
  BY <1>1, SevenCalls
<1>3. Calls[c].to \notin Upstream(c)
  BY <1>1, CallTable, SevenCalls
<1>4. "payment" \in Upstream(c) => c = 6
  BY <1>1, SevenCalls
<1>5. Depth["gateway"] = 0 /\ Depth["transaction"] = 1 /\ Depth["payment"] = 2
  BY DEF Depth
<1>6. ASSUME NEW d \in Calls[c].within
      PROVE  /\ d \in 1..7 /\ d < c /\ Calls[d].to \in Upstream(c)
             /\ Calls[d].to # Calls[c].to
             /\ Depth[Calls[d].from] < Depth[Calls[c].from]
  BY <1>1, <1>5, CallTable, SevenCalls
<1> QED
  BY <1>2, <1>3, <1>4, <1>6

\* What the callee of a call writes: failures only if the call is broken and the
\* callee there, words only if it is the origin.
LEMMA OwnIs ==
  ASSUME NEW o \in Outcomes, NEW d \in Made(o), NEW k \in DOMAIN OwnEvents(o, d)
  PROVE  LET e == OwnEvents(o, d)[k]
         IN  /\ e.of = Calls[d].to /\ e.to = "none"
             /\ e.failed => /\ d \in Broken(o)
                            /\ d = o[1] => o[2] \notin {"timeout", "connect"}
             /\ e.slow => e.failed /\ Slow(o)
             /\ e.word # "none" => /\ d = o[1] /\ o \in Faults /\ e.word = o[2]
                                   /\ o[2] \notin {"timeout", "connect"}
<1> DEFINE s == Calls[d].to
           ok == Event(s, "none", FALSE, "none", FALSE)
           ko(word, slow) == Event(s, "none", TRUE, word, slow)
           quick == ko("none", FALSE)
           late == ko("none", Slow(o))
           said == ko(o[2], Slow(o))
           e == OwnEvents(o, d)[k]
           Good(x) ==
             /\ x.of = s /\ x.to = "none"
             /\ x.failed => /\ d \in Broken(o)
                            /\ d = o[1] => o[2] \notin {"timeout", "connect"}
             /\ x.slow => x.failed /\ Slow(o)
             /\ x.word # "none" => /\ d = o[1] /\ o \in Faults /\ x.word = o[2]
                                   /\ o[2] \notin {"timeout", "connect"}
<1>1. CASE d \notin Broken(o)
  <2>1. OwnEvents(o, d) = <<ok, ok, ok>> \/ OwnEvents(o, d) = <<ok, ok>>
    BY <1>1 DEF OwnEvents
  <2>2. e = ok
    <3> HIDE DEF ok
    <3> QED
      BY <2>1
  <2>3. Good(ok)
    BY DEF Event
  <2> HIDE DEF ok, Good, e
  <2>4. Good(e)
    BY <2>2, <2>3
  <2> QED
    BY <2>4 DEF Good, e
<1>2. CASE d \in Broken(o) /\ d # o[1]
  <2>1. OwnEvents(o, d) = <<ok, quick, late>> \/ OwnEvents(o, d) = <<late>>
    BY <1>2 DEF OwnEvents
  <2>2. e = ok \/ e = quick \/ e = late
    <3> HIDE DEF ok, quick, late
    <3> QED
      BY <2>1
  <2>3. Good(ok) /\ Good(quick) /\ Good(late)
    BY <1>2 DEF Event
  <2> HIDE DEF ok, quick, late, Good, e
  <2>4. Good(e)
    BY <2>2, <2>3
  <2> QED
    BY <2>4 DEF Good, e
<1>3. CASE d \in Broken(o) /\ d = o[1] /\ o[2] \in {"timeout", "connect"}
  <2>1. OwnEvents(o, d) = <<>>
    BY <1>3 DEF OwnEvents
  <2> QED
    BY <2>1
<1>4. CASE d \in Broken(o) /\ d = o[1] /\ o = Refused
  <2>1. OwnEvents(o, d) = <<quick, quick>>
    BY <1>4 DEF OwnEvents, Refused
  <2>2. e = quick
    <3> HIDE DEF quick
    <3> QED
      BY <2>1
  <2>3. Good(quick)
    BY <1>4 DEF Event, Refused
  <2> HIDE DEF quick, Good, e
  <2>4. Good(e)
    BY <2>2, <2>3
  <2> QED
    BY <2>4 DEF Good, e
<1>5. CASE d \in Broken(o) /\ d = o[1] /\ o # Refused /\ o[2] \notin {"timeout", "connect"}
  <2>1. OwnEvents(o, d) = <<said>>
    BY <1>5 DEF OwnEvents
  <2>2. e = said
    <3> HIDE DEF said
    <3> QED
      BY <2>1
  <2>3. o \in Faults
    BY <1>5, OutcomesFinite DEF Outcomes, Faults, Broken
  <2>4. Good(said)
    BY <1>5, <2>3 DEF Event
  <2> HIDE DEF said, Good, e
  <2>5. Good(e)
    BY <2>2, <2>4
  <2> QED
    BY <2>5 DEF Good, e
<1> QED
  BY <1>1, <1>2, <1>3, <1>4, <1>5

\* What is written at the origin.
LEMMA OriginWrites ==
  ASSUME NEW o \in Faults
  PROVE  IF o[2] \in {"timeout", "connect"} THEN OwnEvents(o, o[1]) = <<>>
         ELSE OwnEvents(o, o[1]) = <<Event(Calls[o[1]].to, "none", TRUE, o[2], Slow(o))>>
BY FaultsAre DEF OwnEvents

\* What the caller writes of a call.
CallRow(o, d) ==
    Row(10 * d, Event(Calls[d].from, Calls[d].to, d \in Broken(o),
                      IF d \in Broken(o) THEN Word(o, d) ELSE "none",
                      d \in Broken(o) /\ Slow(o)))

\* An event is one of the gateway about the request, of a caller about a call, or
\* of its callee.
LEMMA EventIs ==
  ASSUME NEW o \in Outcomes, NEW r \in EventsOf[o]
  PROVE  \/ /\ r.event.of = "gateway" /\ r.event.to = "none" /\ r.event.word = "none"
            /\ r.event.failed => o # Fine
            /\ r.event.slow => r.event.failed /\ Slow(o)
         \/ \E d \in Made(o) : r = CallRow(o, d)
         \/ \E d \in Made(o) : \E k \in DOMAIN OwnEvents(o, d) :
               r = Row(10 * d + k, OwnEvents(o, d)[k])
<1>1. CASE r \in OfGateway(o)
  <2> DEFINE e(failed, slow) == Event("gateway", "none", failed, "none", slow)
             came == e(FALSE, FALSE)
             went == e(o # Fine, FALSE)
             done == e(o # Fine, Slow(o))
             Good(x) == /\ x.of = "gateway" /\ x.to = "none" /\ x.word = "none"
                        /\ x.failed => o # Fine
                        /\ x.slow => x.failed /\ Slow(o)
  <2>1. r = Row(1, came) \/ r = Row(2, went) \/ r = Row(3, done)
    BY <1>1 DEF OfGateway
  <2>2. Slow(o) => o # Fine
    BY DEF Slow, Fine
  <2>3. r.event = came \/ r.event = went \/ r.event = done
    <3> HIDE DEF came, went, done
    <3> QED
      BY <2>1 DEF Row
  <2>4. Good(came)
    BY DEF Event
  <2>5. Good(went)
    BY DEF Event
  <2>6. Good(done)
    BY <2>2 DEF Event
  <2> HIDE DEF came, went, done, Good
  <2>7. Good(r.event)
    BY <2>3, <2>4, <2>5, <2>6
  <2> QED
    BY <2>7 DEF Good
<1>2. CASE r \in CallEvents(o)
  <2>1. \E d \in Made(o) : r = CallRow(o, d)
    BY <1>2 DEF CallEvents, CallRow
  <2> QED
    BY <2>1
<1>3. CASE r \in UNION {Own(o, d) : d \in Made(o)}
  <2>1. PICK d \in Made(o) : r \in Own(o, d)
    BY <1>3
  <2>2. PICK k \in DOMAIN OwnEvents(o, d) : r = Row(10 * d + k, OwnEvents(o, d)[k])
    BY <2>1 DEF Own
  <2> QED
    BY <2>2
<1>4. EventsOf[o] = OfGateway(o) \cup CallEvents(o) \cup UNION {Own(o, d) : d \in Made(o)}
  BY DEF EventsOf
<1> QED
  BY <1>1, <1>2, <1>3, <1>4

\* What shows of a call in the event of its caller.
LEMMA CallRowIs ==
  ASSUME NEW o \in Outcomes, NEW d \in Made(o)
  PROVE  LET e == CallRow(o, d).event
         IN  /\ e.of = Calls[d].from /\ e.to = Calls[d].to
             /\ e.failed <=> d \in Broken(o)
             /\ e.slow <=> d \in Broken(o) /\ Slow(o)
             /\ e.word = IF d \in Broken(o) THEN Word(o, d) ELSE "none"
             /\ CallRow(o, d) \in EventsOf[o]
<1>1. CallRow(o, d) \in CallEvents(o)
  BY DEF CallEvents, CallRow
<1>2. CallRow(o, d) \in EventsOf[o]
  BY <1>1 DEF EventsOf
<1> QED
  BY <1>2 DEF CallRow, Row, Event

\* Nothing fails in a request that goes well.
LEMMA FineEvents ==
  ASSUME NEW r \in EventsOf[Fine]
  PROVE  ~r.event.failed /\ ~r.event.slow /\ r.event.word = "none"
<1>0. Fine \in Outcomes /\ Broken(Fine) = {} /\ Fine \notin Faults
  BY FaultsAre DEF Outcomes, Broken
<1>1. CASE /\ r.event.word = "none"
           /\ r.event.failed => Fine # Fine
           /\ r.event.slow => r.event.failed /\ Slow(Fine)
  BY <1>1
<1>2. ASSUME NEW d \in Made(Fine), r = CallRow(Fine, d)
      PROVE  ~r.event.failed /\ ~r.event.slow /\ r.event.word = "none"
  BY <1>0, <1>2, CallRowIs
<1>3. ASSUME NEW d \in Made(Fine), NEW k \in DOMAIN OwnEvents(Fine, d),
             r = Row(10 * d + k, OwnEvents(Fine, d)[k])
      PROVE  ~r.event.failed /\ ~r.event.slow /\ r.event.word = "none"
  <2> DEFINE e == OwnEvents(Fine, d)[k]
  <2>1. /\ e.failed => d \in Broken(Fine)
        /\ e.slow => e.failed
        /\ e.word # "none" => Fine \in Faults
    BY <1>0, OwnIs
  <2>2. r.event = e
    BY <1>3 DEF Row
  <2> HIDE DEF e
  <2> QED
    BY <1>0, <2>1, <2>2
<1> QED
  BY <1>0, <1>1, <1>2, <1>3, EventIs

\* Who fails in a request that a fault hits, which words say so, and that calls
\* are what their callers write of them.
LEMMA FaultEvents ==
  ASSUME NEW o \in Faults, NEW r \in EventsOf[o]
  PROVE  /\ r.event.failed => r.event.of \in Hurt(o)
         /\ r.event.slow => r.event.failed /\ Slow(o)
         /\ r.event.word \notin {"any", "failed", "slow"}
         /\ r.event.word = "database" => o[2] = "database"
         /\ r.event.word = "locked" => o[2] = "locked"
         /\ r.event.word = "timeout" => Slow(o)
         /\ r.event.word = "connect" => o[2] = "connect" /\ r = CallRow(o, o[1])
         /\ r.event.word = "503" =>
              \/ o[2] = "connect" /\ o[1] \in {4, 5, 7} /\ r = CallRow(o, 3)
              \/ o[2] = "unavailable" /\ r = CallRow(o, o[1])
         /\ r.event.to # "none" => \E d \in Made(o) : r = CallRow(o, d)
<1> DEFINE Good(q) ==
         /\ q.event.failed => q.event.of \in Hurt(o)
         /\ q.event.slow => q.event.failed /\ Slow(o)
         /\ q.event.word \notin {"any", "failed", "slow"}
         /\ q.event.word = "database" => o[2] = "database"
         /\ q.event.word = "locked" => o[2] = "locked"
         /\ q.event.word = "timeout" => Slow(o)
         /\ q.event.word = "connect" => o[2] = "connect" /\ q = CallRow(o, o[1])
         /\ q.event.word = "503" =>
              \/ o[2] = "connect" /\ o[1] \in {4, 5, 7} /\ q = CallRow(o, 3)
              \/ o[2] = "unavailable" /\ q = CallRow(o, o[1])
         /\ q.event.to # "none" => \E d \in Made(o) : q = CallRow(o, d)
<1>0. /\ o \in Outcomes /\ o[1] \in 1..7 /\ o[2] \in Troubles
      /\ Broken(o) = {o[1]} \cup Calls[o[1]].within
  BY FaultsAre
<1>1. "gateway" \in Hurt(o) /\ \A d \in Broken(o) : Calls[d].from \in Hurt(o)
  BY <1>0 DEF Hurt, Upstream
<1>2. \A d \in Broken(o) : d # o[1] => Calls[d].to \in Hurt(o)
  BY <1>0, UpstreamIs DEF Hurt
<1>3. o[2] \notin {"timeout", "connect"} => Calls[o[1]].to \in Hurt(o)
  BY DEF Hurt
<1>4. CASE /\ r.event.of = "gateway" /\ r.event.to = "none" /\ r.event.word = "none"
           /\ r.event.slow => r.event.failed /\ Slow(o)
  BY <1>1, <1>4
<1>5. ASSUME NEW d \in Made(o), r = CallRow(o, d) PROVE Good(r)
  <2>1. /\ r.event.of = Calls[d].from
        /\ r.event.failed <=> d \in Broken(o)
        /\ r.event.slow <=> d \in Broken(o) /\ Slow(o)
        /\ r.event.word = IF d \in Broken(o) THEN Word(o, d) ELSE "none"
    BY <1>0, <1>5, CallRowIs
  <2>2. /\ Word(o, d) \in {"timeout", "connect", "503", "none"}
        /\ Word(o, d) = "timeout" => Slow(o)
        /\ Word(o, d) = "connect" => o[2] = "connect" /\ d = o[1]
        /\ Word(o, d) = "503" => \/ o[2] = "connect" /\ o[1] \in {4, 5, 7} /\ d = 3
                                 \/ o[2] = "unavailable" /\ d = o[1]
    BY DEF Word
  <2>3. \E c \in Made(o) : r = CallRow(o, c)
    BY <1>5
  <2>4. /\ r.event.failed => r.event.of \in Hurt(o)
        /\ r.event.slow => r.event.failed /\ Slow(o)
    BY <1>1, <2>1
  <2>5. /\ r.event.word \in {"timeout", "connect", "503", "none"}
        /\ r.event.word = "timeout" => Slow(o)
        /\ r.event.word = "connect" => o[2] = "connect" /\ d = o[1]
        /\ r.event.word = "503" => \/ o[2] = "connect" /\ o[1] \in {4, 5, 7} /\ d = 3
                                   \/ o[2] = "unavailable" /\ d = o[1]
    BY <2>1, <2>2
  <2>6. r.event.word \notin {"any", "failed", "slow"} /\ r.event.word # "database"
        /\ r.event.word # "locked"
    BY <2>5
  <2>7. r.event.word = "connect" => o[2] = "connect" /\ r = CallRow(o, o[1])
    BY <1>5, <2>5
  <2>8. r.event.word = "503" =>
              \/ o[2] = "connect" /\ o[1] \in {4, 5, 7} /\ r = CallRow(o, 3)
              \/ o[2] = "unavailable" /\ r = CallRow(o, o[1])
    BY <1>5, <2>5
  <2> QED
    BY <2>3, <2>4, <2>5, <2>6, <2>7, <2>8
<1>6. ASSUME NEW d \in Made(o), NEW k \in DOMAIN OwnEvents(o, d),
             r = Row(10 * d + k, OwnEvents(o, d)[k])
      PROVE  Good(r)
  <2> DEFINE e == OwnEvents(o, d)[k]
  <2>1. /\ e.of = Calls[d].to /\ e.to = "none"
        /\ e.failed => /\ d \in Broken(o)
                       /\ d = o[1] => o[2] \notin {"timeout", "connect"}
        /\ e.slow => e.failed /\ Slow(o)
        /\ e.word # "none" => /\ d = o[1] /\ o \in Faults /\ e.word = o[2]
                              /\ o[2] \notin {"timeout", "connect"}
    BY <1>0, OwnIs
  <2>2. r.event = e
    BY <1>6 DEF Row
  <2> HIDE DEF e
  <2>3. e.failed => e.of \in Hurt(o)
    BY <1>2, <1>3, <2>1
  <2>4. e.word # "none" =>
          e.word = o[2] /\ e.word \in {"error", "unavailable", "database", "locked", "late"}
    BY <1>0, <2>1 DEF Troubles
  <2> QED
    BY <2>1, <2>2, <2>3, <2>4
<1>7. Good(r)
  <2>1. \/ /\ r.event.of = "gateway" /\ r.event.to = "none" /\ r.event.word = "none"
           /\ r.event.failed => o # Fine
           /\ r.event.slow => r.event.failed /\ Slow(o)
        \/ \E d \in Made(o) : r = CallRow(o, d)
        \/ \E d \in Made(o) : \E k \in DOMAIN OwnEvents(o, d) :
               r = Row(10 * d + k, OwnEvents(o, d)[k])
    BY <1>0, EventIs
  <2>2. ASSUME /\ r.event.of = "gateway" /\ r.event.to = "none" /\ r.event.word = "none"
               /\ r.event.slow => r.event.failed /\ Slow(o)
        PROVE  Good(r)
    BY <1>1, <2>2
  <2> HIDE DEF Good
  <2> QED
    BY <1>5, <1>6, <2>1, <2>2
<1> QED
  BY <1>7 DEF Good

\* Which events a stream holds.
LEMMA StreamsAre ==
  ASSUME NEW e
  PROVE  /\ \A s : In(e, <<"emitted", s>>) <=> e.of = s
         /\ \A s : In(e, <<"inbound", s>>) <=> e.to = s
         /\ \A c \in 1..7 : In(e, <<"edge", EdgeOf[c]>>) <=>
                              Calls[c].from = e.of /\ Calls[c].to = e.to
         /\ In(e, <<"all", "events">>)
<1>1. \A s : In(e, <<"emitted", s>>) <=> e.of = s
  BY DEF In
<1>2. \A s : In(e, <<"inbound", s>>) <=> e.to = s
  BY DEF In
<1>3. ASSUME NEW c \in 1..7
      PROVE  In(e, <<"edge", EdgeOf[c]>>) <=> Calls[c].from = e.of /\ Calls[c].to = e.to
  <2>1. In(e, <<"edge", EdgeOf[c]>>) <=>
          \E d \in 1..7 : EdgeOf[d] = EdgeOf[c] /\ Calls[d].from = e.of /\ Calls[d].to = e.to
    BY OutcomesFinite DEF In
  <2> QED
    BY <2>1, CallsDiffer
<1>4. In(e, <<"all", "events">>)
  BY DEF In
<1> QED
  BY <1>1, <1>2, <1>3, <1>4

-----------------------------------------------------------------------------
(* Localization: the tallies of a request                                  *)

\* The events that a tally counts.
Rows(o, x, m) == {r \in EventsOf[o] : In(r.event, x) /\ Marked(r.event, m)}

LEMMA RowsAre ==
  ASSUME NEW o \in Outcomes, NEW x \in Streams, NEW m \in Marks
  PROVE  /\ Tally[o][x][m] = Cardinality(Rows(o, x, m)) /\ Tally[o][x][m] \in Nat
         /\ IsFiniteSet(Rows(o, x, m))
         /\ Rows(o, x, m) = {} => Tally[o][x][m] = 0
<1>1. Tally[o][x][m] = Cardinality(Rows(o, x, m))
  BY DEF Tally, Rows
<1>2. IsFiniteSet(Rows(o, x, m))
  BY EventsFinite, FS_Subset DEF Rows
<1> QED
  BY <1>1, <1>2, FS_CardinalityType, FS_EmptySet

\* There are these streams and marks.
LEMMA StreamsHave ==
  /\ \A s \in Names : <<"emitted", s>> \in Streams /\ <<"inbound", s>> \in Streams
  /\ \A e \in EdgeNames : <<"edge", e>> \in Streams
  /\ <<"all", "events">> \in Streams
  /\ {"any", "failed", "slow", "timeout", "connect", "503", "database", "locked"} = Marks
BY DEF Streams, Marks

\* Nothing has a mark in a request that goes well.
LEMMA FineTally ==
  ASSUME NEW x \in Streams, NEW m \in Marks, m # "any"
  PROVE  Tally[Fine][x][m] = 0
<1>1. "none" \notin Marks /\ Fine \in Outcomes
  BY DEF Marks, Outcomes
<1>2. Rows(Fine, x, m) = {}
  BY <1>1, FineEvents DEF Rows, Marked
<1> QED
  BY <1>1, <1>2, RowsAre

\* Services that do not fail emit no failures, and are not slow.
LEMMA SoundTally ==
  ASSUME NEW o \in Faults, NEW s \in Names, s \notin Hurt(o)
  PROVE  /\ Tally[o][<<"emitted", s>>]["failed"] = 0
         /\ Tally[o][<<"emitted", s>>]["slow"] = 0
<1>1. Rows(o, <<"emitted", s>>, "failed") = {} /\ Rows(o, <<"emitted", s>>, "slow") = {}
  <2>1. ASSUME NEW r \in EventsOf[o], In(r.event, <<"emitted", s>>)
        PROVE  ~Marked(r.event, "failed") /\ ~Marked(r.event, "slow")
    <3>1. r.event.of = s
      BY <2>1, StreamsAre
    <3> QED
      BY <3>1, FaultEvents DEF Marked
  <2> QED
    BY <2>1 DEF Rows
<1> QED
  BY <1>1, FaultsAre, RowsAre, StreamsHave

\* Without a timeout, nothing waits for one.
LEMMA QuickTally ==
  ASSUME NEW o \in Faults, ~Slow(o), NEW x \in Streams
  PROVE  Tally[o][x]["slow"] = 0 /\ Tally[o][x]["timeout"] = 0
<1>1. Rows(o, x, "slow") = {} /\ Rows(o, x, "timeout") = {}
  BY FaultEvents DEF Rows, Marked
<1> QED
  BY <1>1, FaultsAre, RowsAre, StreamsHave

\* Of the words, each is that of some troubles only.
LEMMA WordTally ==
  ASSUME NEW o \in Faults, NEW x \in Streams
  PROVE  /\ o[2] # "database" => Tally[o][x]["database"] = 0
         /\ o[2] # "locked" => Tally[o][x]["locked"] = 0
         /\ o[2] # "connect" => Tally[o][x]["connect"] = 0
         /\ o[2] \notin {"connect", "unavailable"} => Tally[o][x]["503"] = 0
<1>1. o[2] # "database" => Rows(o, x, "database") = {}
  BY FaultEvents DEF Rows, Marked
<1>2. o[2] # "locked" => Rows(o, x, "locked") = {}
  BY FaultEvents DEF Rows, Marked
<1>3. o[2] # "connect" => Rows(o, x, "connect") = {}
  BY FaultEvents DEF Rows, Marked
<1>4. o[2] \notin {"connect", "unavailable"} => Rows(o, x, "503") = {}
  BY FaultEvents DEF Rows, Marked
<1> QED
  BY <1>1, <1>2, <1>3, <1>4, FaultsAre, RowsAre, StreamsHave

\* What is about a call is what its caller writes of it.
LEMMA CallsShow ==
  ASSUME NEW o \in Outcomes, NEW r \in EventsOf[o], r.event.to # "none"
  PROVE  \E d \in Made(o) : r = CallRow(o, d) /\ r.event.of = Calls[d].from
                            /\ r.event.to = Calls[d].to
<1>1. ASSUME NEW d \in Made(o), NEW k \in DOMAIN OwnEvents(o, d),
             r = Row(10 * d + k, OwnEvents(o, d)[k])
      PROVE  FALSE
  <2> DEFINE e == OwnEvents(o, d)[k]
  <2>1. e.to = "none"
    BY OwnIs
  <2>2. r.event = e
    BY <1>1 DEF Row
  <2> HIDE DEF e
  <2> QED
    BY <2>1, <2>2
<1>2. PICK d \in Made(o) : r = CallRow(o, d)
  BY <1>1, EventIs
<1> QED
  BY <1>2, CallRowIs

\* Calls have callees.
LEMMA CalleesAre == \A c \in 1..7 : Calls[c].to # "none" /\ Calls[c].to # "gateway"
BY CallTable, SevenCalls

\* The stream of a dependency holds what its caller writes of the call.
LEMMA EdgeTally ==
  ASSUME NEW o \in Outcomes, NEW c \in 1..7, NEW m \in Marks
  PROVE  /\ Tally[o][<<"edge", EdgeOf[c]>>]["any"] <= 1
         /\ c \in Made(o) /\ Marked(CallRow(o, c).event, m) =>
              Tally[o][<<"edge", EdgeOf[c]>>][m] = 1
         /\ ~(c \in Made(o) /\ Marked(CallRow(o, c).event, m)) =>
              Tally[o][<<"edge", EdgeOf[c]>>][m] = 0
<1> DEFINE x == <<"edge", EdgeOf[c]>>
           one == CallRow(o, c)
<1>1. x \in Streams /\ "any" \in Marks
  BY CallsDiffer, StreamsHave
<1>2. ASSUME NEW r \in EventsOf[o], In(r.event, x) PROVE c \in Made(o) /\ r = one
  <2>1. Calls[c].from = r.event.of /\ Calls[c].to = r.event.to
    BY <1>2, StreamsAre
  <2>2. r.event.to # "none"
    BY <2>1, CalleesAre
  <2>3. PICK d \in Made(o) : r = CallRow(o, d) /\ r.event.of = Calls[d].from
                             /\ r.event.to = Calls[d].to
    BY <2>2, CallsShow
  <2>4. d \in 1..7
    BY OutcomesFinite DEF Made
  <2>5. d = c
    BY <2>1, <2>3, <2>4, CallsDiffer
  <2> QED
    BY <2>3, <2>5
<1>3. c \in Made(o) => one \in EventsOf[o] /\ In(one.event, x)
  BY CallRowIs, StreamsAre
<1> HIDE DEF x, one
<1>4. \A k \in Marks : /\ c \in Made(o) /\ Marked(one.event, k) => Rows(o, x, k) = {one}
                       /\ ~(c \in Made(o) /\ Marked(one.event, k)) => Rows(o, x, k) = {}
  BY <1>2, <1>3 DEF Rows
<1>5. Cardinality({one}) = 1
  BY FS_Singleton
<1>6. \A k \in Marks :
         /\ c \in Made(o) /\ Marked(one.event, k) => Tally[o][x][k] = 1
         /\ ~(c \in Made(o) /\ Marked(one.event, k)) => Tally[o][x][k] = 0
  <2> SUFFICES ASSUME NEW k \in Marks
               PROVE  /\ c \in Made(o) /\ Marked(one.event, k) => Tally[o][x][k] = 1
                      /\ ~(c \in Made(o) /\ Marked(one.event, k)) => Tally[o][x][k] = 0
    OBVIOUS
  <2>1. /\ Tally[o][x][k] = Cardinality(Rows(o, x, k))
        /\ Rows(o, x, k) = {} => Tally[o][x][k] = 0
    BY <1>1, RowsAre
  <2>2. CASE c \in Made(o) /\ Marked(one.event, k)
    <3>1. Rows(o, x, k) = {one}
      BY <1>4, <2>2
    <3>2. Tally[o][x][k] = 1
      BY <1>5, <2>1, <3>1
    <3> QED
      BY <2>2, <3>2
  <2>3. CASE ~(c \in Made(o) /\ Marked(one.event, k))
    <3>1. Rows(o, x, k) = {}
      BY <1>4, <2>3
    <3>2. Tally[o][x][k] = 0
      BY <2>1, <3>1
    <3> QED
      BY <2>3, <3>2
  <2> QED
    BY <2>2, <2>3
<1>7. Tally[o][x]["any"] <= 1
  BY <1>1, <1>6
<1> QED
  BY <1>6, <1>7 DEF x, one

\* A call that is broken was made.
LEMMA BrokenAreMade ==
  ASSUME NEW o \in Faults, NEW d \in Broken(o)
  PROVE  d \in Made(o) /\ d \in 1..7
<1>1. o[1] \in 1..7 /\ Made(o) = 1..o[1] /\ Broken(o) = {o[1]} \cup Calls[o[1]].within
  BY FaultsAre
<1>2. d \in 1..7 /\ d <= o[1]
  BY <1>1, UpstreamIs
<1> QED
  BY <1>1, <1>2

\* Nothing fails in calls to a service unless a call to it is broken.
LEMMA InboundTally ==
  ASSUME NEW o \in Faults, NEW t \in Names
  PROVE  /\ (\A d \in Broken(o) : Calls[d].to # t) => Tally[o][<<"inbound", t>>]["failed"] = 0
         /\ \A d \in Broken(o) : Calls[d].to = t => Tally[o][<<"inbound", t>>]["failed"] >= 1
<1> DEFINE x == <<"inbound", t>>
<1>0. /\ o \in Outcomes /\ x \in Streams /\ "failed" \in Marks /\ t # "none"
      /\ \A d \in Broken(o) : d \in Made(o) /\ d \in 1..7
  <2>1. t # "none"
    BY DEF Names
  <2>2. \A d \in Broken(o) : d \in Made(o) /\ d \in 1..7
    BY BrokenAreMade
  <2> QED
    BY <2>1, <2>2, FaultsAre, StreamsHave
<1>1. ASSUME NEW r \in Rows(o, x, "failed")
      PROVE  \E d \in Broken(o) : Calls[d].to = t
  <2>1. r \in EventsOf[o] /\ r.event.to = t /\ r.event.failed
    BY StreamsAre, FaultEvents DEF Rows, Marked
  <2>2. PICK d \in Made(o) : r = CallRow(o, d) /\ r.event.to = Calls[d].to
    BY <1>0, <2>1, CallsShow
  <2>3. d \in Broken(o)
    BY <1>0, <2>1, <2>2, CallRowIs
  <2> QED
    BY <2>1, <2>2, <2>3
<1>2. ASSUME NEW d \in Broken(o), Calls[d].to = t
      PROVE  CallRow(o, d) \in Rows(o, x, "failed")
  <2>1. /\ CallRow(o, d) \in EventsOf[o] /\ CallRow(o, d).event.to = t
        /\ CallRow(o, d).event.failed
    BY <1>0, <1>2, CallRowIs
  <2> QED
    BY <2>1, StreamsAre DEF Rows, Marked
<1>3. Rows(o, x, "failed") # {} => Tally[o][x]["failed"] >= 1
  <2>1. Cardinality(Rows(o, x, "failed")) = 0 <=> Rows(o, x, "failed") = {}
    BY <1>0, RowsAre, FS_EmptySet
  <2> QED
    BY <1>0, <2>1, RowsAre
<1>4. Rows(o, x, "failed") = {} => Tally[o][x]["failed"] = 0
  BY <1>0, RowsAre
<1> HIDE DEF x
<1>5. (\A d \in Broken(o) : Calls[d].to # t) => Tally[o][x]["failed"] = 0
  BY <1>1, <1>4
<1>6. \A d \in Broken(o) : Calls[d].to = t => Tally[o][x]["failed"] >= 1
  BY <1>2, <1>3
<1> QED
  BY <1>5, <1>6 DEF x

\* One member more is one more at most.
LEMMA OneMore ==
  ASSUME NEW S, IsFiniteSet(S), NEW n \in Nat, Cardinality(S) <= n, NEW x
  PROVE  /\ IsFiniteSet(S \cup {x}) /\ Cardinality(S \cup {x}) <= n + 1
<1>1. IsFiniteSet(S \cup {x}) /\ Cardinality(S) \in Nat
  BY FS_AddElement, FS_CardinalityType
<1>2. Cardinality(S \cup {x}) = IF x \in S THEN Cardinality(S) ELSE Cardinality(S) + 1
  BY FS_AddElement
<1>3. Cardinality(S \cup {x}) = Cardinality(S) \/ Cardinality(S \cup {x}) = Cardinality(S) + 1
  BY <1>2
<1> QED
  BY <1>1, <1>3

\* Few things are no more than they are named.
LEMMA FewAreFew ==
  /\ \A a, b : IsFiniteSet({a, b}) /\ Cardinality({a, b}) <= 2
  /\ \A a, b, c, d : IsFiniteSet({a, b, c, d}) /\ Cardinality({a, b, c, d}) <= 4
<1>1. ASSUME NEW a, NEW b PROVE IsFiniteSet({a, b}) /\ Cardinality({a, b}) <= 2
  <2>1. IsFiniteSet({a}) /\ Cardinality({a}) = 1
    BY FS_Singleton
  <2> DEFINE one == {a}
  <2> HIDE DEF one
  <2>2. IsFiniteSet(one) /\ Cardinality(one) <= 1 /\ 1 \in Nat
    BY <2>1 DEF one
  <2>3. IsFiniteSet(one \cup {b}) /\ Cardinality(one \cup {b}) <= 1 + 1
    BY <2>2, OneMore
  <2>4. {a, b} = one \cup {b}
    BY DEF one
  <2> QED
    BY <2>3, <2>4
<1>2. ASSUME NEW a, NEW b, NEW c, NEW d
      PROVE  IsFiniteSet({a, b, c, d}) /\ Cardinality({a, b, c, d}) <= 4
  <2> DEFINE two == {a, b}
             three == two \cup {c}
  <2>1. IsFiniteSet(two) /\ Cardinality(two) <= 2 /\ 2 \in Nat
    BY <1>1
  <2>2. {a, b, c, d} = three \cup {d}
    OBVIOUS
  <2> HIDE DEF two
  <2>3. IsFiniteSet(three) /\ Cardinality(three) <= 2 + 1
    BY <2>1, OneMore
  <2> HIDE DEF three
  <2>4. IsFiniteSet(three) /\ Cardinality(three) <= 3 /\ 3 \in Nat
    BY <2>3
  <2>5. IsFiniteSet(three \cup {d}) /\ Cardinality(three \cup {d}) <= 3 + 1
    BY <2>4, OneMore
  <2> QED
    BY <2>2, <2>5
<1> QED
  BY <1>1, <1>2

\* A callee is called two times at most, and before its first call no more.
LEMMA InboundFew ==
  ASSUME NEW o \in Outcomes, NEW c \in 1..7
  PROVE  /\ Tally[o][<<"inbound", Calls[c].to>>]["any"] <= 2
         /\ o \in Faults /\ o[1] = c /\ FirstCall(c) =>
              Tally[o][<<"inbound", Calls[c].to>>]["any"] <= 1
<1> DEFINE x == <<"inbound", Calls[c].to>>
<1>1. x \in Streams /\ "any" \in Marks /\ Calls[c].to # "none"
  BY StreamsHave, CallsAre, CalleesAre
<1>2. ASSUME NEW r \in Rows(o, x, "any")
      PROVE  \E d \in Made(o) : r = CallRow(o, d) /\ Calls[d].to = Calls[c].to /\ d \in 1..7
  <2>1. r \in EventsOf[o] /\ r.event.to = Calls[c].to
    BY StreamsAre DEF Rows
  <2>2. PICK d \in Made(o) : r = CallRow(o, d) /\ r.event.to = Calls[d].to
    BY <1>1, <2>1, CallsShow
  <2> QED
    BY <2>1, <2>2, OutcomesFinite DEF Made
<1>3. \E e \in 1..7 : \A d \in 1..7 : Calls[d].to = Calls[c].to => d = c \/ d = e
  <2>1. \A d \in 1..7 : c \in {1, 3, 5} /\ Calls[d].to = Calls[c].to => d = c
    BY CallTable, SevenCalls
  <2>2. \A d \in 1..7 : c \in {2, 4} /\ Calls[d].to = Calls[c].to => d = 2 \/ d = 4
    BY CallTable, SevenCalls
  <2>3. \A d \in 1..7 : c \in {6, 7} /\ Calls[d].to = Calls[c].to => d = 6 \/ d = 7
    BY CallTable, SevenCalls
  <2>4. CASE c \in {1, 3, 5}
    BY <2>1, <2>4
  <2>5. CASE c = 2
    BY <2>2, <2>5
  <2>6. CASE c = 4
    BY <2>2, <2>6
  <2>7. CASE c = 6
    BY <2>3, <2>7
  <2>8. CASE c = 7
    BY <2>3, <2>8
  <2> QED
    BY <2>4, <2>5, <2>6, <2>7, <2>8, SevenCalls
<1>4. PICK e \in 1..7 : \A d \in 1..7 : Calls[d].to = Calls[c].to => d = c \/ d = e
  BY <1>3
<1>5. Rows(o, x, "any") \in SUBSET {CallRow(o, c), CallRow(o, e)}
  BY <1>2, <1>4
<1>6. Tally[o][x]["any"] = Cardinality(Rows(o, x, "any"))
  BY <1>1, RowsAre
<1>7. Tally[o][x]["any"] <= 2
  <2> DEFINE two == {CallRow(o, c), CallRow(o, e)}
  <2>1. Cardinality(two) <= 2 /\ IsFiniteSet(two)
    BY FewAreFew
  <2>2. Rows(o, x, "any") \in SUBSET two
    BY <1>5
  <2> HIDE DEF two
  <2>3. /\ Cardinality(Rows(o, x, "any")) <= Cardinality(two)
        /\ Cardinality(Rows(o, x, "any")) \in Nat /\ Cardinality(two) \in Nat
    BY <2>1, <2>2, FS_Subset, FS_CardinalityType
  <2> QED
    BY <1>6, <2>1, <2>3
<1>8. ASSUME o \in Faults, o[1] = c, FirstCall(c) PROVE Tally[o][x]["any"] <= 1
  <2> DEFINE one == {CallRow(o, c)}
  <2>1. Cardinality(one) = 1 /\ IsFiniteSet(one)
    BY FS_Singleton
  <2>2. Rows(o, x, "any") \in SUBSET one
    <3>1. Made(o) = 1..c
      BY <1>8, FaultsAre
    <3>2. \A d \in 1..c : Calls[d].to = Calls[c].to => d = c
      BY <1>8 DEF FirstCall
    <3> QED
      BY <1>2, <3>1, <3>2
  <2> HIDE DEF one
  <2>3. /\ Cardinality(Rows(o, x, "any")) <= Cardinality(one)
        /\ Cardinality(Rows(o, x, "any")) \in Nat /\ Cardinality(one) \in Nat
    BY <2>1, <2>2, FS_Subset, FS_CardinalityType
  <2> QED
    BY <1>6, <2>1, <2>3
<1> QED
  BY <1>7, <1>8

\* A callee that fails in its first call, and has no more to say than that, or
\* nothing at all.
LEMMA OriginTally ==
  ASSUME NEW o \in Faults, FirstCall(o[1])
  PROVE  LET x == <<"emitted", Calls[o[1]].to>>
         IN  IF o[2] \in {"timeout", "connect"} THEN Tally[o][x]["any"] = 0
             ELSE /\ Tally[o][x]["any"] = 1 /\ Tally[o][x]["failed"] = 1
                  /\ Slow(o) => Tally[o][x]["slow"] = 1
                  /\ o[2] = "locked" => Tally[o][x]["locked"] = 1
<1> DEFINE c == o[1]
           s == Calls[o[1]].to
           x == <<"emitted", Calls[o[1]].to>>
<1>0. c \in 1..7 /\ o \in Outcomes /\ Made(o) = 1..c /\ c \in Made(o)
  BY FaultsAre
<1>1. /\ s \in Names /\ s # "gateway" /\ x \in Streams
      /\ c \in 1..7 /\ o \in Outcomes /\ Made(o) = 1..c /\ c \in Made(o)
  <2>1. s \in Names /\ s # "gateway"
    BY <1>0, CallsAre, CalleesAre
  <2>2. x \in Streams
    BY <2>1, StreamsHave
  <2> QED
    BY <1>0, <2>1, <2>2
<1>2. \A d \in 1..c : Calls[d].from # s
  <2>1. \A a, d \in 1..7 : d <= a => Calls[d].from # Calls[a].to
    BY CallTable, SevenCalls
  <2>2. \A d \in 1..c : d \in 1..7 /\ d <= c
    BY <1>0
  <2> QED
    BY <1>0, <2>1, <2>2
<1>3. \A d \in 1..c : Calls[d].to = s => d = c
  BY <1>1 DEF FirstCall
<1>4. ASSUME NEW r \in EventsOf[o], In(r.event, x)
      PROVE  \E k \in DOMAIN OwnEvents(o, c) : r = Row(10 * c + k, OwnEvents(o, c)[k])
  <2>1. r.event.of = s
    BY <1>4, StreamsAre
  <2>2. ~\E d \in Made(o) : r = CallRow(o, d)
    BY <1>1, <1>2, <2>1, CallRowIs
  <2>3. PICK d \in Made(o) : \E k \in DOMAIN OwnEvents(o, d) :
               r = Row(10 * d + k, OwnEvents(o, d)[k])
    BY <1>1, <2>1, <2>2, EventIs
  <2>4. PICK k \in DOMAIN OwnEvents(o, d) : r = Row(10 * d + k, OwnEvents(o, d)[k])
    BY <2>3
  <2>5. Calls[d].to = s
    <3> DEFINE e == OwnEvents(o, d)[k]
    <3>1. e.of = Calls[d].to
      BY <1>1, OwnIs
    <3>2. r.event = e
      BY <2>4 DEF Row
    <3> HIDE DEF e
    <3> QED
      BY <2>1, <3>1, <3>2
  <2>6. d = c
    BY <1>1, <1>3, <2>5
  <2> QED
    BY <2>4, <2>6
<1>5. CASE o[2] \in {"timeout", "connect"}
  <2>1. OwnEvents(o, c) = <<>>
    BY <1>5, OriginWrites
  <2>2. Rows(o, x, "any") = {}
    BY <1>4, <2>1 DEF Rows
  <2> QED
    BY <1>1, <1>5, <2>2, RowsAre, StreamsHave
<1>6. CASE o[2] \notin {"timeout", "connect"}
  <2> DEFINE e == Event(s, "none", TRUE, o[2], Slow(o))
             one == Row(10 * c + 1, e)
  <2>1. OwnEvents(o, c) = <<e>>
    BY <1>6, OriginWrites
  <2>2. /\ e.of = s /\ e.failed /\ e.word = o[2]
        /\ e.slow <=> Slow(o)
    BY DEF Event
  <2>3. one.event = e
    BY DEF Row
  <2> HIDE DEF e
  <2>4. one \in EventsOf[o]
    <3>1. 1 \in DOMAIN OwnEvents(o, c) /\ OwnEvents(o, c)[1] = e
      BY <2>1
    <3>2. one \in Own(o, c)
      BY <3>1 DEF Own
    <3> QED
      BY <1>1, <3>2 DEF EventsOf
  <2>5. \A r \in EventsOf[o] : In(r.event, x) => r = one
    <3>1. \A k \in DOMAIN OwnEvents(o, c) : k = 1 /\ OwnEvents(o, c)[k] = e
      BY <2>1
    <3> QED
      BY <1>4, <3>1
  <2>6. In(one.event, x)
    BY <2>2, <2>3, StreamsAre
  <2> HIDE DEF one
  <2>7. \A m \in Marks : Marked(one.event, m) => Rows(o, x, m) = {one}
    BY <2>4, <2>5, <2>6 DEF Rows
  <2>8. ASSUME NEW m \in Marks, Marked(one.event, m) PROVE Tally[o][x][m] = 1
    <3>1. Rows(o, x, m) = {one}
      BY <2>7, <2>8
    <3>2. Cardinality({one}) = 1
      BY FS_Singleton
    <3>3. Tally[o][x][m] = Cardinality(Rows(o, x, m))
      BY <1>1, RowsAre
    <3> QED
      BY <3>1, <3>2, <3>3
  <2>9. /\ Marked(one.event, "any") /\ Marked(one.event, "failed")
        /\ Slow(o) => Marked(one.event, "slow")
        /\ o[2] = "locked" => Marked(one.event, "locked")
    BY <2>2, <2>3 DEF Marked
  <2>10. /\ Tally[o][x]["any"] = 1 /\ Tally[o][x]["failed"] = 1
         /\ Slow(o) => Tally[o][x]["slow"] = 1
         /\ o[2] = "locked" => Tally[o][x]["locked"] = 1
    BY <2>8, <2>9, StreamsHave
  <2> QED
    BY <1>6, <2>10
<1> QED
  BY <1>5, <1>6

\* A part of few things is few.
LEMMA PartFew ==
  ASSUME NEW S, IsFiniteSet(S), NEW n \in Nat, Cardinality(S) <= n, NEW R, R \subseteq S
  PROVE  IsFiniteSet(R) /\ Cardinality(R) <= n /\ Cardinality(R) \in Nat
<1>1. /\ IsFiniteSet(R) /\ Cardinality(R) <= Cardinality(S)
      /\ Cardinality(R) \in Nat /\ Cardinality(S) \in Nat
  BY FS_Subset, FS_CardinalityType
<1> QED
  BY <1>1

\* Two parts have no more than both.
LEMMA BothFew ==
  ASSUME NEW S, IsFiniteSet(S), NEW m \in Nat, Cardinality(S) <= m,
         NEW R, IsFiniteSet(R), NEW n \in Nat, Cardinality(R) <= n
  PROVE  IsFiniteSet(S \cup R) /\ Cardinality(S \cup R) <= m + n
<1>1. /\ IsFiniteSet(S \cup R)
      /\ Cardinality(S \cup R) = Cardinality(S) + Cardinality(R) - Cardinality(S \cap R)
  BY FS_Union
<1>2. Cardinality(S \cap R) \in Nat /\ Cardinality(S) \in Nat /\ Cardinality(R) \in Nat
  BY FS_Subset, FS_CardinalityType
<1> QED
  BY <1>1, <1>2

\* Of the first n numbers there are n.
LEMMA NumbersFew ==
  ASSUME NEW n \in Nat
  PROVE  IsFiniteSet(1..n) /\ Cardinality(1..n) = n
<1>1. 1 \in Int /\ n \in Int
  OBVIOUS
<1>2. /\ IsFiniteSet(1..n)
      /\ Cardinality(1..n) = IF 1 > n THEN 0 ELSE n - 1 + 1
  BY <1>1, FS_Interval
<1> QED
  BY <1>2

\* A callee writes three events at most, and two unless it calls further.
LEMMA OwnFew ==
  ASSUME NEW o \in Outcomes, NEW d \in 1..7
  PROVE  /\ IsFiniteSet(Own(o, d)) /\ Cardinality(Own(o, d)) <= 3
         /\ Calls[d].to # "transaction" => Cardinality(Own(o, d)) <= 2
<1> DEFINE s == Calls[d].to
           f == [k \in DOMAIN OwnEvents(o, d) |-> Row(10 * d + k, OwnEvents(o, d)[k])]
<1>1. \E n \in 0..3 : DOMAIN OwnEvents(o, d) = 1..n /\ (s # "transaction" => n <= 2)
  <2> DEFINE ok == Event(s, "none", FALSE, "none", FALSE)
             quick == Event(s, "none", TRUE, "none", FALSE)
             late == Event(s, "none", TRUE, "none", Slow(o))
             said == Event(s, "none", TRUE, o[2], Slow(o))
  <2>1. \/ OwnEvents(o, d) = <<ok, ok, ok>> /\ s = "transaction"
        \/ OwnEvents(o, d) = <<ok, quick, late>> /\ s = "transaction"
        \/ OwnEvents(o, d) = <<ok, ok>> \/ OwnEvents(o, d) = <<quick, quick>>
        \/ OwnEvents(o, d) = <<late>> \/ OwnEvents(o, d) = <<said>>
        \/ OwnEvents(o, d) = <<>>
    BY DEF OwnEvents
  <2> HIDE DEF ok, quick, late, said, s
  <2>2. CASE OwnEvents(o, d) = <<ok, ok, ok>> /\ s = "transaction"
    BY <2>2
  <2>3. CASE OwnEvents(o, d) = <<ok, quick, late>> /\ s = "transaction"
    BY <2>3
  <2>4. CASE OwnEvents(o, d) = <<ok, ok>>
    BY <2>4
  <2>5. CASE OwnEvents(o, d) = <<quick, quick>>
    BY <2>5
  <2>6. CASE OwnEvents(o, d) = <<late>>
    BY <2>6
  <2>7. CASE OwnEvents(o, d) = <<said>>
    BY <2>7
  <2>8. CASE OwnEvents(o, d) = <<>>
    BY <2>8
  <2> QED
    BY <2>1, <2>2, <2>3, <2>4, <2>5, <2>6, <2>7, <2>8
<1>2. PICK n \in 0..3 : DOMAIN OwnEvents(o, d) = 1..n /\ (s # "transaction" => n <= 2)
  BY <1>1
<1>3. Own(o, d) = {f[k] : k \in 1..n}
  BY <1>2 DEF Own
<1>4. n \in Nat /\ IsFiniteSet(1..n) /\ Cardinality(1..n) = n
  BY NumbersFew
<1> HIDE DEF f
<1>5. IsFiniteSet(Own(o, d)) /\ Cardinality(Own(o, d)) <= n
  BY <1>3, <1>4, FiniteImage
<1>6. Cardinality(Own(o, d)) \in Nat
  BY <1>5, FS_CardinalityType
<1> QED
  BY <1>2, <1>5, <1>6

\* Callers write one event about a call.
LEMMA CallEventsFew ==
  ASSUME NEW o \in Faults
  PROVE  IsFiniteSet(CallEvents(o)) /\ Cardinality(CallEvents(o)) <= o[1]
<1> DEFINE f == [d \in Made(o) |-> CallRow(o, d)]
<1>1. Made(o) = 1..o[1] /\ o[1] \in Nat
  BY FaultsAre
<1>2. IsFiniteSet(Made(o)) /\ Cardinality(Made(o)) = o[1]
  BY <1>1, NumbersFew
<1>3. CallEvents(o) = {f[d] : d \in Made(o)}
  BY DEF CallEvents, CallRow
<1> HIDE DEF f
<1> QED
  BY <1>2, <1>3, FiniteImage

\* Around a call that fails when its caller has given up, callees write that they
\* failed, too, among ten events at most.
LEMMA AroundTally ==
  ASSUME NEW o \in Faults, NEW d \in Calls[o[1]].within
  PROVE  /\ Tally[o][<<"emitted", Calls[d].to>>]["failed"] >= 1
         /\ Tally[o][<<"emitted", Calls[d].to>>]["any"] <= 10
<1> DEFINE s == Calls[d].to
           x == <<"emitted", Calls[d].to>>
<1>1. /\ d \in 1..7 /\ d # o[1] /\ d \in Broken(o) /\ o \in Outcomes /\ d \in Made(o)
      /\ o[1] \in 1..7
  <2>1. o \in Outcomes /\ o[1] \in 1..7 /\ Broken(o) = {o[1]} \cup Calls[o[1]].within
    BY FaultsAre
  <2>2. d \in 1..7 /\ d < o[1]
    BY <2>1, UpstreamIs
  <2>3. d \in Broken(o)
    BY <2>1
  <2> QED
    BY <2>1, <2>2, <2>3, BrokenAreMade
<1>2. s \in Names /\ s # "gateway" /\ x \in Streams
  BY <1>1, CallsAre, CalleesAre, StreamsHave
<1>3. d \in {3, 5} /\ \A a \in 1..7 : Calls[a].to = s => a = d
  <2>1. \A a \in 1..7 : \A b \in Calls[a].within : b \in {3, 5}
    BY CallTable, SevenCalls
  <2>2. d \in {3, 5}
    BY <1>1, <2>1
  <2>3. /\ \A a \in 1..7 : Calls[a].to = Calls[3].to => a = 3
        /\ \A a \in 1..7 : Calls[a].to = Calls[5].to => a = 5
    BY CallTable, SevenCalls
  <2> QED
    BY <2>2, <2>3
<1>4. Tally[o][x]["failed"] >= 1
  <2> DEFINE e(k) == OwnEvents(o, d)[k]
             r(k) == Row(10 * d + k, OwnEvents(o, d)[k])
  <2>1. \E k \in DOMAIN OwnEvents(o, d) : e(k).of = s /\ e(k).failed
    <3> DEFINE ok == Event(s, "none", FALSE, "none", FALSE)
               quick == Event(s, "none", TRUE, "none", FALSE)
               late == Event(s, "none", TRUE, "none", Slow(o))
    <3>1. OwnEvents(o, d) = <<ok, quick, late>> \/ OwnEvents(o, d) = <<late>>
      BY <1>1 DEF OwnEvents
    <3>2. late.of = s /\ late.failed
      BY DEF Event
    <3> HIDE DEF ok, quick, late
    <3>3. CASE OwnEvents(o, d) = <<ok, quick, late>>
      <4>1. 3 \in DOMAIN OwnEvents(o, d) /\ OwnEvents(o, d)[3] = late
        BY <3>3
      <4> QED
        BY <3>2, <4>1
    <3>4. CASE OwnEvents(o, d) = <<late>>
      <4>1. 1 \in DOMAIN OwnEvents(o, d) /\ OwnEvents(o, d)[1] = late
        BY <3>4
      <4> QED
        BY <3>2, <4>1
    <3> QED
      BY <3>1, <3>3, <3>4
  <2>2. PICK k \in DOMAIN OwnEvents(o, d) : e(k).of = s /\ e(k).failed
    BY <2>1
  <2>3. r(k).event = e(k)
    BY DEF Row
  <2>4. r(k) \in EventsOf[o]
    <3>1. r(k) \in Own(o, d)
      BY DEF Own
    <3> QED
      BY <1>1, <3>1 DEF EventsOf
  <2>5. r(k) \in Rows(o, x, "failed")
    <3> DEFINE q == r(k)
    <3>1. q \in EventsOf[o] /\ q.event.of = s /\ q.event.failed
      BY <2>2, <2>3, <2>4
    <3> HIDE DEF q
    <3>2. q \in Rows(o, x, "failed")
      BY <3>1, StreamsAre DEF Rows, Marked
    <3> QED
      BY <3>2 DEF q
  <2>6. Rows(o, x, "failed") # {}
    BY <2>5
  <2> QED
    BY <1>1, <1>2, <2>6, RowsAre, StreamsHave, FS_EmptySet
<1>5. Rows(o, x, "any") \subseteq CallEvents(o) \cup Own(o, d)
  <2> SUFFICES ASSUME NEW r \in Rows(o, x, "any") PROVE r \in CallEvents(o) \cup Own(o, d)
    OBVIOUS
  <2>1. r \in EventsOf[o] /\ r.event.of = s
    BY StreamsAre DEF Rows
  <2>2. CASE \E a \in Made(o) : r = CallRow(o, a)
    BY <2>2 DEF CallEvents, CallRow
  <2>3. ASSUME NEW a \in Made(o), NEW k \in DOMAIN OwnEvents(o, a),
               r = Row(10 * a + k, OwnEvents(o, a)[k])
        PROVE  r \in Own(o, d)
    <3> DEFINE e == OwnEvents(o, a)[k]
    <3>1. e.of = Calls[a].to
      BY <1>1, OwnIs
    <3>2. r.event = e
      BY <2>3 DEF Row
    <3>3. r \in Own(o, a)
      BY <2>3 DEF Own
    <3>4. a \in 1..7
      BY <1>1, FaultsAre
    <3> HIDE DEF e
    <3> QED
      BY <1>3, <2>1, <3>1, <3>2, <3>3, <3>4
  <2> QED
    BY <1>1, <1>2, <2>1, <2>2, <2>3, EventIs
<1>6. Cardinality(Rows(o, x, "any")) <= 10
  <2>1. IsFiniteSet(CallEvents(o)) /\ Cardinality(CallEvents(o)) <= o[1] /\ o[1] \in Nat
    BY <1>1, CallEventsFew
  <2>2. IsFiniteSet(Own(o, d)) /\ Cardinality(Own(o, d)) <= 3 /\ 3 \in Nat
    BY <1>1, OwnFew
  <2> DEFINE both == CallEvents(o) \cup Own(o, d)
  <2>3. IsFiniteSet(both) /\ Cardinality(both) <= o[1] + 3
    BY <2>1, <2>2, BothFew
  <2>4. Rows(o, x, "any") \subseteq both /\ o[1] + 3 \in Nat
    BY <1>5, <2>1
  <2> HIDE DEF both
  <2>5. Cardinality(Rows(o, x, "any")) <= o[1] + 3 /\ Cardinality(Rows(o, x, "any")) \in Nat
    BY <2>3, <2>4, PartFew
  <2> QED
    BY <1>1, <2>5
<1>7. Tally[o][x]["any"] = Cardinality(Rows(o, x, "any"))
  BY <1>1, <1>2, RowsAre, StreamsHave
<1> QED
  BY <1>4, <1>6, <1>7

\* What the caller writes of a call.
LEMMA EdgeShows ==
  ASSUME NEW o \in Faults, NEW d \in 1..7
  PROVE  LET t == Tally[o][<<"edge", EdgeOf[d]>>]
         IN  /\ t["any"] <= 1
             /\ d \in Broken(o) => t["failed"] = 1
             /\ d \in Broken(o) /\ Slow(o) => t["timeout"] = 1
             /\ d \notin Broken(o) => t["failed"] = 0
             /\ d = o[1] /\ o[2] = "connect" => t["connect"] = 1
             /\ d = o[1] /\ o[2] = "unavailable" => t["503"] = 1
             /\ t["connect"] # 0 => o[2] = "connect" /\ d = o[1]
             /\ t["503"] # 0 => \/ o[2] = "unavailable" /\ d = o[1]
                                \/ o[2] = "connect" /\ o[1] \in {4, 5, 7} /\ d = 3
<1> DEFINE t == Tally[o][<<"edge", EdgeOf[d]>>]
           e == CallRow(o, d).event
           w == IF d \in Broken(o) THEN Word(o, d) ELSE "none"
<1>1. /\ o \in Outcomes /\ o[1] \in Broken(o)
      /\ \A a \in Broken(o) : a \in Made(o)
  <2>1. o \in Outcomes /\ o[1] \in Broken(o)
    BY FaultsAre
  <2> QED
    BY <2>1, BrokenAreMade
<1>2. /\ t["any"] <= 1
      /\ \A m \in Marks : /\ d \in Made(o) /\ Marked(e, m) => t[m] = 1
                          /\ ~(d \in Made(o) /\ Marked(e, m)) => t[m] = 0
  <2>1. t["any"] <= 1
    BY <1>1, EdgeTally, StreamsHave
  <2>2. ASSUME NEW m \in Marks
        PROVE  /\ d \in Made(o) /\ Marked(e, m) => t[m] = 1
               /\ ~(d \in Made(o) /\ Marked(e, m)) => t[m] = 0
    BY <1>1, EdgeTally
  <2> QED
    BY <2>1, <2>2
<1>3. /\ {"failed", "timeout", "connect", "503"} \subseteq Marks
      /\ d \in Made(o) =>
           /\ e.failed <=> d \in Broken(o)
           /\ e.word = w
  BY <1>1, CallRowIs, StreamsHave
<1>4. /\ Word(o, d) \in {"timeout", "connect", "503", "none"}
      /\ Word(o, d) = "timeout" <=> Slow(o)
      /\ Word(o, d) = "connect" <=> ~Slow(o) /\ o[2] = "connect" /\ d = o[1]
      /\ Word(o, d) = "503" <=>
           /\ ~Slow(o)
           /\ \/ o[2] = "unavailable" /\ d = o[1]
              \/ o[2] = "connect" /\ o[1] \in {4, 5, 7} /\ d = 3 /\ d # o[1]
  BY DEF Word
<1>5. o[2] \in {"connect", "unavailable"} => ~Slow(o)
  BY DEF Slow
<1> HIDE DEF e, t
<1>6. d \in Made(o) =>
         /\ Marked(e, "failed") <=> d \in Broken(o)
         /\ Marked(e, "timeout") <=> d \in Broken(o) /\ Slow(o)
         /\ Marked(e, "connect") <=> d \in Broken(o) /\ Word(o, d) = "connect"
         /\ Marked(e, "503") <=> d \in Broken(o) /\ Word(o, d) = "503"
  BY <1>3, <1>4 DEF Marked
<1>7. d \in Broken(o) => d \in Made(o)
  BY <1>1
<1>8. /\ d \in Broken(o) => t["failed"] = 1
      /\ d \notin Broken(o) => t["failed"] = 0
  BY <1>2, <1>3, <1>6, <1>7
<1>9. d \in Broken(o) /\ Slow(o) => t["timeout"] = 1
  BY <1>2, <1>3, <1>6, <1>7
<1>10. d = o[1] /\ o[2] = "connect" => t["connect"] = 1
  BY <1>1, <1>2, <1>3, <1>4, <1>5, <1>6, <1>7
<1>11. d = o[1] /\ o[2] = "unavailable" => t["503"] = 1
  BY <1>1, <1>2, <1>3, <1>4, <1>5, <1>6, <1>7
<1>12. t["connect"] # 0 => o[2] = "connect" /\ d = o[1]
  BY <1>2, <1>3, <1>4, <1>6
<1>13. t["503"] # 0 => \/ o[2] = "unavailable" /\ d = o[1]
                       \/ o[2] = "connect" /\ o[1] \in {4, 5, 7} /\ d = 3
  BY <1>2, <1>3, <1>4, <1>6
<1> QED
  BY <1>2, <1>8, <1>9, <1>10, <1>11, <1>12, <1>13 DEF t

\* Four services at most fail, and two if the login does.
LEMMA FailingFew ==
  ASSUME NEW o \in Faults, NEW S, S \subseteq Hurt(o)
  PROVE  /\ IsFiniteSet(S) /\ Cardinality(S) <= 4
         /\ o[1] = 1 => Cardinality(S) <= 2
<1>1. o[1] \in 1..7
  BY FaultsAre
<1>2. S \subseteq {"gateway", "transaction", "payment", Calls[o[1]].to}
  BY <1>1, UpstreamIs DEF Hurt
<1>3. IsFiniteSet(S) /\ Cardinality(S) <= 4
  <2> DEFINE four == {"gateway", "transaction", "payment", Calls[o[1]].to}
  <2>1. IsFiniteSet(four) /\ Cardinality(four) <= 4 /\ 4 \in Nat
    BY FewAreFew
  <2>2. S \subseteq four
    BY <1>2
  <2> HIDE DEF four
  <2> QED
    BY <2>1, <2>2, PartFew
<1>4. ASSUME o[1] = 1 PROVE Cardinality(S) <= 2
  <2> DEFINE two == {"gateway", "authentication"}
  <2>1. IsFiniteSet(two) /\ Cardinality(two) <= 2 /\ 2 \in Nat
    BY FewAreFew
  <2>2. S \subseteq two
    BY <1>4, CallTable DEF Hurt, Upstream
  <2> HIDE DEF two
  <2> QED
    BY <2>1, <2>2, PartFew
<1> QED
  BY <1>3, <1>4

\* A database that fails at the first service says so, among ten events at most.
LEMMA DatabaseTally ==
  ASSUME NEW o \in Faults, o[2] = "database", o[1] \in {1, 2}
  PROVE  /\ Tally[o][<<"all", "events">>]["database"] >= 1
         /\ Tally[o][<<"all", "events">>]["any"] <= 10
<1> DEFINE x == <<"all", "events">>
           c == o[1]
<1>1. o \in Outcomes /\ c \in 1..7 /\ Made(o) = 1..c /\ c \in Made(o) /\ x \in Streams
  BY FaultsAre, StreamsHave
<1>2. Tally[o][x]["database"] >= 1
  <2> DEFINE e == Event(Calls[c].to, "none", TRUE, "database", Slow(o))
             r == Row(10 * c + 1, e)
  <2>1. OwnEvents(o, c) = <<e>>
    BY OriginWrites
  <2>2. r.event.word = "database"
    BY DEF Row, Event
  <2> HIDE DEF e
  <2>3. r \in EventsOf[o]
    <3>1. 1 \in DOMAIN OwnEvents(o, c) /\ OwnEvents(o, c)[1] = e
      BY <2>1
    <3>2. r \in Own(o, c)
      BY <3>1 DEF Own
    <3> QED
      BY <1>1, <3>2 DEF EventsOf
  <2> HIDE DEF r
  <2>4. r \in Rows(o, x, "database")
    BY <2>2, <2>3, StreamsAre DEF Rows, Marked
  <2>5. Rows(o, x, "database") # {}
    BY <2>4
  <2> QED
    BY <1>1, <2>5, RowsAre, StreamsHave, FS_EmptySet
<1>3. Rows(o, x, "any") \subseteq (OfGateway(o) \cup CallEvents(o)) \cup (Own(o, 1) \cup Own(o, 2))
  <2> SUFFICES ASSUME NEW r \in EventsOf[o]
               PROVE  r \in (OfGateway(o) \cup CallEvents(o)) \cup (Own(o, 1) \cup Own(o, 2))
    BY DEF Rows
  <2>1. EventsOf[o] = OfGateway(o) \cup CallEvents(o) \cup UNION {Own(o, d) : d \in Made(o)}
    BY <1>1 DEF EventsOf
  <2>2. ASSUME NEW d \in Made(o), r \in Own(o, d) PROVE r \in Own(o, 1) \cup Own(o, 2)
    <3>1. d = 1 \/ d = 2
      BY <1>1
    <3> QED
      BY <2>2, <3>1
  <2> QED
    BY <2>1, <2>2
<1>4. IsFiniteSet(OfGateway(o)) /\ Cardinality(OfGateway(o)) <= 4
  <2> DEFINE e(failed, slow) == Event("gateway", "none", failed, "none", slow)
             i == Row(1, e(FALSE, FALSE))
             j == Row(2, e(o # Fine, FALSE))
             k == Row(3, e(o # Fine, Slow(o)))
  <2>1. OfGateway(o) = {i, j, k}
    BY DEF OfGateway
  <2> HIDE DEF i, j, k
  <2>2. {i, j, k} = {i, j, k, k}
    OBVIOUS
  <2>3. IsFiniteSet({i, j, k, k}) /\ Cardinality({i, j, k, k}) <= 4
    BY FewAreFew
  <2> QED
    BY <2>1, <2>2, <2>3
<1>5. IsFiniteSet(CallEvents(o)) /\ Cardinality(CallEvents(o)) <= 2
  <2>1. IsFiniteSet(CallEvents(o)) /\ Cardinality(CallEvents(o)) <= c
    BY CallEventsFew
  <2>2. Cardinality(CallEvents(o)) \in Nat
    BY <2>1, FS_CardinalityType
  <2> QED
    BY <2>1, <2>2
<1>6. /\ IsFiniteSet(Own(o, 1)) /\ Cardinality(Own(o, 1)) <= 2
      /\ IsFiniteSet(Own(o, 2)) /\ Cardinality(Own(o, 2)) <= 2
  <2>1. Calls[1].to # "transaction" /\ Calls[2].to # "transaction"
    BY CallTable
  <2> QED
    BY <1>1, <2>1, OwnFew
<1>7. Cardinality(Rows(o, x, "any")) <= 10
  <2> DEFINE a == OfGateway(o)
             b == CallEvents(o)
             e == Own(o, 1)
             f == Own(o, 2)
             ab == a \cup b
             ef == e \cup f
             all == ab \cup ef
  <2>1. 2 \in Nat /\ 4 \in Nat /\ 6 \in Nat /\ 10 \in Nat
    OBVIOUS
  <2>2. Rows(o, x, "any") \subseteq all
    BY <1>3
  <2> HIDE DEF a, b, e, f
  <2>3. IsFiniteSet(ab) /\ Cardinality(ab) <= 4 + 2
    BY <1>4, <1>5, <2>1, BothFew DEF a, b
  <2>4. IsFiniteSet(ef) /\ Cardinality(ef) <= 2 + 2
    BY <1>6, <2>1, BothFew DEF e, f
  <2> HIDE DEF ab, ef
  <2>5. Cardinality(ab) <= 6 /\ Cardinality(ef) <= 4
    BY <2>3, <2>4
  <2>6. IsFiniteSet(all) /\ Cardinality(all) <= 6 + 4
    BY <2>1, <2>3, <2>4, <2>5, BothFew
  <2> HIDE DEF all
  <2>7. Cardinality(all) <= 10
    BY <2>6
  <2> QED
    BY <2>1, <2>2, <2>6, <2>7, PartFew
<1>8. Tally[o][x]["any"] = Cardinality(Rows(o, x, "any"))
  BY <1>1, RowsAre, StreamsHave
<1> QED
  BY <1>2, <1>7, <1>8

-----------------------------------------------------------------------------
(* Localization: the evidence of a fault                                   *)

\* A fault has hit some requests of the stretch, the others went well, as all of
\* the healthy stretch did, and the evidence is there.
Shown ==
    /\ Bag(before) /\ Bag(current)
    /\ fault \in Faults /\ current[fault] > 0
    /\ \A p \in Outcomes \ {Fine} : before[p] = 0
    /\ \A p \in Outcomes \ {Fine, fault} : current[p] = 0
    /\ current[Fine] + current[fault] = MaxCurrent
    /\ evidence = [service |-> ServiceEvidence, edge |-> EdgeEvidence,
                   database |-> DatabaseEvidence]

\* Who is who.
LEMMA ShownIs ==
  ASSUME Shown
  PROVE  /\ fault \in Outcomes /\ Fine \in Outcomes /\ fault # Fine
         /\ current[Fine] \in Nat /\ current[fault] \in Nat /\ before[Fine] \in Nat
         /\ MaxCurrent \in Nat
<1>1. fault \in Outcomes /\ fault # Fine
  BY FaultsAre DEF Shown
<1>2. Fine \in Outcomes
  BY DEF Outcomes
<1> QED
  BY <1>1, <1>2, RankAssumption DEF Shown, Bag

\* A bag in which requests went two ways counts what either leaves.
LEMMA CountOfTwo ==
  ASSUME NEW bag, Bag(bag), NEW i \in Outcomes, NEW j \in Outcomes, i # j,
         \A p \in Outcomes \ {i, j} : bag[p] = 0, NEW x \in Streams, NEW m \in Marks
  PROVE  Count(bag, x, m) = bag[i] * Tally[i][x][m] + bag[j] * Tally[j][x][m]
<1> DEFINE f == Weights(bag, x, m)
           S == Gone(bag)
<1>1. Count(bag, x, m) = Sum(f, S)
  BY CountIs
<1>2. /\ bag[i] \in Nat /\ bag[j] \in Nat
      /\ Tally[i][x][m] \in Nat /\ Tally[j][x][m] \in Nat
  BY TallyBounded DEF Bag
<1>3. f[i] = bag[i] * Tally[i][x][m] /\ f[j] = bag[j] * Tally[j][x][m]
  BY DEF Weights
<1>4. f[i] \in Int /\ f[j] \in Int
  <2> DEFINE a == Tally[i][x][m]
             b == Tally[j][x][m]
  <2>1. a \in Nat /\ b \in Nat /\ f[i] = bag[i] * a /\ f[j] = bag[j] * b
    BY <1>2, <1>3
  <2> HIDE DEF a, b, f
  <2> QED
    BY <1>2, <2>1
<1>5. /\ i \notin S => bag[i] = 0
      /\ j \notin S => bag[j] = 0
      /\ \A k \in S \ {i, j} : f[k] = 0
      /\ IsFiniteSet(S)
  <2>1. IsFiniteSet(S)
    BY OutcomesFinite, FS_Subset DEF Gone
  <2>2. \A k \in Outcomes : k \notin S => bag[k] = 0
    BY DEF Gone, Bag
  <2>3. S \ {i, j} = {}
    BY DEF Gone
  <2> HIDE DEF S
  <2> QED
    BY <2>1, <2>2, <2>3
<1> HIDE DEF f, S
<1>6. Sum(f, S) = (IF i \in S THEN f[i] ELSE 0) + (IF j \in S THEN f[j] ELSE 0)
  BY <1>4, <1>5, SumOfTwo
<1>7. (IF i \in S THEN f[i] ELSE 0) = f[i] /\ (IF j \in S THEN f[j] ELSE 0) = f[j]
  <2> DEFINE a == Tally[i][x][m]
             b == Tally[j][x][m]
  <2>1. a \in Nat /\ b \in Nat /\ f[i] = bag[i] * a /\ f[j] = bag[j] * b
    BY <1>2, <1>3
  <2> HIDE DEF a, b
  <2>2. bag[i] = 0 => f[i] = 0
    BY <2>1
  <2>3. bag[j] = 0 => f[j] = 0
    BY <2>1
  <2> QED
    BY <1>5, <2>2, <2>3
<1> QED
  BY <1>1, <1>3, <1>6, <1>7

\* What has a mark was left by the requests that the fault hit, and nothing of
\* the healthy stretch has one.
LEMMA Shares ==
  ASSUME Shown, NEW x \in Streams, NEW m \in Marks
  PROVE  /\ Count(current, x, "any") = current[Fine] * Tally[Fine][x]["any"]
                                         + current[fault] * Tally[fault][x]["any"]
         /\ m # "any" => /\ Count(current, x, m) = current[fault] * Tally[fault][x][m]
                         /\ Increase(x, m) = Rate(current, x, m)
<1>1. /\ fault \in Outcomes /\ Fine \in Outcomes /\ fault # Fine
      /\ current[Fine] \in Nat /\ current[fault] \in Nat /\ before[Fine] \in Nat
      /\ Bag(before) /\ Bag(current)
  BY ShownIs DEF Shown
<1>2. \A k \in Marks : Count(current, x, k) = current[Fine] * Tally[Fine][x][k]
                                                + current[fault] * Tally[fault][x][k]
  <2> SUFFICES ASSUME NEW k \in Marks
               PROVE  Count(current, x, k) = current[Fine] * Tally[Fine][x][k]
                                               + current[fault] * Tally[fault][x][k]
    OBVIOUS
  <2>1. \A p \in Outcomes \ {Fine, fault} : current[p] = 0
    BY DEF Shown
  <2> QED
    BY <1>1, <2>1, CountOfTwo
<1>3. ASSUME m # "any"
      PROVE  /\ Count(current, x, m) = current[fault] * Tally[fault][x][m]
             /\ Increase(x, m) = Rate(current, x, m)
  <2>1. Tally[Fine][x][m] = 0
    BY <1>3, FineTally
  <2> DEFINE t == Tally[fault][x][m]
             a == Rate(current, x, m)
  <2>2. t \in Nat
    BY <1>1, TallyBounded
  <2>3. Count(current, x, m) = current[fault] * t
    <3>1. Count(current, x, m) = current[Fine] * 0 + current[fault] * t
      BY <1>2, <2>1
    <3> HIDE DEF t
    <3> QED
      BY <1>1, <2>2, <3>1
  <2>4. Count(before, x, m) = 0
    <3>1. \A p \in Outcomes \ {Fine, fault} : before[p] = 0
      BY DEF Shown
    <3>2. before[fault] = 0
      BY <1>1 DEF Shown
    <3>3. Count(before, x, m) = before[Fine] * Tally[Fine][x][m] + before[fault] * t
      BY <1>1, <3>1, CountOfTwo
    <3> HIDE DEF t
    <3> QED
      BY <1>1, <2>1, <2>2, <3>2, <3>3
  <2>5. Rate(before, x, m) = 0
    <3> DEFINE n == Count(before, x, "any")
    <3>1. n \in Nat
      BY <1>1, CountBounded
    <3>2. Rate(before, x, m) = IF n = 0 THEN 0 ELSE (1000 * 0) \div n
      BY <2>4 DEF Rate
    <3> HIDE DEF n
    <3> QED
      BY <3>1, <3>2
  <2>6. Within(1000, a)
    BY <1>1, RateBounded
  <2>7. Increase(x, m) = IF a - 0 > 0 THEN a - 0 ELSE 0
    BY <2>5 DEF Increase
  <2> HIDE DEF a
  <2>8. Increase(x, m) = a
    BY <2>6, <2>7 DEF Within
  <2> QED
    BY <2>3, <2>8 DEF a
<1> QED
  BY <1>2, <1>3, StreamsHave

\* A whole divided is at least what its divisor goes into it.
LEMMA QuotientAtLeast ==
  ASSUME NEW a \in Nat, NEW n \in Nat, n > 0, NEW q \in Nat, q * n <= a
  PROVE  a \div n >= q
<1>1. a \div n \in Nat /\ a < n * (a \div n) + n
  OBVIOUS
<1> DEFINE d == a \div n
<1> HIDE DEF d
<1>2. d \in Nat /\ q * n < n * d + n
  BY <1>1 DEF d
<1>3. n * d + n = n * (d + 1) /\ q * n = n * q
  BY <1>2
<1>4. n * q < n * (d + 1)
  BY <1>2, <1>3
<1>5. ASSUME q > d PROVE FALSE
  <2>1. q >= d + 1 /\ q - (d + 1) \in Nat
    BY <1>2, <1>5
  <2>2. n * (q - (d + 1)) >= 0
    BY <2>1
  <2>3. n * (q - (d + 1)) = n * q - n * (d + 1)
    BY <1>2
  <2> QED
    BY <1>2, <1>4, <2>2, <2>3
<1> QED
  BY <1>2, <1>5 DEF d


\* A mark that the fault does not leave has no rate.
LEMMA RateNone ==
  ASSUME Shown, NEW x \in Streams, NEW m \in Marks, m # "any", Tally[fault][x][m] = 0
  PROVE  Rate(current, x, m) = 0 /\ Count(current, x, m) = 0
<1>1. Count(current, x, m) = current[fault] * 0
  BY Shares
<1>2. Count(current, x, m) = 0
  BY <1>1, ShownIs
<1> DEFINE n == Count(current, x, "any")
<1>3. n \in Nat
  BY CountBounded, StreamsHave DEF Shown
<1>4. Rate(current, x, m) = IF n = 0 THEN 0 ELSE (1000 * 0) \div n
  BY <1>2 DEF Rate
<1> HIDE DEF n
<1> QED
  BY <1>2, <1>3, <1>4

\* A mark that the fault leaves is counted, and its rate is at least that of the
\* requests which were hit, divided by the number of events that requests have
\* in the stream.
LEMMA RateAtLeast ==
  ASSUME Shown, NEW x \in Streams, NEW m \in Marks, m # "any",
         Tally[fault][x][m] >= 1, NEW k \in Nat, Tally[fault][x]["any"] <= k,
         current[Fine] = 0 \/ Tally[Fine][x]["any"] <= k,
         NEW q \in Nat, q * (k * MaxCurrent) <= 1000 * current[fault]
  PROVE  Rate(current, x, m) >= q /\ Count(current, x, m) > 0
<1> DEFINE a == Count(current, x, m)
           n == Count(current, x, "any")
           f == current[Fine]
           h == current[fault]
           t == Tally[fault][x][m]
           u == Tally[Fine][x]["any"]
           v == Tally[fault][x]["any"]
<1>1. /\ f \in Nat /\ h \in Nat /\ h > 0 /\ f + h = MaxCurrent
      /\ t \in Nat /\ u \in Nat /\ v \in Nat
  <2>1. t \in Nat /\ u \in Nat /\ v \in Nat
    BY ShownIs, TallyBounded, StreamsHave
  <2> QED
    BY <2>1, ShownIs DEF Shown
<1>2. a \in Nat /\ n \in Nat /\ a <= n /\ a = h * t /\ n = f * u + h * v
  <2>1. a \in Nat /\ n \in Nat /\ a <= n
    BY CountBounded DEF Shown
  <2> QED
    BY <2>1, Shares
<1>3. /\ t >= 1 /\ v <= k
      /\ f = 0 \/ u <= k
      /\ q * (k * (f + h)) <= 1000 * h
  BY <1>1
<1>4. Rate(current, x, m) = IF n = 0 THEN 0 ELSE (1000 * a) \div n
  BY DEF Rate
<1> HIDE DEF a, n, f, h, t, u, v
<1>5. h <= a
  <2>1. h * 1 <= h * t
    BY <1>1, <1>3, TimesGrows
  <2> QED
    BY <1>1, <1>2, <2>1
<1>6. n <= k * (f + h)
  <2>1. h * v <= h * k
    BY <1>1, <1>3, TimesGrows
  <2>2. CASE f = 0
    <3>1. f * u = 0 /\ k * (f + h) = h * k
      BY <1>1, <2>2
    <3> QED
      BY <1>1, <1>2, <2>1, <3>1
  <2>3. CASE u <= k
    <3>1. f * u <= f * k
      BY <1>1, <2>3, TimesGrows
    <3>2. k * (f + h) = f * k + h * k
      BY <1>1
    <3>3. f * u \in Nat /\ h * v \in Nat /\ f * k \in Nat /\ h * k \in Nat
      BY <1>1
    <3> QED
      BY <1>2, <2>1, <3>1, <3>2, <3>3
  <2> QED
    BY <1>3, <2>2, <2>3
<1>7. q * n <= 1000 * a
  <2> DEFINE b == k * (f + h)
  <2>1. b \in Nat
    BY <1>1
  <2>2. n <= b /\ q * b <= 1000 * h
    BY <1>3, <1>6
  <2> HIDE DEF b
  <2>3. q * n <= q * b /\ q * n \in Nat /\ q * b \in Nat
    BY <1>2, <2>1, <2>2, TimesGrows
  <2> QED
    BY <1>1, <1>2, <1>5, <2>2, <2>3
<1>8. n > 0 /\ a > 0
  BY <1>1, <1>2, <1>5
<1>9. (1000 * a) \div n >= q
  <2> DEFINE b == 1000 * a
  <2>1. b \in Nat /\ q * n <= b
    BY <1>2, <1>7
  <2> HIDE DEF b
  <2>2. b \div n >= q
    BY <1>2, <1>8, <2>1, QuotientAtLeast
  <2> QED
    BY <2>2 DEF b
<1>10. Rate(current, x, m) >= q /\ a > 0
  BY <1>2, <1>4, <1>8, <1>9
<1> QED
  BY <1>10 DEF a

\* Nothing shows in the latency but waiting for a timeout, and that does where
\* all waited.
LEMMA LatencyIs ==
  ASSUME Shown, NEW x \in Streams
  PROVE  /\ Tally[fault][x]["slow"] = 0 => Latency(x) \in {0, 231}
         /\ /\ current[Fine] = 0 /\ Tally[fault][x]["slow"] >= 1
            /\ Tally[fault][x]["any"] = Tally[fault][x]["slow"]
            => Latency(x) = 1000
         /\ current[Fine] = 0 /\ Tally[fault][x]["any"] = 0 => Latency(x) = 0
         /\ Tally[fault][x]["any"] >= 1 /\ Tally[fault][x]["slow"] = 0 => Latency(x) = 231
<1> DEFINE a == Count(current, x, "slow")
           n == Count(current, x, "any")
           f == current[Fine]
           h == current[fault]
           t == Tally[fault][x]["slow"]
           u == Tally[Fine][x]["any"]
           v == Tally[fault][x]["any"]
<1>1. f \in Nat /\ h \in Nat /\ h > 0 /\ t \in Nat /\ u \in Nat /\ v \in Nat
  <2>1. t \in Nat /\ u \in Nat /\ v \in Nat
    BY ShownIs, TallyBounded, StreamsHave
  <2> QED
    BY <2>1, ShownIs DEF Shown
<1>2. a \in Nat /\ n \in Nat /\ a <= n /\ a = h * t /\ n = f * u + h * v
  <2>1. a \in Nat /\ n \in Nat /\ a <= n
    BY CountBounded, StreamsHave DEF Shown
  <2> QED
    BY <2>1, Shares, StreamsHave
<1>3. Latency(x) = IF n = 0 THEN 0 ELSE IF a = 0 THEN 231
                   ELSE IF a = n THEN 1000 ELSE Mixed[x]
  BY DEF Latency
<1> HIDE DEF a, n, f, h, t, u, v
<1>4. t = 0 => a = 0
  BY <1>1, <1>2
<1>5. f = 0 /\ t >= 1 /\ v = t => a > 0 /\ a = n
  <2>1. t >= 1 => h * 1 <= h * t
    BY <1>1, TimesGrows
  <2>2. f = 0 => f * u = 0
    BY <1>1
  <2> QED
    BY <1>1, <1>2, <2>1, <2>2
<1>6. f = 0 /\ v = 0 => n = 0
  BY <1>1, <1>2
<1>7. v >= 1 => n > 0
  <2>1. v >= 1 => h * 1 <= h * v
    BY <1>1, TimesGrows
  <2>2. f * u \in Nat /\ h * v \in Nat
    BY <1>1
  <2> QED
    BY <1>1, <1>2, <2>1, <2>2
<1>8. /\ t = 0 => Latency(x) \in {0, 231}
      /\ f = 0 /\ t >= 1 /\ v = t => Latency(x) = 1000
      /\ f = 0 /\ v = 0 => Latency(x) = 0
      /\ v >= 1 /\ t = 0 => Latency(x) = 231
  BY <1>1, <1>2, <1>3, <1>4, <1>5, <1>6, <1>7
<1> QED
  BY <1>8 DEF f, t, v

\* The evidence of a fault: rates and latencies of the stretch that it is in.
LEMMA SeenIs ==
  ASSUME Shown
  PROVE  /\ \A s \in Names :
              /\ Service(s).emitted = Rate(current, <<"emitted", s>>, "failed")
              /\ Service(s).inbound = Rate(current, <<"inbound", s>>, "failed")
              /\ Service(s).latency = Latency(<<"emitted", s>>)
              /\ Service(s).locked = Rate(current, <<"emitted", s>>, "locked")
         /\ \A e \in EdgeNames :
              /\ Edge(e).failure = Rate(current, <<"edge", e>>, "failed")
              /\ Edge(e).latency = Latency(<<"edge", e>>)
              /\ Edge(e).timeout = Rate(current, <<"edge", e>>, "timeout")
              /\ Edge(e).connection = Rate(current, <<"edge", e>>, "connect")
              /\ Edge(e).status503 = Rate(current, <<"edge", e>>, "503")
         /\ evidence.database.errors = Rate(current, <<"all", "events">>, "database")
         /\ evidence.database.affected =
              Cardinality({s \in Names : Count(current, <<"emitted", s>>, "failed") > 0})
<1>1. /\ evidence.service = ServiceEvidence /\ evidence.edge = EdgeEvidence
      /\ evidence.database = DatabaseEvidence
  BY DEF Shown
<1>2. \A x \in Streams, m \in Marks : m # "any" => Increase(x, m) = Rate(current, x, m)
  BY Shares
<1>3. ASSUME NEW s \in Names
      PROVE  /\ Service(s).emitted = Rate(current, <<"emitted", s>>, "failed")
             /\ Service(s).inbound = Rate(current, <<"inbound", s>>, "failed")
             /\ Service(s).latency = Latency(<<"emitted", s>>)
             /\ Service(s).locked = Rate(current, <<"emitted", s>>, "locked")
  <2> DEFINE a == Increase(<<"emitted", s>>, "failed")
             b == Increase(<<"inbound", s>>, "failed")
             c == Latency(<<"emitted", s>>)
             d == Rate(current, <<"emitted", s>>, "locked")
  <2>1. Service(s) = [emitted |-> a, inbound |-> b, latency |-> c, locked |-> d]
    BY <1>1 DEF Service, ServiceEvidence
  <2>2. /\ a = Rate(current, <<"emitted", s>>, "failed")
        /\ b = Rate(current, <<"inbound", s>>, "failed")
    BY <1>2, StreamsHave
  <2> HIDE DEF a, b, c, d
  <2>3. /\ Service(s).emitted = a /\ Service(s).inbound = b
        /\ Service(s).latency = c /\ Service(s).locked = d
    BY <2>1
  <2> QED
    BY <2>2, <2>3 DEF c, d
<1>4. ASSUME NEW e \in EdgeNames
      PROVE  /\ Edge(e).failure = Rate(current, <<"edge", e>>, "failed")
             /\ Edge(e).latency = Latency(<<"edge", e>>)
             /\ Edge(e).timeout = Rate(current, <<"edge", e>>, "timeout")
             /\ Edge(e).connection = Rate(current, <<"edge", e>>, "connect")
             /\ Edge(e).status503 = Rate(current, <<"edge", e>>, "503")
  <2> DEFINE x == <<"edge", e>>
             a == Increase(x, "failed")
             b == Latency(x)
             c == Rate(current, x, "timeout")
             d == Rate(current, x, "connect")
             f == Rate(current, x, "503")
  <2>1. Edge(e) = [failure |-> a, latency |-> b, timeout |-> c,
                   connection |-> d, status503 |-> f]
    BY <1>1 DEF Edge, EdgeEvidence
  <2>2. a = Rate(current, x, "failed")
    BY <1>2, StreamsHave
  <2> HIDE DEF a, b, c, d, f
  <2>3. /\ Edge(e).failure = a /\ Edge(e).latency = b /\ Edge(e).timeout = c
        /\ Edge(e).connection = d /\ Edge(e).status503 = f
    BY <2>1
  <2> QED
    BY <2>2, <2>3 DEF b, c, d, f
<1>5. evidence.database.errors = Rate(current, <<"all", "events">>, "database")
  BY <1>1, <1>2, StreamsHave DEF DatabaseEvidence
<1>6. evidence.database.affected =
        Cardinality({s \in Names : Count(current, <<"emitted", s>>, "failed") > 0})
  BY <1>1 DEF DatabaseEvidence
<1> QED
  BY <1>3, <1>4, <1>5, <1>6

\* It is bounded.
LEMMA ShownMeasured == ASSUME Shown PROVE Measured(evidence)
BY EvidenceBounded DEF Shown

-----------------------------------------------------------------------------
(* Localization: what a fault shows                                        *)

\* Services that do not fail show nothing.
LEMMA SoundShows ==
  ASSUME Shown, NEW s \in Names, s \notin Hurt(fault)
  PROVE  /\ Service(s).emitted = 0 /\ Service(s).latency \in {0, 231}
         /\ Count(current, <<"emitted", s>>, "failed") = 0
<1> DEFINE x == <<"emitted", s>>
<1>1. x \in Streams /\ "failed" \in Marks /\ "failed" # "any" /\ fault \in Faults
  BY StreamsHave DEF Shown
<1>2. Tally[fault][x]["failed"] = 0 /\ Tally[fault][x]["slow"] = 0
  BY <1>1, SoundTally
<1>3. Service(s).emitted = Rate(current, x, "failed") /\ Service(s).latency = Latency(x)
  BY SeenIs
<1> HIDE DEF x
<1>4. Rate(current, x, "failed") = 0 /\ Count(current, x, "failed") = 0
  BY <1>1, <1>2, RateNone
<1>5. Latency(x) \in {0, 231}
  BY <1>1, <1>2, LatencyIs
<1> QED
  BY <1>3, <1>4, <1>5 DEF x

\* Nobody reports of a service to which no call is broken.
LEMMA UncalledShows ==
  ASSUME Shown, NEW s \in Names, \A d \in Broken(fault) : Calls[d].to # s
  PROVE  Service(s).inbound = 0
<1> DEFINE x == <<"inbound", s>>
<1>1. x \in Streams /\ "failed" \in Marks /\ "failed" # "any" /\ fault \in Faults
  BY StreamsHave DEF Shown
<1>2. Tally[fault][x]["failed"] = 0
  BY <1>1, InboundTally
<1>3. Service(s).inbound = Rate(current, x, "failed")
  BY SeenIs
<1> HIDE DEF x
<1> QED
  BY <1>1, <1>2, <1>3, RateNone

\* A dependency none of whose calls is broken does not fail.
LEMMA IntactShows ==
  ASSUME Shown, NEW d \in 1..7, d \notin Broken(fault)
  PROVE  Edge(EdgeOf[d]).failure = 0
<1> DEFINE x == <<"edge", EdgeOf[d]>>
<1>1. x \in Streams /\ "failed" \in Marks /\ "failed" # "any" /\ fault \in Faults
  BY StreamsHave, CallsDiffer DEF Shown
<1>2. Tally[fault][x]["failed"] = 0
  BY <1>1, EdgeShows
<1>3. Edge(EdgeOf[d]).failure = Rate(current, x, "failed")
  BY SeenIs, CallsDiffer
<1> HIDE DEF x
<1> QED
  BY <1>1, <1>2, <1>3, RateNone

\* Without a timeout, nothing is slow.
LEMMA QuickShows ==
  ASSUME Shown, ~Slow(fault)
  PROVE  /\ \A s \in Names : Service(s).latency \in {0, 231}
         /\ \A e \in EdgeNames : Edge(e).latency \in {0, 231} /\ Edge(e).timeout = 0
<1>1. "timeout" \in Marks /\ "timeout" # "any" /\ fault \in Faults
  BY StreamsHave DEF Shown
<1>2. ASSUME NEW x \in Streams
      PROVE  Latency(x) \in {0, 231} /\ Rate(current, x, "timeout") = 0
  <2>1. Tally[fault][x]["slow"] = 0 /\ Tally[fault][x]["timeout"] = 0
    BY <1>1, QuickTally
  <2> QED
    BY <1>1, <2>1, LatencyIs, RateNone
<1>3. ASSUME NEW s \in Names PROVE Service(s).latency \in {0, 231}
  <2>1. <<"emitted", s>> \in Streams
    BY StreamsHave
  <2>2. Service(s).latency = Latency(<<"emitted", s>>)
    BY SeenIs
  <2> QED
    BY <1>2, <2>1, <2>2
<1>4. ASSUME NEW e \in EdgeNames
      PROVE  Edge(e).latency \in {0, 231} /\ Edge(e).timeout = 0
  <2>1. <<"edge", e>> \in Streams
    BY StreamsHave
  <2>2. /\ Edge(e).latency = Latency(<<"edge", e>>)
        /\ Edge(e).timeout = Rate(current, <<"edge", e>>, "timeout")
    BY SeenIs
  <2> QED
    BY <1>2, <2>1, <2>2
<1> QED
  BY <1>3, <1>4

\* Nobody says words that the fault does not leave.
LEMMA WordsShow ==
  ASSUME Shown
  PROVE  /\ fault[2] # "database" => evidence.database.errors = 0
         /\ fault[2] # "locked" => \A s \in Names : Service(s).locked = 0
         /\ fault[2] # "connect" => \A e \in EdgeNames : Edge(e).connection = 0
         /\ fault[2] \notin {"connect", "unavailable"} =>
              \A e \in EdgeNames : Edge(e).status503 = 0
<1>1. /\ "database" \in Marks /\ "locked" \in Marks /\ "connect" \in Marks
      /\ "503" \in Marks /\ fault \in Faults
  BY StreamsHave DEF Shown
<1>2. ASSUME NEW x \in Streams
      PROVE  /\ fault[2] # "database" => Rate(current, x, "database") = 0
             /\ fault[2] # "locked" => Rate(current, x, "locked") = 0
             /\ fault[2] # "connect" => Rate(current, x, "connect") = 0
             /\ fault[2] \notin {"connect", "unavailable"} => Rate(current, x, "503") = 0
  BY <1>1, WordTally, RateNone
<1>3. fault[2] # "database" => evidence.database.errors = 0
  <2>1. <<"all", "events">> \in Streams
    BY StreamsHave
  <2> QED
    BY <1>2, <2>1, SeenIs
<1>4. fault[2] # "locked" => \A s \in Names : Service(s).locked = 0
  BY <1>2, StreamsHave, SeenIs
<1>5. ASSUME NEW e \in EdgeNames
      PROVE  /\ fault[2] # "connect" => Edge(e).connection = 0
             /\ fault[2] \notin {"connect", "unavailable"} => Edge(e).status503 = 0
  <2>1. <<"edge", e>> \in Streams
    BY StreamsHave
  <2>2. /\ Edge(e).connection = Rate(current, <<"edge", e>>, "connect")
        /\ Edge(e).status503 = Rate(current, <<"edge", e>>, "503")
    BY SeenIs
  <2> QED
    BY <1>2, <2>1, <2>2
<1> QED
  BY <1>3, <1>4, <1>5

\* A dependency with a call that breaks shows it, and why.
LEMMA BrokenShows ==
  ASSUME Shown, NEW d \in Broken(fault), NEW q \in Nat, q * MaxCurrent <= 1000 * current[fault]
  PROVE  LET ev == Edge(EdgeOf[d])
         IN  /\ ev.failure >= q
             /\ Slow(fault) => ev.timeout >= q
             /\ d = fault[1] /\ fault[2] = "connect" => ev.connection >= q
             /\ d = fault[1] /\ fault[2] = "unavailable" => ev.status503 >= q
<1> DEFINE x == <<"edge", EdgeOf[d]>>
<1>0. fault \in Faults /\ d \in 1..7 /\ Fine \in Outcomes /\ fault \in Outcomes
  BY ShownIs, BrokenAreMade DEF Shown
<1>1. /\ x \in Streams /\ EdgeOf[d] \in EdgeNames
      /\ {"failed", "timeout", "connect", "503"} \subseteq Marks
  BY <1>0, StreamsHave, CallsDiffer
<1>2. /\ Tally[fault][x]["any"] <= 1 /\ Tally[Fine][x]["any"] <= 1
      /\ Tally[fault][x]["failed"] = 1
      /\ Slow(fault) => Tally[fault][x]["timeout"] = 1
      /\ d = fault[1] /\ fault[2] = "connect" => Tally[fault][x]["connect"] = 1
      /\ d = fault[1] /\ fault[2] = "unavailable" => Tally[fault][x]["503"] = 1
  <2>1. Tally[Fine][x]["any"] <= 1
    BY <1>0, EdgeTally DEF Marks
  <2> QED
    BY <1>0, <2>1, EdgeShows
<1>3. /\ Edge(EdgeOf[d]).failure = Rate(current, x, "failed")
      /\ Edge(EdgeOf[d]).timeout = Rate(current, x, "timeout")
      /\ Edge(EdgeOf[d]).connection = Rate(current, x, "connect")
      /\ Edge(EdgeOf[d]).status503 = Rate(current, x, "503")
  BY <1>1, SeenIs
<1> HIDE DEF x
<1>4. ASSUME NEW m \in {"failed", "timeout", "connect", "503"}, Tally[fault][x][m] = 1
      PROVE  Rate(current, x, m) >= q
  <2>1. m \in Marks /\ m # "any" /\ Tally[fault][x][m] >= 1
    BY <1>1, <1>4
  <2>2. 1 \in Nat /\ q * (1 * MaxCurrent) <= 1000 * current[fault]
    <3>1. 1 * MaxCurrent = MaxCurrent
      BY ShownIs
    <3> QED
      BY <3>1
  <2> QED
    BY <1>1, <1>2, <2>1, <2>2, RateAtLeast
<1> QED
  BY <1>2, <1>3, <1>4

\* What the transport shows of a dependency is the greatest of what it may be.
LEMMA TransportIs ==
  ASSUME NEW v, OfEdge(v)
  PROVE  /\ Transport(v) \in {v.timeout, v.connection, v.status503}
         /\ Unreached(v) \in {v.connection, v.status503}
         /\ Transport(v) >= v.timeout
         /\ Transport(v) >= Unreached(v)
         /\ Unreached(v) >= v.connection /\ Unreached(v) >= v.status503
<1> DEFINE a == v.timeout
           b == v.connection
           c == v.status503
<1>1. Within(1000, a) /\ Within(1000, b) /\ Within(1000, c)
  BY DEF OfEdge
<1>2. Transport(v) = Max({a, b, c}) /\ Unreached(v) = Max({b, c})
  BY DEF Transport, Unreached
<1> HIDE DEF a, b, c
<1>3. IsFiniteSet({a, b, c}) /\ IsFiniteSet({b, c})
  BY FewAreFinite
<1>4. {a, b, c} \in SUBSET Int /\ {b, c} \in SUBSET Int
  BY <1>1 DEF Within
<1>5. /\ Max({a, b, c}) \in {a, b, c} /\ Max({b, c}) \in {b, c}
      /\ \A k \in {a, b, c} : Max({a, b, c}) >= k
      /\ \A k \in {b, c} : Max({b, c}) >= k
  BY <1>3, <1>4, MaxIsGreatest
<1>6. /\ Max({a, b, c}) >= a /\ Max({a, b, c}) >= Max({b, c})
      /\ Max({b, c}) >= b /\ Max({b, c}) >= c
  BY <1>5
<1> QED
  BY <1>2, <1>5, <1>6 DEF a, b, c

\* A service that all calls reach has not been missed.
LEMMA StrengthNone ==
  ASSUME Measured(evidence), NEW s, \A e \in Into(s) : Unreached(Edge(e)) = 0
  PROVE  Strength(s) = 0
<1> DEFINE f == [e \in Into(s) |-> Unreached(Edge(e))]
           S == {f[e] : e \in Into(s)}
<1>1. IsFiniteSet(Into(s))
  BY NamesFinite, FS_Subset DEF Into
<1>2. \A e \in Into(s) : f[e] = 0
  OBVIOUS
<1>3. Strength(s) = Highest(S)
  <2>1. S = {Unreached(Edge(e)) : e \in Into(s)}
    OBVIOUS
  <2> QED
    BY <2>1 DEF Strength
<1> HIDE DEF f
<1>4. IsFiniteSet(S) /\ \A k \in S : Within(0, k)
  BY <1>1, <1>2, FiniteImage DEF Within
<1> HIDE DEF S
<1>5. Within(0, Highest(S))
  <2>1. 0 \in Nat
    OBVIOUS
  <2> QED
    BY <1>4, <2>1, HighestBounded
<1> QED
  BY <1>3, <1>5 DEF Within

\* A trouble that is not about reaching somebody leaves nobody unavailable.
LEMMA AllReached ==
  ASSUME Shown, fault[2] \notin {"connect", "unavailable"}
  PROVE  /\ \A e \in EdgeNames : Unreached(Edge(e)) = 0
         /\ \A e \in EdgeNames : Transport(Edge(e)) = Edge(e).timeout
         /\ Unavailable = {}
<1>1. Measured(evidence)
  BY ShownMeasured
<1>2. ASSUME NEW e \in EdgeNames
      PROVE  Unreached(Edge(e)) = 0 /\ Transport(Edge(e)) = Edge(e).timeout
  <2> DEFINE v == Edge(e)
  <2>1. OfEdge(v)
    BY <1>1 DEF Measured, Edge
  <2>2. v.connection = 0 /\ v.status503 = 0
    BY WordsShow
  <2> HIDE DEF v
  <2>3. Unreached(v) = 0
    BY <2>1, <2>2, TransportIs
  <2>4. Transport(v) \in {v.timeout, 0} /\ Transport(v) >= v.timeout
    BY <2>1, <2>2, TransportIs
  <2>5. v.timeout \in Nat
    BY <2>1 DEF OfEdge, Within
  <2> QED
    BY <2>3, <2>4, <2>5 DEF v
<1>3. ASSUME NEW s PROVE Strength(s) = 0
  BY <1>1, <1>2, StrengthNone DEF Into
<1>4. Unavailable = {}
  BY <1>3 DEF Unavailable
<1> QED
  BY <1>2, <1>4

\* One fault does not make five services slow.
LEMMA NoBroadLoad == ASSUME Shown PROVE ~BroadLoad
<1> DEFINE S == {s \in Names : Service(s).latency > 500}
<1>1. ASSUME NEW s \in S PROVE s \in Hurt(fault)
  <2>1. s \in Names /\ Service(s).latency > 500
    OBVIOUS
  <2>2. s \notin Hurt(fault) => Service(s).latency \in {0, 231}
    BY <2>1, SoundShows
  <2> QED
    BY <2>1, <2>2
<1>2. S \subseteq Hurt(fault) /\ fault \in Faults
  BY <1>1 DEF Shown
<1>3. BroadLoad => Cardinality(S) >= 5
  BY DEF BroadLoad
<1> HIDE DEF S
<1>4. IsFiniteSet(S) /\ Cardinality(S) <= 4
  BY <1>2, FailingFew
<1>5. Cardinality(S) \in Nat
  BY <1>4, FS_CardinalityType
<1> QED
  BY <1>3, <1>4, <1>5

\* The database is blamed for no trouble but its own and one that keeps every
\* login waiting.
LEMMA DatabaseSilent ==
  ASSUME Shown, fault[2] # "database",
         fault[1] # 1 \/ ~Slow(fault) \/ fault[2] = "timeout"
  PROVE  ~DatabaseFails
<1>1. evidence.database.errors = 0
  BY WordsShow
<1>2. fault \in Faults /\ fault[1] \in 1..7
  BY FaultsAre DEF Shown
<1>3. "authentication" \in Names
  BY DEF Names
<1>4. CASE ~Slow(fault)
  <2>1. Service("authentication").latency \in {0, 231}
    BY <1>3, <1>4, QuickShows
  <2> QED
    BY <1>1, <2>1 DEF DatabaseFails
<1>5. CASE fault[1] # 1 \/ fault[2] = "timeout"
  <2>1. "authentication" \notin Upstream(fault[1])
    BY <1>2, UpstreamIs
  <2>2. fault[1] # 1 => Calls[fault[1]].to # "authentication"
    BY <1>2, SevenCalls, CallTable
  <2>3. "authentication" \notin Hurt(fault)
    BY <1>5, <2>1, <2>2 DEF Hurt
  <2>4. Service("authentication").emitted = 0
    BY <1>3, <2>3, SoundShows
  <2> QED
    BY <1>1, <2>4 DEF DatabaseFails
<1> QED
  BY <1>4, <1>5

\* The rule for services that are slow and fail in both directions picks one of
\* them, and none that is less deep than another.
LEMMA DeepestExhaustedIs ==
  ASSUME Measured(evidence), Exhausted # {}
  PROVE  /\ DeepestExhausted \in Exhausted /\ DeepestExhausted \in Names
         /\ \A s \in Exhausted : Depth[s] <= Depth[DeepestExhausted]
<1> DEFINE f == [s \in Exhausted |->
                   <<Depth[s], Service(s).locked, Service(s).inbound * Service(s).emitted,
                     Place(s)>>]
           keys == {f[s] : s \in Exhausted}
<1>1. \A s \in Exhausted : s \in Names
  BY DEF Exhausted
<1>2. IsFiniteSet(Exhausted)
  BY <1>1, NamesFinite, FS_Subset
<1>3. ASSUME NEW s \in Exhausted
      PROVE  /\ Depth[s] \in Int /\ Service(s).locked \in Int
             /\ Service(s).inbound * Service(s).emitted \in Int /\ Place(s) \in Int
             /\ Candidates[Place(s)] = s
  <2>1. /\ Service(s).inbound \in Int /\ Service(s).emitted \in Int
        /\ Service(s).locked \in Int
    BY <1>1 DEF Measured, OfService, Within, Service
  <2>2. Depth[s] \in Int
    BY <1>1, CallsAre
  <2> QED
    BY <1>1, <2>1, <2>2, PlaceIs
<1>4. ASSUME NEW s \in Exhausted
      PROVE  /\ Len(f[s]) = 4 /\ f[s][1] = Depth[s] /\ f[s][4] = Place(s)
             /\ \A i \in 1..4 : f[s][i] \in Int
  <2> DEFINE a == Depth[s]
             b == Service(s).locked
             c == Service(s).inbound * Service(s).emitted
             q == Place(s)
  <2>1. f[s] = <<a, b, c, q>>
    OBVIOUS
  <2>2. a \in Int /\ b \in Int /\ c \in Int /\ q \in Int
    BY <1>3
  <2> HIDE DEF f, a, b, c, q
  <2>3. /\ f[s][1] = a /\ f[s][2] = b /\ f[s][3] = c /\ f[s][4] = q
        /\ Len(f[s]) = 4
    BY <2>1
  <2>4. \A i \in 1..4 : i = 1 \/ i = 2 \/ i = 3 \/ i = 4
    OBVIOUS
  <2> QED
    BY <2>2, <2>3, <2>4 DEF a, q
<1>5. DeepestExhausted = Candidates[Leading(keys)[4]]
  <2>1. keys = {<<Depth[s], Service(s).locked,
                  Service(s).inbound * Service(s).emitted, Place(s)>> : s \in Exhausted}
    OBVIOUS
  <2> QED
    BY <2>1 DEF DeepestExhausted
<1> HIDE DEF f
<1>6. IsFiniteSet(keys) /\ keys # {}
  BY <1>2, FiniteImage
<1>7. \A k \in keys : Len(k) = 4 /\ \A i \in 1..4 : k[i] \in Int
  BY <1>4
<1>8. /\ Leading(keys) \in keys
      /\ \A l \in keys : Before(Leading(keys), l, 4) \/ Alike(Leading(keys), l, 4)
  <2>1. 4 \in Nat /\ 4 > 0
    OBVIOUS
  <2> HIDE DEF keys
  <2> QED
    BY <1>6, <1>7, <2>1, LeadingIs
<1>9. PICK s \in Exhausted : Leading(keys) = f[s]
  BY <1>8
<1>10. DeepestExhausted = s
  BY <1>3, <1>4, <1>5, <1>9
<1>11. ASSUME NEW q \in Exhausted PROVE Depth[q] <= Depth[s]
  <2>1. Before(f[s], f[q], 4) \/ Alike(f[s], f[q], 4)
    BY <1>8, <1>9
  <2>2. f[s][1] >= f[q][1]
    <3>1. 4 \in Nat /\ 4 > 0 /\ f[s][1] \in Int /\ f[q][1] \in Int
      BY <1>3, <1>4
    <3> QED
      BY <2>1, <3>1, LeadsInFirst
  <2> QED
    BY <1>3, <1>4, <2>2
<1> QED
  BY <1>1, <1>10, <1>11

\* The rule for dependencies that fail though the transport is sound picks the
\* callee of one of them, and of none whose caller is less deep than another's.
LEMMA DeepestErringIs ==
  ASSUME Measured(evidence), Erring # {}
  PROVE  \E e \in Erring :
           /\ DeepestErring = Callee(e)
           /\ \A d \in Erring : Depth[Caller(d)] <= Depth[Caller(e)]
<1> DEFINE f == [e \in Erring |->
                   <<Depth[Caller(e)], Edge(e).failure, Depth[Callee(e)], Place(Callee(e))>>]
           keys == {f[e] : e \in Erring}
<1>1. \A e \in Erring : e \in EdgeNames
  BY DEF Erring
<1>2. IsFiniteSet(Erring)
  BY <1>1, NamesFinite, FS_Subset
<1>3. ASSUME NEW e \in Erring
      PROVE  /\ Depth[Caller(e)] \in Int /\ Depth[Callee(e)] \in Int
             /\ Edge(e).failure \in Int /\ Place(Callee(e)) \in Int
             /\ Candidates[Place(Callee(e))] = Callee(e)
  <2>1. Edge(e).failure \in Int
    BY <1>1 DEF Measured, OfEdge, Within, Edge
  <2>2. Depth[Caller(e)] \in Int /\ Depth[Callee(e)] \in Int
    BY <1>1, CallsAre
  <2>3. Callee(e) \in Names
    BY <1>1, CallsAre
  <2> QED
    BY <2>1, <2>2, <2>3, PlaceIs
<1>4. ASSUME NEW e \in Erring
      PROVE  /\ Len(f[e]) = 4 /\ f[e][1] = Depth[Caller(e)] /\ f[e][4] = Place(Callee(e))
             /\ \A i \in 1..4 : f[e][i] \in Int
  <2> DEFINE a == Depth[Caller(e)]
             b == Edge(e).failure
             c == Depth[Callee(e)]
             d == Place(Callee(e))
  <2>1. f[e] = <<a, b, c, d>>
    OBVIOUS
  <2>2. a \in Int /\ b \in Int /\ c \in Int /\ d \in Int
    BY <1>3
  <2> HIDE DEF f, a, b, c, d
  <2>3. /\ f[e][1] = a /\ f[e][2] = b /\ f[e][3] = c /\ f[e][4] = d
        /\ Len(f[e]) = 4
    BY <2>1
  <2>4. \A i \in 1..4 : i = 1 \/ i = 2 \/ i = 3 \/ i = 4
    OBVIOUS
  <2> QED
    BY <2>2, <2>3, <2>4 DEF a, d
<1>5. DeepestErring = Candidates[Leading(keys)[4]]
  <2>1. keys = {<<Depth[Caller(e)], Edge(e).failure, Depth[Callee(e)], Place(Callee(e))>> :
                e \in Erring}
    OBVIOUS
  <2> QED
    BY <2>1 DEF DeepestErring
<1> HIDE DEF f
<1>6. IsFiniteSet(keys) /\ keys # {}
  BY <1>2, FiniteImage
<1>7. \A k \in keys : Len(k) = 4 /\ \A i \in 1..4 : k[i] \in Int
  BY <1>4
<1>8. /\ Leading(keys) \in keys
      /\ \A l \in keys : Before(Leading(keys), l, 4) \/ Alike(Leading(keys), l, 4)
  <2>1. 4 \in Nat /\ 4 > 0
    OBVIOUS
  <2> HIDE DEF keys
  <2> QED
    BY <1>6, <1>7, <2>1, LeadingIs
<1>9. PICK e \in Erring : Leading(keys) = f[e]
  BY <1>8
<1>10. DeepestErring = Callee(e)
  BY <1>3, <1>4, <1>5, <1>9
<1>11. ASSUME NEW d \in Erring PROVE Depth[Caller(d)] <= Depth[Caller(e)]
  <2>1. Before(f[e], f[d], 4) \/ Alike(f[e], f[d], 4)
    BY <1>8, <1>9
  <2>2. f[e][1] >= f[d][1]
    <3>1. 4 \in Nat /\ 4 > 0 /\ f[e][1] \in Int /\ f[d][1] \in Int
      BY <1>3, <1>4
    <3> QED
      BY <2>1, <3>1, LeadsInFirst
  <2> QED
    BY <1>3, <1>4, <2>2
<1> QED
  BY <1>1, <1>10, <1>11

-----------------------------------------------------------------------------
(* Localization: a clear fault leads                                       *)

\* What every request leaves that the fault hits, and they all are, shows.
LEMMA AllShow ==
  ASSUME Shown, current[fault] = MaxCurrent, NEW x \in Streams, NEW m \in Marks, m # "any",
         Tally[fault][x][m] >= 1, NEW k \in Nat, Tally[fault][x]["any"] <= k,
         NEW q \in Nat, q * k <= 1000
  PROVE  Rate(current, x, m) >= q /\ Count(current, x, m) > 0
<1> DEFINE n == MaxCurrent
           h == current[fault]
           a == q * k
<1>1. n \in Nat /\ h = n /\ current[Fine] + h = n /\ current[Fine] \in Nat
  BY ShownIs DEF Shown
<1>2. current[Fine] = 0
  BY <1>1
<1>3. a \in Nat /\ a <= 1000 /\ 1000 \in Nat
  OBVIOUS
<1> HIDE DEF n, h
<1>4. q * (k * n) = n * a
  BY <1>1
<1> HIDE DEF a
<1>5. n * a <= n * 1000
  BY <1>1, <1>3, TimesGrows
<1>6. n * 1000 = 1000 * h
  BY <1>1
<1>7. q * (k * n) <= 1000 * h
  BY <1>4, <1>5, <1>6
<1> QED
  BY <1>2, <1>7, RateAtLeast DEF n, h

\* A dependency and its call.
LEMMA EdgesAre ==
  /\ \A d \in 1..7 : /\ EdgeOf[d] \in EdgeNames /\ Caller(EdgeOf[d]) = Calls[d].from
                     /\ Callee(EdgeOf[d]) = Calls[d].to
                     /\ EdgeOf[d] \in Into(Calls[d].to)
  /\ \A e \in EdgeNames : \E d \in 1..7 : e = EdgeOf[d]
<1>1. ASSUME NEW d \in 1..7
      PROVE  /\ EdgeOf[d] \in EdgeNames /\ Caller(EdgeOf[d]) = Calls[d].from
             /\ Callee(EdgeOf[d]) = Calls[d].to /\ EdgeOf[d] \in Into(Calls[d].to)
  BY CallsDiffer DEF Caller, Callee, Into
<1>2. \A e \in EdgeNames : \E d \in 1..7 : e = EdgeOf[d]
  BY CallsAre
<1> QED
  BY <1>1, <1>2

\* Dependencies that fail have a broken call.
LEMMA FailingEdges ==
  ASSUME Shown, NEW e \in EdgeNames, Edge(e).failure # 0
  PROVE  \E d \in Broken(fault) : d \in 1..7 /\ e = EdgeOf[d]
<1>1. PICK d \in 1..7 : e = EdgeOf[d]
  BY EdgesAre
<1>2. d \in Broken(fault)
  BY <1>1, IntactShows
<1> QED
  BY <1>1, <1>2

\* A dependency that times out more often than not leads: its callee is silent,
\* and the others that time out are nearer to the root.
LEMMA TimeoutLed ==
  ASSUME Shown, fault[2] = "timeout", 2 * current[fault] > MaxCurrent
  PROVE  Ruled /\ Lead = EdgeOf[fault[1]]
<1> DEFINE c == fault[1]
           e == EdgeOf[c]
<1>1. c \in 1..7 /\ c \in Broken(fault) /\ Broken(fault) = {c} \cup Calls[c].within
  BY FaultsAre DEF Shown
<1>2. Slow(fault)
  BY DEF Slow
<1>3. 500 * MaxCurrent <= 1000 * current[fault] /\ 500 \in Nat
  BY ShownIs
<1>4. Edge(e).failure >= 500 /\ Edge(e).timeout >= 500
  BY <1>1, <1>2, <1>3, BrokenShows
<1>5. (\A d \in EdgeNames : Unreached(Edge(d)) = 0) /\ Unavailable = {}
  BY AllReached
<1>6. e \in EdgeNames /\ Callee(e) = Calls[c].to /\ Caller(e) = Calls[c].from
  BY <1>1, EdgesAre
<1>7. Service(Callee(e)).emitted = 0
  <2>1. Calls[c].to \notin Hurt(fault) /\ Calls[c].to \in Names
    BY <1>1, UpstreamIs, CallsAre DEF Hurt
  <2> QED
    BY <1>6, <2>1, SoundShows
<1>8. Edge(e).timeout \in Nat /\ Edge(e).failure \in Nat
  BY <1>6, ShownMeasured DEF Measured, OfEdge, Within, Edge
<1>9. e \in TimedOut
  BY <1>4, <1>5, <1>6, <1>7, <1>8 DEF TimedOut
<1>10. ~DatabaseFails /\ ~BroadLoad
  BY DatabaseSilent, NoBroadLoad
<1>11. ASSUME NEW d \in TimedOut, d # e PROVE Depth[Caller(d)] < Depth[Caller(e)]
  <2>1. d \in EdgeNames /\ Edge(d).failure >= 500
    BY DEF TimedOut
  <2>2. Edge(d).failure # 0
    BY <2>1
  <2>3. PICK k \in Broken(fault) : k \in 1..7 /\ d = EdgeOf[k]
    BY <2>1, <2>2, FailingEdges
  <2>4. k \in Calls[c].within
    BY <1>1, <1>11, <2>3
  <2>5. Depth[Calls[k].from] < Depth[Calls[c].from]
    BY <1>1, <2>4, UpstreamIs
  <2> QED
    BY <1>6, <2>3, <2>5, EdgesAre
<1>12. DeepestTimedOut = e
  <2>1. /\ DeepestTimedOut \in TimedOut /\ DeepestTimedOut \in EdgeNames
        /\ Depth[Caller(e)] <= Depth[Caller(DeepestTimedOut)]
    BY <1>9, ShownMeasured, DeepestTimedOutIs
  <2>2. Depth[Caller(e)] \in Int /\ Depth[Caller(DeepestTimedOut)] \in Int
    BY <1>6, <2>1, CallsAre
  <2> QED
    BY <1>11, <2>1, <2>2
<1> QED
  BY <1>5, <1>9, <1>10, <1>12 DEF Ruled, Lead

\* The database leads if it fails at the first service that every request needs.
LEMMA DatabaseLed ==
  ASSUME Shown, fault[2] = "database", fault[1] \in {1, 2}, current[fault] = MaxCurrent
  PROVE  Ruled /\ Lead = "postgresql"
<1> DEFINE x == <<"all", "events">>
<1>1. x \in Streams /\ "database" \in Marks /\ fault \in Faults
  BY StreamsHave DEF Shown
<1>2. Tally[fault][x]["database"] >= 1 /\ Tally[fault][x]["any"] <= 10
  BY <1>1, DatabaseTally
<1>3. evidence.database.errors = Rate(current, x, "database")
  BY SeenIs
<1> HIDE DEF x
<1>4. 10 \in Nat /\ 100 \in Nat /\ 100 * 10 <= 1000 /\ "database" # "any"
  OBVIOUS
<1>5. Rate(current, x, "database") >= 100
  BY <1>1, <1>2, <1>4, AllShow
<1>6. DatabaseFails
  BY <1>3, <1>5 DEF DatabaseFails
<1> QED
  BY <1>6 DEF Ruled, Lead

\* What the callee of a first call shows of a fault that hits every request.
LEMMA OriginShows ==
  ASSUME Shown, current[fault] = MaxCurrent, FirstCall(fault[1])
  PROVE  LET ev == Service(Calls[fault[1]].to)
         IN  /\ ev.inbound >= 1000
             /\ IF fault[2] \in {"timeout", "connect"} THEN ev.emitted = 0 /\ ev.latency = 0
                ELSE /\ ev.emitted >= 1000
                     /\ Slow(fault) => ev.latency = 1000
                     /\ fault[2] = "locked" => ev.locked >= 1000
<1> DEFINE c == fault[1]
           t == Calls[c].to
           x == <<"emitted", t>>
           y == <<"inbound", t>>
<1>1. /\ fault \in Faults /\ fault \in Outcomes /\ c \in 1..7 /\ c \in Broken(fault)
      /\ t \in Names
  BY FaultsAre, CallsAre DEF Shown
<1>2. /\ x \in Streams /\ y \in Streams /\ {"failed", "locked"} \subseteq Marks
      /\ "failed" # "any" /\ "locked" # "any"
  BY <1>1, StreamsHave
<1>3. 1 \in Nat /\ 1000 \in Nat /\ 1000 * 1 <= 1000
  OBVIOUS
<1>4. /\ Service(t).emitted = Rate(current, x, "failed")
      /\ Service(t).inbound = Rate(current, y, "failed")
      /\ Service(t).latency = Latency(x) /\ Service(t).locked = Rate(current, x, "locked")
  BY <1>1, SeenIs
<1>5. Tally[fault][y]["failed"] >= 1 /\ Tally[fault][y]["any"] <= 1
  BY <1>1, InboundTally, InboundFew
<1>6. Rate(current, y, "failed") >= 1000
  <2> HIDE DEF y
  <2> QED
    BY <1>2, <1>3, <1>5, AllShow
<1>7. IF fault[2] \in {"timeout", "connect"} THEN Tally[fault][x]["any"] = 0
      ELSE /\ Tally[fault][x]["any"] = 1 /\ Tally[fault][x]["failed"] = 1
           /\ Slow(fault) => Tally[fault][x]["slow"] = 1
           /\ fault[2] = "locked" => Tally[fault][x]["locked"] = 1
  BY <1>1, OriginTally
<1>8. CASE fault[2] \in {"timeout", "connect"}
  <2>1. Tally[fault][x]["any"] = 0
    BY <1>7, <1>8
  <2>2. current[Fine] = 0
    BY ShownIs DEF Shown
  <2>3. "failed" \in Marks
    BY <1>2
  <2>4. Tally[fault][x]["failed"] = 0
    BY <1>1, <1>2, <2>1, <2>3, TallyBounded
  <2> HIDE DEF x
  <2>5. Latency(x) = 0
    BY <1>2, <2>1, <2>2, LatencyIs
  <2>6. Rate(current, x, "failed") = 0
    BY <1>2, <2>4, RateNone
  <2> QED
    BY <1>4, <1>6, <1>8, <2>5, <2>6
<1>9. CASE fault[2] \notin {"timeout", "connect"}
  <2>1. /\ Tally[fault][x]["any"] <= 1 /\ Tally[fault][x]["failed"] >= 1
        /\ Slow(fault) => /\ Tally[fault][x]["slow"] >= 1
                          /\ Tally[fault][x]["any"] = Tally[fault][x]["slow"]
        /\ fault[2] = "locked" => Tally[fault][x]["locked"] >= 1
        /\ current[Fine] = 0
    BY <1>7, <1>9, ShownIs DEF Shown
  <2> HIDE DEF x
  <2>2. Rate(current, x, "failed") >= 1000
    BY <1>2, <1>3, <2>1, AllShow
  <2>3. fault[2] = "locked" => Rate(current, x, "locked") >= 1000
    BY <1>2, <1>3, <2>1, AllShow
  <2>4. Slow(fault) => Latency(x) = 1000
    BY <1>2, <2>1, LatencyIs
  <2> QED
    BY <1>4, <1>6, <1>9, <2>2, <2>3, <2>4
<1> QED
  BY <1>8, <1>9

\* The database leads, too, if it keeps every login waiting.
LEMMA LoginLed ==
  ASSUME Shown, fault = <<1, "late">>, current[fault] = MaxCurrent
  PROVE  Ruled /\ Lead = "postgresql"
<1>1. fault[1] = 1 /\ fault[2] = "late" /\ fault \in Faults /\ Slow(fault)
  BY DEF Shown, Slow
<1>2. FirstCall(1) /\ Calls[1].to = "authentication" /\ EdgeOf[1] = "gateway->authentication"
  BY CallTable DEF FirstCall, EdgeOf
<1>3. /\ Service("authentication").inbound >= 1000
      /\ Service("authentication").emitted >= 1000
      /\ Service("authentication").latency = 1000
  BY <1>1, <1>2, OriginShows
<1>4. 1 \in Broken(fault) /\ 1 \in 1..7
  BY <1>1, FaultsAre
<1>5. 1000 \in Nat /\ 1000 * MaxCurrent <= 1000 * current[fault]
  BY ShownIs
<1>6. /\ Edge("gateway->authentication").failure >= 1000
      /\ Edge("gateway->authentication").timeout >= 1000
  BY <1>1, <1>2, <1>4, <1>5, BrokenShows
<1>7. Edge("gateway->authentication").connection = 0
  BY <1>1, <1>2, <1>4, WordsShow, EdgesAre
<1>8. evidence.database.affected <= 2
  <2> DEFINE S == {s \in Names : Count(current, <<"emitted", s>>, "failed") > 0}
  <2>1. ASSUME NEW s \in S PROVE s \in Hurt(fault)
    <3>1. s \in Names /\ Count(current, <<"emitted", s>>, "failed") > 0
      OBVIOUS
    <3>2. s \notin Hurt(fault) => Count(current, <<"emitted", s>>, "failed") = 0
      BY <3>1, SoundShows
    <3> QED
      BY <3>1, <3>2
  <2>2. evidence.database.affected = Cardinality(S)
    BY SeenIs
  <2> HIDE DEF S
  <2> QED
    BY <1>1, <2>1, <2>2, FailingFew
<1>9. /\ Service("authentication").inbound \in Nat
      /\ Service("authentication").emitted \in Nat
      /\ Edge("gateway->authentication").failure \in Nat
      /\ Edge("gateway->authentication").timeout \in Nat
  <2>1. "authentication" \in Names /\ "gateway->authentication" \in EdgeNames
    BY <1>2, <1>4, EdgesAre DEF Names
  <2> QED
    BY <2>1, ShownMeasured DEF Measured, OfService, OfEdge, Within, Service, Edge
<1>10. DatabaseFails
  BY <1>3, <1>6, <1>7, <1>8, <1>9 DEF DatabaseFails
<1> QED
  BY <1>10 DEF Ruled, Lead

\* A call is not reached, or so it seems, if the fault says so, or if it encloses
\* the one that is not.
LEMMA UnreachedShows ==
  ASSUME Shown, NEW d \in 1..7, Unreached(Edge(EdgeOf[d])) # 0
  PROVE  \/ fault[2] \in {"connect", "unavailable"} /\ d = fault[1]
         \/ fault[2] = "connect" /\ fault[1] \in {4, 5, 7} /\ d = 3
<1> DEFINE e == EdgeOf[d]
           x == <<"edge", e>>
<1>1. /\ e \in EdgeNames /\ x \in Streams /\ {"connect", "503"} \subseteq Marks
      /\ fault \in Faults
  BY EdgesAre, StreamsHave DEF Shown
<1>2. Unreached(Edge(e)) \in {Edge(e).connection, Edge(e).status503}
  BY <1>1, ShownMeasured, TransportIs DEF Measured, Edge
<1>3. /\ Edge(e).connection = Rate(current, x, "connect")
      /\ Edge(e).status503 = Rate(current, x, "503")
  BY <1>1, SeenIs
<1>4. Rate(current, x, "connect") # 0 \/ Rate(current, x, "503") # 0
  BY <1>2, <1>3
<1>5. Tally[fault][x]["connect"] # 0 \/ Tally[fault][x]["503"] # 0
  <2> HIDE DEF x
  <2> QED
    BY <1>1, <1>4, RateNone
<1> QED
  BY <1>1, <1>5, EdgeShows

\* A service is not missed unless calls into it are not reached.
LEMMA MissedAre ==
  ASSUME Shown, NEW s, Strength(s) # 0
  PROVE  \E d \in 1..7 : Calls[d].to = s /\ Unreached(Edge(EdgeOf[d])) # 0
<1>1. PICK e \in Into(s) : Unreached(Edge(e)) # 0
  BY ShownMeasured, StrengthNone
<1>2. e \in EdgeNames /\ Callee(e) = s
  BY DEF Into
<1>3. PICK d \in 1..7 : e = EdgeOf[d]
  BY <1>2, EdgesAre
<1> QED
  BY <1>1, <1>2, <1>3, EdgesAre

\* The highest of what the calls into a service show.
LEMMA HighestInto ==
  ASSUME NEW n \in Nat, NEW s, NEW f, \A e \in Into(s) : Within(n, f[e])
  PROVE  LET h == Highest({f[e] : e \in Into(s)})
         IN  Within(n, h) /\ \A e \in Into(s) : h >= f[e]
<1> DEFINE S == {f[e] : e \in Into(s)}
<1>1. IsFiniteSet(Into(s))
  BY NamesFinite, FS_Subset DEF Into
<1>2. IsFiniteSet(S) /\ \A k \in S : Within(n, k)
  BY <1>1, FiniteImage
<1>3. \A e \in Into(s) : f[e] \in S
  OBVIOUS
<1> HIDE DEF S
<1>4. Within(n, Highest(S)) /\ \A k \in S : Highest(S) >= k
  BY <1>2, HighestBounded
<1> QED
  BY <1>3, <1>4 DEF S

\* A service is missed at least as much as by one that calls it.
LEMMA StrengthAtLeast ==
  ASSUME Measured(evidence), NEW s, NEW e \in Into(s)
  PROVE  Strength(s) >= Unreached(Edge(e))
<1> DEFINE f == [d \in Into(s) |-> Unreached(Edge(d))]
<1>1. \A d \in Into(s) : Within(1000, f[d])
  BY TransportBounded DEF Measured, Edge, Into
<1>2. Strength(s) = Highest({f[d] : d \in Into(s)})
  <2>1. {f[d] : d \in Into(s)} = {Unreached(Edge(d)) : d \in Into(s)}
    OBVIOUS
  <2> QED
    BY <2>1 DEF Strength
<1>3. f[e] = Unreached(Edge(e)) /\ 1000 \in Nat
  OBVIOUS
<1> HIDE DEF f
<1>4. Highest({f[d] : d \in Into(s)}) >= f[e]
  BY <1>1, <1>3, HighestInto
<1> QED
  BY <1>2, <1>3, <1>4

\* First calls to a service.
LEMMA FirstCallsAre ==
  \A c \in 1..7 : FirstCall(c) <=> c \in {1, 2, 3, 5, 6}
<1>1. FirstCall(1)
  BY DEF FirstCall
<1>2. FirstCall(2)
  <2>1. \A d \in 1..(2 - 1) : d = 1
    OBVIOUS
  <2> QED
    BY <2>1, CallTable DEF FirstCall
<1>3. FirstCall(3)
  <2>1. \A d \in 1..(3 - 1) : d = 1 \/ d = 2
    OBVIOUS
  <2> QED
    BY <2>1, CallTable DEF FirstCall
<1>4. ~FirstCall(4)
  <2>1. 2 \in 1..(4 - 1)
    OBVIOUS
  <2> QED
    BY <2>1, CallTable DEF FirstCall
<1>5. FirstCall(5)
  <2>1. \A d \in 1..(5 - 1) : d = 1 \/ d = 2 \/ d = 3 \/ d = 4
    OBVIOUS
  <2> QED
    BY <2>1, CallTable DEF FirstCall
<1>6. FirstCall(6)
  <2>1. \A d \in 1..(6 - 1) : d = 1 \/ d = 2 \/ d = 3 \/ d = 4 \/ d = 5
    OBVIOUS
  <2> QED
    BY <2>1, CallTable DEF FirstCall
<1>7. ~FirstCall(7)
  <2>1. 6 \in 1..(7 - 1)
    OBVIOUS
  <2> QED
    BY <2>1, CallTable DEF FirstCall
<1> QED
  BY <1>1, <1>2, <1>3, <1>4, <1>5, <1>6, <1>7, SevenCalls

\* A service that its first caller never reaches leads: it is missed and says
\* nothing, and who else is missed is nearer to the root.
LEMMA ConnectLed ==
  ASSUME Shown, fault[2] = "connect", current[fault] = MaxCurrent, FirstCall(fault[1])
  PROVE  Ruled /\ Lead = Calls[fault[1]].to
<1> DEFINE c == fault[1]
           t == Calls[c].to
           e == EdgeOf[c]
<1>1. /\ fault \in Faults /\ c \in 1..7 /\ c \in Broken(fault) /\ t \in Names
      /\ e \in EdgeNames /\ e \in Into(t)
  BY FaultsAre, CallsAre, EdgesAre DEF Shown
<1>2. Service(t).inbound >= 1000 /\ Service(t).emitted = 0 /\ Service(t).latency = 0
  BY OriginShows
<1>3. 1000 \in Nat /\ 1000 * MaxCurrent <= 1000 * current[fault]
  BY ShownIs
<1>4. Edge(e).connection >= 1000
  BY <1>1, <1>3, BrokenShows
<1>5. Measured(evidence)
  BY ShownMeasured
<1>6. Strength(t) >= 500
  <2>1. OfEdge(Edge(e))
    BY <1>1, <1>5 DEF Measured, Edge
  <2>2. Unreached(Edge(e)) >= Edge(e).connection
    BY <2>1, TransportIs
  <2>3. Strength(t) >= Unreached(Edge(e))
    BY <1>1, <1>5, StrengthAtLeast
  <2>4. Strength(t) \in Nat /\ Unreached(Edge(e)) \in Nat /\ Edge(e).connection \in Nat
    BY <1>5, <2>1, StrengthBounded, TransportBounded DEF Within, OfEdge
  <2> QED
    BY <1>4, <2>2, <2>3, <2>4
<1>7. t \in Unavailable
  <2>1. Service(t).inbound \in Nat
    BY <1>1, <1>5 DEF Measured, OfService, Within, Service
  <2>2. Service(t).inbound >= 900
    BY <1>2, <2>1
  <2> QED
    BY <1>1, <1>2, <1>6, <2>2 DEF Unavailable
<1>8. ASSUME NEW s \in Unavailable, s # t PROVE Depth[s] < Depth[t]
  <2>1. Strength(s) >= 500
    BY DEF Unavailable
  <2>2. Strength(s) # 0
    BY <2>1
  <2>3. PICK d \in 1..7 : Calls[d].to = s /\ Unreached(Edge(EdgeOf[d])) # 0
    BY <2>2, MissedAre
  <2>4. c \in {4, 5, 7} /\ d = 3
    BY <1>8, <2>3, UnreachedShows
  <2>5. c = 5
    BY <1>1, <2>4, FirstCallsAre
  <2> QED
    BY <2>3, <2>4, <2>5, CallTable DEF Depth
<1>9. MostUnavailable = t
  <2>1. /\ MostUnavailable \in Unavailable /\ MostUnavailable \in Names
        /\ Depth[t] <= Depth[MostUnavailable]
    BY <1>5, <1>7, MostUnavailableIs
  <2>2. Depth[t] \in Int /\ Depth[MostUnavailable] \in Int
    BY <1>1, <2>1, CallsAre
  <2> QED
    BY <1>8, <2>1, <2>2
<1>10. ~DatabaseFails /\ ~BroadLoad
  BY DatabaseSilent, NoBroadLoad DEF Slow
<1> QED
  BY <1>7, <1>9, <1>10 DEF Ruled, Lead

\* A service that is slow and fails in its first call, when its caller has long
\* given up, is raised alone: the calls around it are slow and fail for services
\* nearer to the root, nothing fails without a timeout, and nobody is silent.
LEMMA ResourceRaised ==
  ASSUME Shown, fault[2] \in {"late", "locked"}, current[fault] = MaxCurrent,
         FirstCall(fault[1]), fault[1] # 1
  PROVE  \E v \in Nat : v > ScoreBound /\ Boosts = {<<Calls[fault[1]].to, v>>}
<1> DEFINE c == fault[1]
           t == Calls[c].to
           e == EdgeOf[c]
<1>1. /\ fault \in Faults /\ c \in {2, 3, 5, 6} /\ c \in 1..7 /\ t \in Names
      /\ Broken(fault) = {c} \cup Calls[c].within
      /\ e \in EdgeNames /\ e \in Into(t) /\ Slow(fault)
  <2>1. fault \in Faults /\ c \in 1..7 /\ Broken(fault) = {c} \cup Calls[c].within
    BY FaultsAre DEF Shown
  <2>2. c \in {2, 3, 5, 6}
    BY <2>1, FirstCallsAre
  <2> QED
    BY <2>1, <2>2, CallsAre, EdgesAre DEF Slow
<1>2. /\ Service(t).inbound >= 1000 /\ Service(t).emitted >= 1000
      /\ Service(t).latency = 1000
  BY <1>1, OriginShows
<1>3. 1000 \in Nat /\ 1000 * MaxCurrent <= 1000 * current[fault]
  BY ShownIs
<1>4. /\ Measured(evidence) /\ ~DatabaseFails /\ ~BroadLoad /\ Unavailable = {}
      /\ \A d \in EdgeNames : Transport(Edge(d)) = Edge(d).timeout
  BY <1>1, ShownMeasured, DatabaseSilent, NoBroadLoad, AllReached
<1>5. /\ \A s \in Names : Service(s).inbound \in Nat /\ Service(s).emitted \in Nat
      /\ \A d \in EdgeNames : /\ Within(1000, Edge(d).failure) /\ Edge(d).failure \in Nat
                              /\ Edge(d).timeout \in Nat
  BY <1>4 DEF Measured, OfService, OfEdge, Within, Service, Edge
<1>6. ASSUME NEW d \in Broken(fault) PROVE Service(Calls[d].to).emitted > 50
  <2>1. d \in 1..7 /\ Calls[d].to \in Names
    BY <1>1, BrokenAreMade, CallsAre
  <2>2. CASE d = c
    BY <1>1, <1>2, <1>5, <2>2
  <2>3. CASE d \in Calls[c].within
    <3> DEFINE x == <<"emitted", Calls[d].to>>
    <3>1. Tally[fault][x]["failed"] >= 1 /\ Tally[fault][x]["any"] <= 10
      BY <1>1, <2>3, AroundTally
    <3>2. x \in Streams /\ "failed" \in Marks /\ "failed" # "any"
      BY <2>1, StreamsHave
    <3>3. Service(Calls[d].to).emitted = Rate(current, x, "failed")
      BY <2>1, SeenIs
    <3> HIDE DEF x
    <3>4. 10 \in Nat /\ 100 \in Nat /\ 100 * 10 <= 1000
      OBVIOUS
    <3>5. Rate(current, x, "failed") >= 100
      BY <3>1, <3>2, <3>4, AllShow
    <3> QED
      BY <1>5, <2>1, <3>3, <3>5
  <2> QED
    BY <1>1, <2>2, <2>3
<1>7. TimedOut = {}
  <2>1. ASSUME NEW d \in TimedOut PROVE FALSE
    <3>1. d \in EdgeNames /\ Edge(d).failure >= 500 /\ Service(Callee(d)).emitted <= 50
      BY DEF TimedOut
    <3>2. Edge(d).failure # 0
      BY <3>1
    <3>3. PICK k \in Broken(fault) : k \in 1..7 /\ d = EdgeOf[k]
      BY <3>1, <3>2, FailingEdges
    <3>4. Callee(d) = Calls[k].to /\ Calls[k].to \in Names
      BY <3>3, EdgesAre, CallsAre
    <3> QED
      BY <1>5, <1>6, <3>1, <3>3, <3>4
  <2> QED
    BY <2>1
<1>8. t \in Exhausted
  <2> DEFINE f == [d \in Into(t) |-> Edge(d).failure]
             g == [d \in Into(t) |-> Edge(d).connection]
  <2>1. /\ \A d \in Into(t) : Within(1000, f[d])
        /\ \A d \in Into(t) : Within(0, g[d])
    BY <1>1, <1>5, WordsShow DEF Into, Within
  <2>2. /\ {Edge(d).failure : d \in Into(t)} = {f[d] : d \in Into(t)}
        /\ {Edge(d).connection : d \in Into(t)} = {g[d] : d \in Into(t)}
    OBVIOUS
  <2>3. f[e] = Edge(e).failure
    BY <1>1
  <2>4. Edge(e).failure >= 1000
    BY <1>1, <1>3, BrokenShows
  <2> HIDE DEF f, g
  <2>5. 0 \in Nat /\ 1000 \in Nat
    OBVIOUS
  <2>6. /\ Highest({f[d] : d \in Into(t)}) \in Nat
        /\ Highest({f[d] : d \in Into(t)}) >= f[e]
    BY <1>1, <2>1, <2>5, HighestInto DEF Within
  <2>7. Within(0, Highest({g[d] : d \in Into(t)}))
    BY <2>1, <2>5, HighestInto
  <2>8. Highest({Edge(d).failure : d \in Into(t)}) >= 800
    <3> DEFINE h == Highest({f[d] : d \in Into(t)})
    <3>1. Highest({Edge(d).failure : d \in Into(t)}) = h
      BY <2>2
    <3>2. h \in Nat /\ h >= f[e]
      BY <2>6
    <3> HIDE DEF h
    <3>3. h >= 800
      BY <1>1, <1>5, <2>3, <2>4, <3>2
    <3> QED
      BY <3>1, <3>3
  <2>9. Highest({Edge(d).connection : d \in Into(t)}) < 250
    <3> DEFINE h == Highest({g[d] : d \in Into(t)})
    <3>1. Highest({Edge(d).connection : d \in Into(t)}) = h
      BY <2>2
    <3>2. Within(0, h)
      BY <2>7
    <3> HIDE DEF h
    <3>3. h < 250
      BY <3>2 DEF Within
    <3> QED
      BY <3>1, <3>3
  <2>10. Service(t).inbound >= 800 /\ Service(t).emitted >= 200 /\ Service(t).latency >= 800
    BY <1>1, <1>2, <1>5
  <2> QED
    BY <1>1, <2>8, <2>9, <2>10 DEF Exhausted
<1>9. ASSUME NEW s \in Exhausted, s # t PROVE Depth[s] < Depth[t]
  <2>1. s \in Names /\ Service(s).inbound >= 800
    BY DEF Exhausted
  <2>2. Service(s).inbound # 0
    BY <2>1
  <2>3. PICK d \in Broken(fault) : Calls[d].to = s
    BY <2>1, <2>2, UncalledShows
  <2>4. d \in Calls[c].within
    BY <1>1, <1>9, <2>3
  <2> QED
    BY <1>1, <2>3, <2>4, CallTable DEF Depth
<1>10. DeepestExhausted = t
  <2>1. /\ DeepestExhausted \in Exhausted /\ DeepestExhausted \in Names
        /\ Depth[t] <= Depth[DeepestExhausted]
    BY <1>4, <1>8, DeepestExhaustedIs
  <2>2. Depth[t] \in Int /\ Depth[DeepestExhausted] \in Int
    BY <1>1, <2>1, CallsAre
  <2> QED
    BY <1>9, <2>1, <2>2
<1>11. Erring = {}
  <2>1. ASSUME NEW d \in Erring PROVE FALSE
    <3>1. d \in EdgeNames /\ Edge(d).failure >= 150 /\ Transport(Edge(d)) <= 50
      BY DEF Erring
    <3>2. Edge(d).failure # 0
      BY <3>1
    <3>3. PICK k \in Broken(fault) : k \in 1..7 /\ d = EdgeOf[k]
      BY <3>1, <3>2, FailingEdges
    <3>4. Edge(d).timeout >= 1000
      BY <1>1, <1>3, <3>3, BrokenShows
    <3> QED
      BY <1>4, <1>5, <3>1, <3>4
  <2> QED
    BY <2>1
<1>12. ErrorBoost = {}
  BY <1>11 DEF ErrorBoost
<1>13. \E v \in Nat : v > ScoreBound /\ ResourceBoost = {<<t, v>>}
  <2> DEFINE v == IF Service(t).locked >= 50 THEN 1750000 ELSE 1350000
  <2>1. v \in Nat /\ v > ScoreBound
    BY DEF ScoreBound
  <2>2. ResourceBoost = {<<t, v>>}
    BY <1>8, <1>10 DEF ResourceBoost
  <2> HIDE DEF v
  <2> QED
    BY <2>1, <2>2
<1>14. Boosts = ResourceBoost \cup ErrorBoost
  BY <1>4, <1>7 DEF Boosts
<1> QED
  BY <1>12, <1>13, <1>14

\* The first score of a candidate.
ScoreOf(c) ==
    IF c \in Names THEN ServiceScore(Service(c)) + BonusOf(c)
    ELSE IF c \in EdgeNames THEN EdgeScore(Edge(c)) + Bonus(<<"edge", c>>)
    ELSE DatabaseScore(evidence.database) + Bonus(<<"all", "events">>)

\* Without a timeout, a score lacks what latency gives, and a service that nobody
\* reports lacks more.
LEMMA QuickScores ==
  ASSUME Shown, ~Slow(fault), fault[2] # "database", NEW c
  PROVE  /\ Within(896200, ScoreOf(c))
         /\ c \notin Names => Within(857750, ScoreOf(c))
         /\ c \in Names /\ Service(c).inbound = 0 => Within(546200, ScoreOf(c))
<1>1. Measured(evidence)
  BY ShownMeasured
<1>2. CASE c \in Names
  <2> DEFINE ev == Service(c)
             b == BonusOf(c)
  <2>1. OfService(ev) /\ ev.latency \in {0, 231} /\ Within(50000, b)
    BY <1>1, <1>2, QuickShows, BonusBounded DEF Measured, Service
  <2>2. ScoreOf(c) = ServiceScore(ev) + b
    BY <1>2 DEF ScoreOf
  <2> HIDE DEF ev, b
  <2>3. ServiceScore(ev) = 450 * ev.emitted + 350 * ev.inbound + 200 * ev.latency
    BY DEF ServiceScore
  <2>4. Within(1000, ev.emitted) /\ Within(1000, ev.inbound)
    BY <2>1 DEF OfService
  <2>5. Within(896200, ServiceScore(ev) + b)
    BY <2>1, <2>3, <2>4 DEF Within
  <2>6. ev.inbound = 0 => Within(546200, ServiceScore(ev) + b)
    BY <2>1, <2>3, <2>4 DEF Within
  <2> QED
    BY <1>2, <2>2, <2>5, <2>6 DEF ev
<1>3. CASE c \notin Names /\ c \in EdgeNames
  <2> DEFINE ev == Edge(c)
             b == Bonus(<<"edge", c>>)
             all == 650 * ev.failure + 250 * ev.latency + 100 * Transport(ev)
  <2>1. OfEdge(ev) /\ ev.latency \in {0, 231} /\ Within(50000, b)
    BY <1>1, <1>3, QuickShows, BonusBounded DEF Measured, Edge
  <2>2. ScoreOf(c) = EdgeScore(ev) + b
    BY <1>3 DEF ScoreOf
  <2> HIDE DEF ev, b
  <2>3. Within(1000, Transport(ev)) /\ Within(1000, ev.failure)
    BY <2>1, TransportBounded DEF OfEdge
  <2>4. Within(807750, all)
    BY <2>1, <2>3 DEF Within
  <2>5. EdgeScore(ev) = all \/ EdgeScore(ev) = (72 * all) \div 100
    BY DEF EdgeScore
  <2> HIDE DEF all
  <2>6. Within(807750, EdgeScore(ev))
    BY <2>4, <2>5 DEF Within
  <2>7. Within(857750, ScoreOf(c))
    BY <2>1, <2>2, <2>6 DEF Within
  <2> QED
    BY <1>3, <2>7 DEF Within
<1>4. CASE c \notin Names /\ c \notin EdgeNames
  <2> DEFINE ev == evidence.database
             b == Bonus(<<"all", "events">>)
             q == (1000 * ev.affected) \div 3
             m == Min({1000, q})
  <2>1. ev.affected \in Nat /\ ev.errors = 0 /\ Within(50000, b)
    BY <1>1, WordsShow, BonusBounded DEF Measured, OfDatabase
  <2>2. ScoreOf(c) = DatabaseScore(ev) + b /\ DatabaseScore(ev) = 750 * ev.errors + 250 * m
    BY <1>4 DEF ScoreOf, DatabaseScore
  <2>3. q \in Nat
    BY <2>1
  <2> HIDE DEF q
  <2>4. Within(1000, m)
    <3>1. \E k \in {1000, q} : \A l \in {1000, q} : k <= l
      BY <2>3
    <3> QED
      BY <2>3, <3>1 DEF Min, Within
  <2> HIDE DEF m, b, ev
  <2>5. Within(857750, ScoreOf(c))
    BY <2>1, <2>2, <2>4 DEF Within
  <2> QED
    BY <1>4, <2>5 DEF Within
<1> QED
  BY <1>2, <1>3, <1>4

\* Without a timeout, the rules about time have nothing to say.
LEMMA QuickRules ==
  ASSUME Shown, ~Slow(fault), fault[2] # "database", Unavailable = {}
  PROVE  Boosts = ErrorBoost
<1>1. ~DatabaseFails /\ ~BroadLoad
  BY DatabaseSilent, NoBroadLoad
<1>2. TimedOut = {}
  <2>1. ASSUME NEW d \in TimedOut PROVE FALSE
    <3>1. d \in EdgeNames /\ Edge(d).timeout >= 250
      BY DEF TimedOut
    <3>2. Edge(d).timeout = 0
      BY <3>1, QuickShows
    <3> QED
      BY <3>1, <3>2
  <2> QED
    BY <2>1
<1>3. Exhausted = {}
  <2>1. ASSUME NEW s \in Exhausted PROVE FALSE
    <3>1. s \in Names /\ Service(s).latency >= 800
      BY DEF Exhausted
    <3>2. Service(s).latency \in {0, 231}
      BY <3>1, QuickShows
    <3> QED
      BY <3>1, <3>2
  <2> QED
    BY <2>1
<1> QED
  BY <1>1, <1>2, <1>3 DEF Boosts, ResourceBoost

\* A callee that answers a fifth of the requests with an error is raised alone:
\* who fails because of it is nearer to the root.
LEMMA ErrorRaised ==
  ASSUME Shown, fault[2] = "error", 5 * current[fault] >= MaxCurrent
  PROVE  Boosts = {<<Calls[fault[1]].to, 900000>>}
<1> DEFINE c == fault[1]
           t == Calls[c].to
           e == EdgeOf[c]
           y == <<"inbound", t>>
<1>1. /\ fault \in Faults /\ c \in 1..7 /\ c \in Broken(fault) /\ t \in Names
      /\ Broken(fault) = {c} \cup Calls[c].within
      /\ e \in EdgeNames /\ Callee(e) = t /\ Caller(e) = Calls[c].from
  BY FaultsAre, CallsAre, EdgesAre DEF Shown
<1>2. ~Slow(fault)
  BY DEF Slow
<1>3. /\ 200 * MaxCurrent <= 1000 * current[fault] /\ 200 \in Nat
      /\ 100 * (2 * MaxCurrent) <= 1000 * current[fault] /\ 100 \in Nat /\ 2 \in Nat
  BY ShownIs
<1>4. Measured(evidence) /\ Unavailable = {}
      /\ \A d \in EdgeNames : Transport(Edge(d)) = Edge(d).timeout
  BY ShownMeasured, AllReached
<1>5. /\ \A d \in EdgeNames : Edge(d).failure \in Nat
      /\ \A s \in Names : Service(s).inbound \in Nat
  BY <1>4 DEF Measured, OfService, OfEdge, Within, Service, Edge
<1>6. e \in Erring
  <2>1. Edge(e).failure >= 200
    BY <1>1, <1>3, BrokenShows
  <2>2. Transport(Edge(e)) = 0
    BY <1>1, <1>2, <1>4, QuickShows
  <2>3. Service(t).inbound >= 100
    <3>1. y \in Streams /\ "failed" \in Marks /\ "failed" # "any"
      BY <1>1, StreamsHave
    <3>2. Tally[fault][y]["failed"] >= 1
      BY <1>1, InboundTally
    <3>3. Tally[fault][y]["any"] <= 2 /\ Tally[Fine][y]["any"] <= 2
      BY <1>1, InboundFew, ShownIs
    <3>4. Service(t).inbound = Rate(current, y, "failed")
      BY <1>1, SeenIs
    <3> HIDE DEF y
    <3>5. Rate(current, y, "failed") >= 100
      BY <1>3, <3>1, <3>2, <3>3, RateAtLeast
    <3> QED
      BY <3>4, <3>5
  <2>4. Edge(e).failure >= 150
    BY <1>1, <1>5, <2>1
  <2> QED
    BY <1>1, <2>2, <2>3, <2>4 DEF Erring
<1>7. ASSUME NEW d \in Erring, d # e PROVE Depth[Caller(d)] < Depth[Caller(e)]
  <2>1. d \in EdgeNames /\ Edge(d).failure >= 150
    BY DEF Erring
  <2>2. Edge(d).failure # 0
    BY <2>1
  <2>3. PICK k \in Broken(fault) : k \in 1..7 /\ d = EdgeOf[k]
    BY <2>1, <2>2, FailingEdges
  <2>4. k \in Calls[c].within
    BY <1>1, <1>7, <2>3
  <2>5. Depth[Calls[k].from] < Depth[Calls[c].from]
    BY <1>1, <2>4, UpstreamIs
  <2> QED
    BY <1>1, <2>3, <2>5, EdgesAre
<1>8. DeepestErring = t
  <2>1. PICK d \in Erring : /\ DeepestErring = Callee(d)
                            /\ \A k \in Erring : Depth[Caller(k)] <= Depth[Caller(d)]
    BY <1>4, <1>6, DeepestErringIs
  <2>2. d \in EdgeNames
    BY DEF Erring
  <2>3. Depth[Caller(e)] \in Int /\ Depth[Caller(d)] \in Int
    BY <1>1, <2>2, CallsAre
  <2>4. Depth[Caller(e)] <= Depth[Caller(d)]
    BY <1>6, <2>1
  <2>5. d = e
    BY <1>7, <2>3, <2>4
  <2> QED
    BY <1>1, <2>1, <2>5
<1>9. ErrorBoost = {<<t, 900000>>}
  BY <1>6, <1>8 DEF ErrorBoost
<1> QED
  BY <1>2, <1>4, <1>9, QuickRules

\* A service that answers 503 to each of its first calls, which the gateway makes,
\* is not raised, and nobody else is: it scores the most by itself.
LEMMA UnavailableAhead ==
  ASSUME Shown, fault[2] = "unavailable", fault[1] \in {1, 2, 3},
         current[fault] = MaxCurrent, first = fault
  PROVE  /\ Boosts = {} /\ ScoreOf(Calls[fault[1]].to) = 896200
         /\ \A x : x # Calls[fault[1]].to => ScoreOf(x) < 896200
<1> DEFINE c == fault[1]
           t == Calls[c].to
           x == <<"emitted", t>>
           ev == Service(t)
<1>1. /\ fault \in Faults /\ c \in 1..7 /\ t \in Names /\ Broken(fault) = {c}
      /\ fault # Fine /\ fault \in Outcomes
  BY FaultsAre, CallsAre, CallTable DEF Shown
<1>2. ~Slow(fault) /\ FirstCall(c)
  BY <1>1, FirstCallsAre DEF Slow
<1>3. 1000 \in Nat /\ 1000 * MaxCurrent <= 1000 * current[fault]
  BY ShownIs
<1>4. Measured(evidence)
  BY ShownMeasured
<1>5. x \in Streams /\ "failed" \in Marks /\ "failed" # "any"
  BY <1>1, StreamsHave
<1>6. Tally[fault][x]["any"] = 1 /\ Tally[fault][x]["failed"] = 1
  BY <1>1, <1>2, OriginTally
<1>7. ev.emitted = 1000 /\ ev.inbound = 1000
  <2>1. ev.emitted >= 1000 /\ ev.inbound >= 1000
    BY <1>2, OriginShows
  <2>2. Within(1000, ev.emitted) /\ Within(1000, ev.inbound)
    BY <1>1, <1>4 DEF Measured, OfService, Service
  <2> QED
    BY <2>1, <2>2 DEF Within
<1>8. ev.latency = 231
  <2>1. Tally[fault][x]["slow"] = 0
    BY <1>1, <1>2, <1>5, QuickTally
  <2>2. Tally[fault][x]["any"] >= 1
    BY <1>6
  <2>3. ev.latency = Latency(x)
    BY <1>1, SeenIs
  <2> HIDE DEF x
  <2> QED
    BY <1>5, <2>1, <2>2, <2>3, LatencyIs
<1>9. BonusOf(t) = 50000
  <2>1. Count(current, x, "failed") > 0
    <3>1. Tally[fault][x]["any"] <= 1 /\ Tally[fault][x]["failed"] >= 1
      BY <1>6
    <3>2. 1 \in Nat /\ 1000 * 1 <= 1000
      OBVIOUS
    <3> HIDE DEF x
    <3> QED
      BY <1>3, <1>5, <3>1, <3>2, AllShow
  <2>2. Tally[first][x]["failed"] > 0
    BY <1>6
  <2>3. Bonus(x) = 50000
    <3> HIDE DEF x
    <3>1. Count(current, x, "failed") # 0
      BY <2>1
    <3> QED
      BY <1>1, <2>2, <3>1 DEF Bonus
  <2> DEFINE a == Bonus(x)
             b == Bonus(<<"inbound", t>>)
  <2>4. BonusOf(t) = Highest({a, b})
    BY DEF BonusOf
  <2>5. Within(50000, a) /\ Within(50000, b) /\ a = 50000
    BY <2>3, BonusBounded
  <2> HIDE DEF a, b
  <2>6. IsFiniteSet({a, b}) /\ \A k \in {a, b} : Within(50000, k)
    <3>1. IsFiniteSet({a, b})
      BY FewAreFinite
    <3>2. ASSUME NEW k \in {a, b} PROVE Within(50000, k)
      <4>1. k = a \/ k = b
        OBVIOUS
      <4> QED
        BY <2>5, <4>1
    <3> QED
      BY <3>1, <3>2
  <2>7. 50000 \in Nat
    OBVIOUS
  <2>8. Within(50000, Highest({a, b})) /\ Highest({a, b}) >= a
    BY <2>6, <2>7, HighestBounded
  <2> QED
    BY <2>4, <2>5, <2>8 DEF Within
<1>10. ScoreOf(t) = 896200
  <2>1. ScoreOf(t) = ServiceScore(ev) + BonusOf(t)
    BY <1>1 DEF ScoreOf
  <2>2. ServiceScore(ev) = 450 * ev.emitted + 350 * ev.inbound + 200 * ev.latency
    BY DEF ServiceScore
  <2> HIDE DEF ev
  <2> QED
    BY <1>7, <1>8, <1>9, <2>1, <2>2
<1>11. ASSUME NEW s, s # t PROVE ScoreOf(s) < 896200
  <2>1. CASE s \in Names
    <3>1. Service(s).inbound = 0
      BY <1>1, <1>11, <2>1, UncalledShows
    <3>2. Within(546200, ScoreOf(s))
      BY <1>2, <2>1, <3>1, QuickScores
    <3> QED
      BY <3>2 DEF Within
  <2>2. CASE s \notin Names
    <3>1. Within(857750, ScoreOf(s))
      BY <1>2, <2>2, QuickScores
    <3> QED
      BY <3>1 DEF Within
  <2> QED
    BY <2>1, <2>2
<1>12. Unavailable = {}
  <2>1. ASSUME NEW s \in Unavailable PROVE FALSE
    <3>1. s \in Names /\ Service(s).emitted <= 50 /\ Strength(s) >= 500
      BY DEF Unavailable
    <3>2. Strength(s) # 0
      BY <3>1
    <3>3. PICK d \in 1..7 : Calls[d].to = s /\ Unreached(Edge(EdgeOf[d])) # 0
      BY <3>2, MissedAre
    <3>4. d = c
      BY <3>3, UnreachedShows
    <3>5. Service(s).emitted = 1000
      BY <1>7, <3>3, <3>4
    <3> QED
      BY <3>1, <3>5
  <2> QED
    BY <2>1
<1>13. Erring = {}
  <2>1. ASSUME NEW d \in Erring PROVE FALSE
    <3>1. d \in EdgeNames /\ Edge(d).failure >= 150 /\ Transport(Edge(d)) <= 50
      BY DEF Erring
    <3>2. Edge(d).failure # 0
      BY <3>1
    <3>3. PICK k \in Broken(fault) : k \in 1..7 /\ d = EdgeOf[k]
      BY <3>1, <3>2, FailingEdges
    <3>4. k = c
      BY <1>1, <3>3
    <3>5. Edge(d).status503 >= 1000
      BY <1>1, <1>3, <3>3, <3>4, BrokenShows
    <3>6. OfEdge(Edge(d))
      BY <1>4, <3>1 DEF Measured, Edge
    <3>7. Transport(Edge(d)) >= Unreached(Edge(d)) /\ Unreached(Edge(d)) >= Edge(d).status503
      BY <3>6, TransportIs
    <3>8. /\ Transport(Edge(d)) \in Nat /\ Unreached(Edge(d)) \in Nat
          /\ Edge(d).status503 \in Nat
      BY <3>6, TransportBounded DEF Within, OfEdge
    <3> QED
      BY <3>1, <3>5, <3>7, <3>8
  <2> QED
    BY <2>1
<1>14. Boosts = {}
  BY <1>2, <1>12, <1>13, QuickRules DEF ErrorBoost
<1> QED
  BY <1>10, <1>11, <1>14

\* A clear fault is located.
LEMMA ClearLeads ==
  ASSUME Shown, Clear, first = fault, Rank,
         \A i \in 1..14 : Within(ScoreBound, scores[i]) /\ scores[i] = ScoreOf(Candidates[i])
  PROVE  ranking'[1] = Origin(fault)
<1> DEFINE c == fault[1]
           t == Calls[c].to
<1>1. /\ fault \in Faults /\ c \in 1..7 /\ t \in Names /\ fault = <<fault[1], fault[2]>>
      /\ Measured(evidence)
  BY FaultsAre, CallsAre, ShownMeasured DEF Shown, Faults
<1>2. PICK p \in 1..14 : Candidates[p] = t
  BY <1>1, CandidatesDiffer
<1>3. ASSUME Ruled, Lead = Origin(fault) PROVE ranking'[1] = Origin(fault)
  BY <1>1, <1>3, RuledLeads
<1>4. CASE fault[2] = "timeout" /\ 2 * current[fault] > MaxCurrent
  <2>1. Origin(fault) = EdgeOf[c]
    BY <1>4 DEF Origin
  <2> QED
    BY <1>3, <1>4, <2>1, TimeoutLed
<1>5. CASE fault[2] = "database" /\ current[fault] = MaxCurrent /\ c \in {1, 2}
  <2>1. Origin(fault) = "postgresql"
    BY <1>5 DEF Origin
  <2> QED
    BY <1>3, <1>5, <2>1, DatabaseLed
<1>6. CASE fault[2] = "connect" /\ current[fault] = MaxCurrent /\ FirstCall(c)
  <2>1. Origin(fault) = t
    BY <1>1, <1>6 DEF Origin
  <2> QED
    BY <1>3, <1>6, <2>1, ConnectLed
<1>7. CASE fault[2] = "late" /\ current[fault] = MaxCurrent /\ c = 1
  <2>1. fault = <<1, "late">>
    BY <1>1, <1>7
  <2>2. Origin(fault) = "postgresql"
    BY <1>7, <2>1 DEF Origin
  <2> QED
    BY <1>3, <1>7, <2>1, <2>2, LoginLed
<1>8. CASE /\ fault[2] \in {"late", "locked"} /\ current[fault] = MaxCurrent
           /\ FirstCall(c) /\ c # 1
  <2>1. Origin(fault) = t
    <3>1. fault # <<1, "late">>
      BY <1>8
    <3> QED
      BY <1>8, <3>1 DEF Origin
  <2>2. PICK v \in Nat : v > ScoreBound /\ Boosts = {<<t, v>>}
    BY <1>8, ResourceRaised
  <2>3. ranking'[1] = Candidates[p]
    BY <1>2, <2>2, BoostedLeads
  <2> QED
    BY <1>2, <2>1, <2>3
<1>9. CASE fault[2] = "error" /\ 5 * current[fault] >= MaxCurrent
  <2>1. Origin(fault) = t
    BY <1>1, <1>9 DEF Origin
  <2> DEFINE v == 900000
  <2>2. Boosts = {<<Candidates[p], v>>} /\ v \in Nat
    BY <1>2, <1>9, ErrorRaised
  <2>3. ASSUME NEW i \in 1..14 PROVE scores[i] \in Nat /\ scores[i] <= 896200
    <3>1. ~Slow(fault) /\ fault[2] # "database"
      BY <1>9 DEF Slow
    <3>2. Within(896200, ScoreOf(Candidates[i]))
      BY <3>1, QuickScores
    <3> QED
      BY <3>2 DEF Within
  <2>4. \A i \in 1..14 : i # p => scores[i] < scores[p] + v
    BY <2>3
  <2> HIDE DEF v
  <2>5. \A i \in 1..14 : scores[i] \in Nat
    BY <2>3
  <2>6. Boosts = {<<Candidates[p], v>>} \/ (Boosts = {} /\ v = 0)
    BY <2>2
  <2>7. ranking'[1] = Candidates[p]
    BY <2>2, <2>4, <2>5, <2>6, GreatestLeads
  <2> QED
    BY <1>2, <2>1, <2>7
<1>10. CASE fault[2] = "unavailable" /\ current[fault] = MaxCurrent /\ c \in {1, 2, 3}
  <2>1. Origin(fault) = t
    BY <1>1, <1>10 DEF Origin
  <2>2. /\ Boosts = {} /\ ScoreOf(t) = 896200
        /\ \A x : x # t => ScoreOf(x) < 896200
    BY <1>10, UnavailableAhead
  <2>3. \A i \in 1..14 : i # p => scores[i] < scores[p] + 0
    <3>1. scores[p] = 896200
      BY <1>2, <2>2
    <3>2. ASSUME NEW i \in 1..14, i # p PROVE scores[i] < 896200
      <4>1. Candidates[i] # t
        BY <1>2, <3>2, CandidatesDiffer
      <4> QED
        BY <2>2, <4>1
    <3>3. scores[p] + 0 = 896200
      BY <3>1
    <3> QED
      BY <3>2, <3>3
  <2>4. \A i \in 1..14 : scores[i] \in Nat
    BY DEF Within
  <2> DEFINE v == 0
  <2>5. v \in Nat /\ \A i \in 1..14 : i # p => scores[i] < scores[p] + v
    BY <2>3
  <2>6. Boosts = {<<Candidates[p], v>>} \/ (Boosts = {} /\ v = 0)
    BY <2>2
  <2> HIDE DEF v
  <2>7. ranking'[1] = Candidates[p]
    BY <2>4, <2>5, <2>6, GreatestLeads
  <2> QED
    BY <1>2, <2>1, <2>7
<1> QED
  BY <1>4, <1>5, <1>6, <1>7, <1>8, <1>9, <1>10 DEF Clear

\* Only the fault, or the refusal of an unknown account, keeps a request from
\* going well; what is measured is measured when the stretch is over; and a clear
\* fault is located.
OriginInv ==
    /\ fault \in Faults
    /\ \A p \in Outcomes \ {Fine, Refused} : before[p] = 0
    /\ \A p \in Outcomes \ {Fine, Refused, fault} : current[p] = 0
    /\ first = Fine => \A p \in Outcomes \ {Fine} : current[p] = 0
    /\ first # Fine => first \in Outcomes /\ current[first] > 0
    /\ evidence # NoEvidence =>
         /\ InAll(current) = MaxCurrent
         /\ evidence = [service |-> ServiceEvidence, edge |-> EdgeEvidence,
                        database |-> DatabaseEvidence]
         /\ \A i \in 1..14 : scores[i] = ScoreOf(Candidates[i])
    /\ OriginLeads

LEMMA OriginInvInit == RankInit => OriginInv
<1> SUFFICES ASSUME RankInit PROVE OriginInv
  OBVIOUS
<1>1. fault \in Faults
  BY OutcomesFinite DEF RankInit, Faults
<1>2. \A p \in Outcomes \ {Fine, Refused} : before[p] = 0
  <2>1. PICK n \in 0..MaxRefused :
           before = [Nobody EXCEPT ![Fine] = MaxBefore - n, ![Refused] = n]
    BY DEF RankInit
  <2> QED
    BY <2>1 DEF Nobody
<1>3. \A p \in Outcomes : current[p] = 0
  BY DEF RankInit, Nobody
<1>4. first = Fine /\ evidence = NoEvidence /\ ranking = <<>>
  BY DEF RankInit
<1> QED
  BY <1>1, <1>2, <1>3, <1>4 DEF OriginInv, OriginLeads

\* Once measured, a clear fault shows, and it was the first to fail.
LEMMA ClearIsShown ==
  ASSUME RankInv, OriginInv, evidence # NoEvidence, Clear
  PROVE  Shown /\ first = fault
<1>1. /\ Bag(before) /\ Bag(current) /\ fault \in Faults /\ current[fault] > 0
      /\ before[Refused] = 0 /\ current[Refused] = 0
  BY DEF RankInv, OriginInv, Clear
<1>2. fault \in Outcomes /\ fault # Fine /\ fault # Refused
  BY <1>1, FaultsAre
<1>3. /\ \A p \in Outcomes \ {Fine} : before[p] = 0
      /\ \A p \in Outcomes \ {Fine, fault} : current[p] = 0
  BY <1>1 DEF OriginInv
<1>4. current[Fine] + current[fault] = MaxCurrent
  <2>1. Fine \in Outcomes /\ IsFiniteSet(Outcomes)
    BY OutcomesFinite DEF Outcomes
  <2>2. current[Fine] \in Int /\ current[fault] \in Int
    BY <1>1, <1>2, <2>1 DEF Bag
  <2>3. Sum(current, Outcomes) = (IF Fine \in Outcomes THEN current[Fine] ELSE 0)
                                   + (IF fault \in Outcomes THEN current[fault] ELSE 0)
    BY <1>2, <1>3, <2>1, <2>2, SumOfTwo
  <2>4. InAll(current) = Sum(current, Outcomes)
    BY DEF InAll, Sum
  <2> QED
    BY <1>2, <2>1, <2>2, <2>3, <2>4 DEF OriginInv
<1>5. first = fault
  <2>1. first # Fine
    BY <1>1, <1>2 DEF OriginInv
  <2>2. first \in Outcomes /\ current[first] > 0
    BY <2>1 DEF OriginInv
  <2> QED
    BY <1>3, <2>1, <2>2
<1> QED
  BY <1>1, <1>3, <1>4, <1>5 DEF Shown, OriginInv

\* What is measured depends on the two stretches, and what is scored on that.
LEMMA MeasureDepends ==
  ASSUME before' = before, current' = current, first' = first, fault' = fault
  PROVE  /\ ServiceEvidence' = ServiceEvidence /\ EdgeEvidence' = EdgeEvidence
         /\ DatabaseEvidence' = DatabaseEvidence
         /\ \A x : Bonus(x)' = Bonus(x)
         /\ \A s : BonusOf(s)' = BonusOf(s)
         /\ InAll(current)' = InAll(current)
         /\ Clear' <=> Clear
         /\ Origin(fault)' = Origin(fault)
<1>1. /\ ServiceEvidence' = ServiceEvidence /\ EdgeEvidence' = EdgeEvidence
      /\ DatabaseEvidence' = DatabaseEvidence
  BY DEF ServiceEvidence, EdgeEvidence, DatabaseEvidence, Increase, Latency, Rate
<1>2. ASSUME NEW x PROVE Bonus(x)' = Bonus(x)
  BY DEF Bonus
<1>3. ASSUME NEW s PROVE BonusOf(s)' = BonusOf(s)
  BY DEF BonusOf, Bonus
<1>4. InAll(current)' = InAll(current)
  OBVIOUS
<1>5. (Clear' <=> Clear) /\ Origin(fault)' = Origin(fault)
  BY DEF Clear, Origin
<1> QED
  BY <1>1, <1>2, <1>3, <1>4, <1>5

\* A request that ends, well or not, is counted.
LEMMA HappenKeeps ==
  ASSUME RankInv, OriginInv, NEW o \in {Fine, Refused, fault}, Happen(o)
  PROVE  OriginInv'
<1>1. /\ evidence = NoEvidence /\ evidence' = evidence /\ ranking' = ranking
      /\ before' = before /\ fault' = fault
      /\ current' = [current EXCEPT ![o] = @ + 1]
      /\ first' = IF first = Fine THEN o ELSE first
  BY DEF Happen
<1>2. current \in [Outcomes -> Nat] /\ fault \in Outcomes
  BY FaultsAre DEF RankInv, Bag, OriginInv
<1>3. o \in Outcomes
  BY <1>2 DEF Outcomes
<1>4. /\ \A p \in Outcomes \ {o} : current'[p] = current[p]
      /\ current'[o] = current[o] + 1
      /\ \A p \in Outcomes : current[p] \in Nat
  BY <1>1, <1>2, <1>3
<1>5. \A p \in Outcomes \ {Fine, Refused, fault'} : current'[p] = 0
  BY <1>1, <1>4 DEF OriginInv
<1>6. first' = Fine => \A p \in Outcomes \ {Fine} : current'[p] = 0
  <2> SUFFICES ASSUME first' = Fine PROVE \A p \in Outcomes \ {Fine} : current'[p] = 0
    OBVIOUS
  <2>1. first = Fine /\ o = Fine
    BY <1>1
  <2> QED
    BY <1>4, <2>1 DEF OriginInv
<1>7. first' # Fine => first' \in Outcomes /\ current'[first'] > 0
  <2>1. CASE first = Fine
    BY <1>1, <1>3, <1>4, <2>1
  <2>2. CASE first # Fine
    <3>1. first' = first /\ first \in Outcomes /\ current[first] > 0
      BY <1>1, <2>2 DEF OriginInv
    <3> QED
      BY <1>4, <3>1
  <2> QED
    BY <2>1, <2>2
<1>8. ranking' = <<>>
  BY <1>1 DEF RankInv
<1> QED
  BY <1>1, <1>5, <1>6, <1>7, <1>8 DEF OriginInv, OriginLeads

\* rank_origins measures what is there.
LEMMA MeasureKeeps ==
  ASSUME RankInv, OriginInv, Measure
  PROVE  OriginInv'
<1>1. /\ evidence = NoEvidence /\ InAll(current) = MaxCurrent /\ ranking' = ranking
      /\ before' = before /\ current' = current /\ fault' = fault /\ first' = first
      /\ evidence' = [service |-> ServiceEvidence, edge |-> EdgeEvidence,
                      database |-> DatabaseEvidence]
  BY DEF Measure
<1>2. InAll(current)' = MaxCurrent
  BY <1>1, MeasureDepends
<1>3. evidence' = [service |-> ServiceEvidence', edge |-> EdgeEvidence',
                   database |-> DatabaseEvidence']
  BY <1>1, MeasureDepends
<1>4. ASSUME NEW i \in 1..14 PROVE scores'[i] = ScoreOf(Candidates[i])'
  <2> DEFINE c == Candidates[i]
  <2>1. scores'[i] =
          IF c \in Names THEN ServiceScore(evidence'.service[c]) + BonusOf(c)
          ELSE IF c \in EdgeNames THEN EdgeScore(evidence'.edge[c]) + Bonus(<<"edge", c>>)
          ELSE DatabaseScore(evidence'.database) + Bonus(<<"all", "events">>)
    BY CandidatesDiffer DEF Measure
  <2>2. /\ BonusOf(c)' = BonusOf(c) /\ Bonus(<<"edge", c>>)' = Bonus(<<"edge", c>>)
        /\ Bonus(<<"all", "events">>)' = Bonus(<<"all", "events">>)
    BY <1>1, MeasureDepends
  <2>3. ScoreOf(c)' =
          IF c \in Names THEN ServiceScore(evidence'.service[c]) + BonusOf(c)'
          ELSE IF c \in EdgeNames THEN EdgeScore(evidence'.edge[c]) + Bonus(<<"edge", c>>)'
          ELSE DatabaseScore(evidence'.database) + Bonus(<<"all", "events">>)'
    BY DEF ScoreOf, Service, Edge
  <2> QED
    BY <2>1, <2>2, <2>3
<1>5. ranking' = <<>>
  BY <1>1 DEF RankInv
<1> QED
  BY <1>1, <1>2, <1>3, <1>4, <1>5 DEF OriginInv, OriginLeads

\* What was measured stays as it was.
LEMMA MeasuredStays ==
  ASSUME OriginInv, before' = before, current' = current, first' = first,
         fault' = fault, evidence' = evidence, scores' = scores, OriginLeads'
  PROVE  OriginInv'
<1>1. evidence' # NoEvidence =>
        /\ InAll(current)' = MaxCurrent
        /\ evidence' = [service |-> ServiceEvidence', edge |-> EdgeEvidence',
                        database |-> DatabaseEvidence']
        /\ \A i \in 1..14 : scores'[i] = ScoreOf(Candidates[i])'
  <2> SUFFICES ASSUME evidence' # NoEvidence
               PROVE  /\ InAll(current)' = MaxCurrent
                      /\ evidence' = [service |-> ServiceEvidence', edge |-> EdgeEvidence',
                                      database |-> DatabaseEvidence']
                      /\ \A i \in 1..14 : scores'[i] = ScoreOf(Candidates[i])'
    OBVIOUS
  <2>1. /\ InAll(current) = MaxCurrent
        /\ evidence = [service |-> ServiceEvidence, edge |-> EdgeEvidence,
                       database |-> DatabaseEvidence]
        /\ \A i \in 1..14 : scores[i] = ScoreOf(Candidates[i])
    BY DEF OriginInv
  <2>2. ASSUME NEW i \in 1..14 PROVE ScoreOf(Candidates[i])' = ScoreOf(Candidates[i])
    BY MeasureDepends DEF ScoreOf, Service, Edge
  <2> QED
    BY <2>1, <2>2, MeasureDepends
<1> QED
  BY <1>1 DEF OriginInv

LEMMA OriginInvNext == RankInv /\ OriginInv /\ RankStep => OriginInv'
<1> SUFFICES ASSUME RankInv, OriginInv, RankStep PROVE OriginInv'
  OBVIOUS
<1>1. ASSUME NEW o \in {Fine, Refused, fault}, Happen(o) PROVE OriginInv'
  BY <1>1, HappenKeeps
<1>2. CASE Measure
  BY <1>2, MeasureKeeps
<1>3. CASE Rank
  <2>1. /\ evidence # NoEvidence /\ evidence' = evidence /\ scores' = scores
        /\ before' = before /\ current' = current /\ first' = first /\ fault' = fault
    BY <1>3 DEF Rank
  <2>2. ASSUME Clear PROVE ranking'[1] = Origin(fault)
    <3>1. Shown /\ first = fault
      BY <2>1, <2>2, ClearIsShown
    <3>2. ASSUME NEW i \in 1..14
          PROVE  Within(ScoreBound, scores[i]) /\ scores[i] = ScoreOf(Candidates[i])
      BY <2>1 DEF RankInv, OriginInv
    <3> QED
      BY <1>3, <2>2, <3>1, <3>2, ClearLeads
  <2>3. OriginLeads'
    <3>1. (Clear' <=> Clear) /\ Origin(fault)' = Origin(fault)
      BY <2>1, MeasureDepends
    <3> QED
      BY <2>2, <3>1 DEF OriginLeads
  <2> QED
    BY <2>1, <2>3, MeasuredStays
<1> QED
  BY <1>1, <1>2, <1>3 DEF RankStep

LEMMA OriginInvStutters == OriginInv /\ UNCHANGED rankVars => OriginInv'
<1> SUFFICES ASSUME OriginInv, UNCHANGED rankVars PROVE OriginInv'
  OBVIOUS
<1>1. /\ before' = before /\ current' = current /\ first' = first /\ fault' = fault
      /\ evidence' = evidence /\ scores' = scores /\ ranking' = ranking
  BY DEF rankVars
<1>2. (Clear' <=> Clear) /\ Origin(fault)' = Origin(fault)
  BY <1>1, MeasureDepends
<1>3. OriginLeads'
  BY <1>1, <1>2 DEF OriginInv, OriginLeads
<1> QED
  BY <1>1, <1>3, MeasuredStays

\* A fault that shows clearly in the stretch under suspicion is located, for all
\* numbers of requests that the two stretches may hold: rank_origins puts the dependency that times
\* out, the callee that is not reached, is late, locked or answers with errors, or
\* the database first, and none of the callers that pass the failure on.
THEOREM ClearFaultsAreLocated == StudySpec => []OriginLeads
<1>1. StudyInit => OriginInv
  BY OriginInvInit DEF StudyInit
<1>2. RankInv /\ OriginInv /\ [StudyNext]_studyVars => OriginInv'
  <2> SUFFICES ASSUME RankInv, OriginInv, [StudyNext]_studyVars PROVE OriginInv'
    OBVIOUS
  <2>1. RankStep \/ UNCHANGED rankVars
    BY DEF StudyNext, studyVars
  <2> QED
    BY <2>1, OriginInvNext, OriginInvStutters
<1>3. OriginInv => OriginLeads
  BY DEF OriginInv
<1> QED
  BY <1>1, <1>2, <1>3, RankInvAlways, PTL DEF StudySpec
=============================================================================
