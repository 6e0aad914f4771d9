------------------------ MODULE ResearchTransaction ------------------------
(***************************************************************************)
(* The simulated transaction of the research path: the gateway logs in,    *)
(* looks the account up and has the transaction service validate, pay and  *)
(* post.  No service retries, none compensates, and every caller waits at  *)
(* most its timeout while the called handler goes on.                      *)
(*                                                                         *)
(* A request is one POST of a client.  It makes at most one call of each   *)
(* service, so a call is identified by its request and its service; where  *)
(* a handler is shows in the replies it has got.                           *)
(***************************************************************************)
EXTENDS Integers

CONSTANTS
    Requests,  \* requests of all clients
    IdOf,      \* X-Request-ID of a request, unique in transaction_records
    Plans,     \* the plans a seed may draw: scenarios of the requests
    MaxFaults  \* bound: lost calls, failed handlers, early timeouts

Scenarios == {"valid", "invalid_login", "invalid_account", "invalid_amount"}

ASSUME PlanAssumption == Plans \subseteq [Requests -> Scenarios]
ASSUME FaultAssumption == MaxFaults \in Nat

VARIABLES
    scenario, \* scenario[r]: what the request asks for, drawn beforehand
    phase,    \* phase[r][s]: the handler of service s for request r
    reply,    \* reply[r][s]: what its caller got
    row,      \* row[r]: status of the transaction record of the request
    entries,  \* ledger entries <<r, entry_type>>, r for its transaction
    paid,     \* requests with a payment record
    faults    \* faults so far

rtVars == <<scenario, phase, reply, row, entries, paid, faults>>

Services == {"gateway", "auth", "lookup", "transaction", "validate",
             "payment", "payEntry", "txnEntry"}

\* config/service_dependencies.json, one service per endpoint called.
CalledBy == [gateway     |-> {"auth", "lookup", "transaction"},
             transaction |-> {"validate", "payment", "txnEntry"},
             payment     |-> {"payEntry"}]
Callers == DOMAIN CalledBy

Phases    == {"none", "open", "closed"}
Statuses  == {"NONE", "PENDING", "FAILED", "COMPLETED"}
Entry     == {"PAYMENT_COMPLETED", "TRANSACTION_COMPLETED"}

\* invalid: 200 with valid = False; refused: 400, 401, 404, 422; conflict:
\* 409; failed: any other status, or httpx.RequestError.
Replies == {"none", "ok", "invalid", "refused", "conflict", "failed"}

RtInit ==
    /\ scenario \in Plans
    /\ phase = [r \in Requests |-> [s \in Services |-> "none"]]
    /\ reply = [r \in Requests |-> [s \in Services |-> "none"]]
    /\ row = [r \in Requests |-> "NONE"]
    /\ entries = {}
    /\ paid = {}
    /\ faults = 0

-----------------------------------------------------------------------------
(* Calls *)

\* The handler of service s works on r and waits for no answer.
Works(r, s) ==
    /\ phase[r][s] = "open"
    /\ s \in Callers =>
         \A t \in CalledBy[s] : phase[r][t] # "none" => reply[r][t] # "none"

\* DownstreamClient.request of service s for service t: one request, no retry.
Call(r, s, t) ==
    /\ Works(r, s)
    /\ phase[r][t] = "none"
    /\ phase' = [phase EXCEPT ![r][t] = "open"]
    /\ UNCHANGED <<reply, row, entries, paid, faults>>

\* The client of the gateway waits as long as it has no answer, any other
\* caller as long as its handler runs.
Waits(r, t) == /\ reply[r][t] = "none"
               /\ \A s \in Callers : t \in CalledBy[s] => phase[r][s] = "open"

\* The handler of t ends, and its answer reaches a caller that still waits.
Answered(r, t, answer) ==
    /\ phase' = [phase EXCEPT ![r][t] = "closed"]
    /\ reply' = IF Waits(r, t) THEN [reply EXCEPT ![r][t] = answer] ELSE reply

Answer(r, t, answer) ==
    /\ Answered(r, t, answer)
    /\ UNCHANGED <<row, entries, paid, faults>>

\* The request is lost; or an injected 503 or 500 answers it before the
\* handler runs; or the handler raises what it does not catch (a commit that
\* fails, an answer that cannot be read); or the service dies.  Committed
\* rows stay as they are.
Die(r, t) ==
    /\ phase[r][t] = "open"
    /\ faults < MaxFaults
    /\ faults' = faults + 1
    /\ Answered(r, t, "failed")
    /\ UNCHANGED <<row, entries, paid>>

\* httpx.ReadTimeout after 5 seconds: the called handler is not told.
Timeout(r, t) ==
    /\ phase[r][t] = "open"
    /\ Waits(r, t)
    /\ faults < MaxFaults
    /\ faults' = faults + 1
    /\ reply' = [reply EXCEPT ![r][t] = "failed"]
    /\ UNCHANGED <<phase, row, entries, paid>>

-----------------------------------------------------------------------------
(* The transaction service *)

\* The record is committed before anything is called; request_id is unique.
AnyIsFresh(r) == row[r] = "NONE"
IsFresh(r) == \A q \in Requests : IdOf[q] = IdOf[r] => row[q] = "NONE"

Record(r) ==
    /\ Works(r, "transaction")
    /\ row[r] = "NONE"
    /\ IF IsFresh(r)
         THEN /\ row' = [row EXCEPT ![r] = "PENDING"]
              /\ UNCHANGED <<phase, reply>>
         ELSE /\ Answered(r, "transaction", "failed")
              /\ UNCHANGED row
    /\ UNCHANGED <<entries, paid, faults>>

\* What the handler has got so far lets it go on to service s.
GoesOnTo(r, s) ==
    /\ s = "payment"  => reply[r]["validate"] = "ok"
    /\ s = "txnEntry" => reply[r]["payment"] = "ok"

CallDownstream(r, s) ==
    /\ row[r] = "PENDING"
    /\ GoesOnTo(r, s)
    /\ Call(r, "transaction", s)

\* One of its calls was answered with a refusal, an error, or not at all.
Failing(r) ==
    \E s \in CalledBy["transaction"] : reply[r][s] \in Replies \ {"none", "ok"}

\* HTTPException, HTTPStatusError and RequestError are caught: FAILED.
Fail(r) ==
    /\ Works(r, "transaction")
    /\ row[r] = "PENDING"
    /\ Failing(r)
    /\ row' = [row EXCEPT ![r] = "FAILED"]
    /\ UNCHANGED <<phase, reply, entries, paid, faults>>

Complete(r) ==
    /\ Works(r, "transaction")
    /\ row[r] = "PENDING"
    /\ reply[r]["txnEntry"] = "ok"
    /\ row' = [row EXCEPT ![r] = "COMPLETED"]
    /\ UNCHANGED <<phase, reply, entries, paid, faults>>

\* 409 for a validation that said no, 502 or 503 for a failed call.
AnswerTransaction(r) ==
    /\ Works(r, "transaction")
    /\ row[r] \in {"FAILED", "COMPLETED"}
    /\ Answer(r, "transaction",
              IF row[r] = "COMPLETED" THEN "ok"
              ELSE IF reply[r]["validate"] = "invalid" THEN "conflict" ELSE "failed")

-----------------------------------------------------------------------------
(* The services it calls *)

\* validate_account: the balance may have changed since the client planned.
Validate(r) ==
    /\ Works(r, "validate")
    /\ \E answer \in {"ok", "invalid"} : Answer(r, "validate", answer)

\* create_payment posts its entry before it saves its own record.
Paid(r) == reply[r]["payEntry"] = "ok"

CallLedger(r) == r \notin paid /\ Call(r, "payment", "payEntry")

Save(r) ==
    /\ Works(r, "payment")
    /\ Paid(r)
    /\ r \notin paid
    /\ paid' = paid \cup {r}
    /\ UNCHANGED <<phase, reply, row, entries, faults>>

\* Nothing is caught: a failed call leaves as an unhandled exception.
AnswerPayment(r) ==
    /\ Works(r, "payment")
    /\ \/ r \in paid /\ Answer(r, "payment", "ok")
       \/ reply[r]["payEntry"] = "failed" /\ Answer(r, "payment", "failed")

\* create_entry; (transaction_id, entry_type) is unique.
EntryType == [s \in {"payEntry", "txnEntry"} |->
                IF s = "payEntry" THEN "PAYMENT_COMPLETED" ELSE "TRANSACTION_COMPLETED"]

Post(r, s) ==
    /\ phase[r][s] = "open"
    /\ <<r, EntryType[s]>> \notin entries
    /\ entries' = entries \cup {<<r, EntryType[s]>>}
    /\ UNCHANGED <<phase, reply, row, paid, faults>>

AnswerEntry(r, s) ==
    /\ phase[r][s] = "open"
    /\ <<r, EntryType[s]>> \in entries
    /\ Answer(r, s, "ok")

-----------------------------------------------------------------------------
(* The gateway *)

\* TransactionOrchestrator.run: login, lookup, process, one after the other.
Orchestrate(r) ==
    /\ scenario[r] # "invalid_amount"
    /\ \/ Call(r, "gateway", "auth")
       \/ reply[r]["auth"] = "ok" /\ Call(r, "gateway", "lookup")
       \/ reply[r]["lookup"] = "ok" /\ Call(r, "gateway", "transaction")

Login(r) ==
    /\ Works(r, "auth")
    /\ Answer(r, "auth", IF scenario[r] = "invalid_login" THEN "refused" ELSE "ok")

Lookup(r) ==
    /\ Works(r, "lookup")
    /\ Answer(r, "lookup", IF scenario[r] = "invalid_account" THEN "refused" ELSE "ok")

\* 4xx pass through, everything else becomes 502 or 503.
MasksErrors(answer) ==
    IF answer \in {"ok", "refused", "conflict"} THEN answer ELSE "refused"
GatewayReply(answer) ==
    IF answer \in {"ok", "refused", "conflict"} THEN answer ELSE "failed"

AnswerGateway(r) ==
    /\ Works(r, "gateway")
    /\ \/ scenario[r] = "invalid_amount" /\ Answer(r, "gateway", "refused")
       \/ \E s \in CalledBy["gateway"] :
            /\ reply[r][s] # "none"
            /\ s = "transaction" \/ reply[r][s] # "ok"
            /\ Answer(r, "gateway", GatewayReply(reply[r][s]))

-----------------------------------------------------------------------------
Handle(r) ==
  /\ UNCHANGED scenario
  /\ \/ \E t \in Services : Die(r, t)
     \/ \E t \in Services \ {"gateway"} : Timeout(r, t)
     \/ Record(r) \/ Fail(r) \/ Complete(r) \/ AnswerTransaction(r)
     \/ \E s \in CalledBy["transaction"] : CallDownstream(r, s)
     \/ Validate(r) \/ CallLedger(r) \/ Save(r) \/ AnswerPayment(r)
     \/ \E s \in DOMAIN EntryType : Post(r, s) \/ AnswerEntry(r, s)
     \/ Orchestrate(r) \/ Login(r) \/ Lookup(r) \/ AnswerGateway(r)
=============================================================================
