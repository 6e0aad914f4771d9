--------------------------- MODULE CaseAssistant ---------------------------
(***************************************************************************)
(* Explaining a transfer while it goes on.  An inspection reads the row    *)
(* of the transaction service and then asks the payment service for its    *)
(* own; the gateway inspects twice, and its assistant answers from a       *)
(* cache, with a checked answer of a language model, or by rules.          *)
(*                                                                         *)
(* Of the evidence the model keeps the workflow state, the funds status    *)
(* and the assessment of the frozen model; of an answer the evidence it    *)
(* was made from, whose hash it carries, and what it says of the recovery. *)
(* All requests ask the same question, so that the evidence alone tells    *)
(* them apart.                                                             *)
(***************************************************************************)
EXTENDS TransferWorkflow

CONSTANTS
    Explainers,   \* explain requests, each one after another
    Assessments,  \* what the second inspection and the frozen model add
    MaxEntries    \* cache_max_entries

ASSUME EntriesAssumption == MaxEntries \in Nat \ {0}

VARIABLES
    at,       \* at[e]: what request e awaits
    context,  \* context[e]: the evidence it has read
    answer,   \* answer[e]: its answer
    cache     \* cached answers

caseVars == <<at, context, answer, cache>>
allVars  == <<vars, caseVars>>

NoModel    == "none yet"
NoEvidence == [key |-> "none", state |-> "ABSENT", funds |-> "UNKNOWN", model |-> NoModel]
Unanswered == [evidence |-> NoEvidence, mode |-> "none", recovery |-> "none"]

-----------------------------------------------------------------------------
(* The two inspections *)

\* The funds status of the payment evidence saved in the row, if any.
\* Mutant: what is saved is not looked at.
NeverSaved(r) == "UNKNOWN"
LastSaved(r) == IF r.seen = "NONE" THEN "UNKNOWN" ELSE r.seen

\* owned_row and snapshot: a transfer that exists, read once.
Ask(e, k) ==
    /\ at[e] \in {"idle", "answered"}
    /\ txn[k].state # "ABSENT"
    /\ context' = [context EXCEPT ![e] = [key |-> k, state |-> txn[k].state,
                                          funds |-> LastSaved(txn[k]), model |-> NoModel]]
    /\ answer' = [answer EXCEPT ![e] = Unanswered]
    /\ at' = [at EXCEPT ![e] = "payment"]
    /\ UNCHANGED <<vars, cache>>

\* The payment service answers with its row as it is by now; a payment that
\* does not exist (404) or a service that does not answer leaves what is saved.
FundsStatus(c) == {c.funds} \cup {f \in {pay[c.key].funds} : pay[c.key].state # "ABSENT"}

InspectPayment(e) ==
    /\ at[e] = "payment"
    /\ \E funds \in FundsStatus(context[e]), m \in Assessments :
         context' = [context EXCEPT ![e] = [key |-> context[e].key,
                                            state |-> context[e].state,
                                            funds |-> funds, model |-> m]]
    /\ at' = [at EXCEPT ![e] = "model"]
    /\ UNCHANGED <<vars, answer, cache>>

\* Either inspection fails in the transaction service: no explanation.
InspectionFails(e) ==
    /\ at[e] \in {"payment", "model"}
    /\ context' = [context EXCEPT ![e] = NoEvidence]
    /\ at' = [at EXCEPT ![e] = "idle"]
    /\ UNCHANGED <<vars, answer, cache>>

-----------------------------------------------------------------------------
(* The assistant *)

\* What an answer is cached under: a hash of the assembled evidence.
\* Mutant: of the transfer.
PerTransfer(c) == [key |-> c.key]
CacheKey(c) == c

Text(c, mode, recovery) == [evidence |-> c, mode |-> mode, recovery |-> recovery]

Entry(c, text) == [under |-> CacheKey(c), text |-> text]
Cached(c) == {x \in cache : x.under = CacheKey(c)}

\* _cache_put: the answer replaces an older one of the same evidence, and the
\* one unused for longest makes room.  Which one that is no property tells.
Remember(c, text) ==
    LET kept == (cache \ Cached(c)) \cup {Entry(c, text)}
    IN  IF Cardinality(kept) <= MaxEntries THEN cache' = kept
        ELSE \E x \in cache \ Cached(c) : cache' = kept \ {x}

Respond(e, text) ==
    /\ answer' = [answer EXCEPT ![e] = text]
    /\ at' = [at EXCEPT ![e] = "answered"]

\* The second inspection is back, and explain finds a cached answer ...
Recall(e) ==
    /\ at[e] = "model"
    /\ \E x \in Cached(context[e]) : Respond(e, x.text)
    /\ UNCHANGED <<vars, context, cache>>

\* ... or none, or one older than the time to live, which it drops.
Consult(e) ==
    /\ at[e] = "model"
    /\ cache' = cache \ Cached(context[e])
    /\ at' = [at EXCEPT ![e] = "provider"]
    /\ UNCHANGED <<vars, context, answer>>

\* What the rules say of the recovery, as an observed fact: whatever does not
\* wait for a review "completed normally" or after one.  That they restate the
\* state and the funds status, and their words for the failure and its likely
\* cause, are left out.
RecoverySaid(c) == IF c.state = "REQUIRES_REVIEW" THEN "paused" ELSE "completed"
ByRules(c) == Text(c, "rules", RecoverySaid(c))

\* What the provider comes back with passes if it cites events of the case and
\* has the words of its state and its funds status in it ("not committed" has
\* the one of COMMITTED, too).  What it says with them nobody checks.
Generated(c) == Text(c, "generated", "unchecked")

\* The first candidate, or a second after a correction, passes.  Or neither
\* does, the provider fails after its own retries or none is configured: then
\* the answer is that of the rules.
Explained(e) ==
    /\ at[e] = "provider"
    /\ \E text \in {ByRules(context[e]), Generated(context[e])} :
         Respond(e, text) /\ Remember(context[e], text)
    /\ UNCHANGED <<vars, context>>

-----------------------------------------------------------------------------
Explain(e) ==
    \/ \E k \in Keys : Ask(e, k)
    \/ InspectPayment(e) \/ InspectionFails(e)
    \/ Recall(e) \/ Consult(e) \/ Explained(e)

CaseInit ==
    /\ Init
    /\ at = [e \in Explainers |-> "idle"]
    /\ context = [e \in Explainers |-> NoEvidence]
    /\ answer = [e \in Explainers |-> Unanswered]
    /\ cache = {}

CaseNext ==
    \/ Next /\ UNCHANGED caseVars
    \/ \E e \in Explainers : Explain(e)

CaseSpec == CaseInit /\ [][CaseNext]_allVars

-----------------------------------------------------------------------------
(* Properties *)

\* The evidence of an explanation, put together from rows that two services
\* committed at different times, neither contradicts itself nor overstates: a
\* completed transfer has committed funds, whether the payment service was
\* asked or could not be, committed funds are in the journal, and a completed
\* state is the transfer's own.
EvidenceAgrees ==
    \A e \in Explainers :
      LET c == context[e]
      IN  at[e] \notin {"idle", "payment"} =>
            /\ c.state = "COMPLETED" => c.funds = "COMMITTED" /\ txn[c.key].state = "COMPLETED"
            /\ c.funds = "COMMITTED" => c.key \in journal

\* An answer, generated, made by rules, or taken from the cache in which other
\* requests put theirs meanwhile, was made from the evidence its own request
\* read, so that nobody is told an earlier state of the transfer; and one that
\* is given as the rules' is what the rules make of that evidence.
AnswersFit ==
    \A e \in Explainers :
      at[e] = "answered" =>
        /\ answer[e].evidence = context[e]
        /\ answer[e].mode = "rules" => answer[e].recovery = RecoverySaid(context[e])

-----------------------------------------------------------------------------
(* A claim of the repository that the code does not keep *)

\* docs/phase-16f.md: "observed_fact -- persisted workflow or journal evidence
\* with event IDs".  What the rules give as the observed fact that the transfer
\* completed is in the evidence they had.
CompletionIsObserved ==
    \A e \in Explainers :
      at[e] = "answered" /\ answer[e].mode = "rules" /\ answer[e].recovery = "completed"
        => answer[e].evidence.state = "COMPLETED"
=============================================================================
