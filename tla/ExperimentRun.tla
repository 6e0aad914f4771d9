--------------------------- MODULE ExperimentRun ---------------------------
(***************************************************************************)
(* The experiment runner on top of the research path: it plans requests,   *)
(* keeps a bounded number of them under way, gives each 15 seconds, and    *)
(* writes a manifest only for a run whose requests all did what was        *)
(* expected and whose log events prove the whole path of every valid one.  *)
(* A run may be started again under its identifier: its requests then have *)
(* the identifiers they had before.                                        *)
(***************************************************************************)
EXTENDS ResearchTransaction, FiniteSets

CONSTANTS
    Runs,           \* starts of the runner
    RunOf,          \* the run of a request
    MaxConcurrency  \* permits of the runner's semaphore

ASSUME ConcurrencyAssumption == MaxConcurrency \in Nat \ {0}

VARIABLE run  \* run[x]: what the runner process x is doing

vars == <<rtVars, run>>

RunStates == {"new", "running", "failed", "complete"}

Init == RtInit /\ run = [x \in Runs |-> "new"]

PlannedBy(x) == {r \in Requests : RunOf[r] = x}
Result(r) == reply[r]["gateway"]

-----------------------------------------------------------------------------
(* execute_plan *)

Start(x) ==
    /\ run[x] = "new"
    /\ run' = [run EXCEPT ![x] = "running"]
    /\ UNCHANGED rtVars

\* Requests that hold a permit of the semaphore.
UnderWay(x) == {r \in PlannedBy(x) : phase[r]["gateway"] # "none" /\ Result(r) = "none"}

Submit(r) ==
    /\ run[RunOf[r]] = "running"
    /\ phase[r]["gateway"] = "none"
    /\ Cardinality(UnderWay(RunOf[r])) < MaxConcurrency
    /\ phase' = [phase EXCEPT ![r]["gateway"] = "open"]
    /\ UNCHANGED <<scenario, reply, row, entries, paid, faults, run>>

\* The client's timeout; whatever it asked for goes on.
GiveUp(r) ==
    /\ run[RunOf[r]] = "running"
    /\ r \in UnderWay(RunOf[r])
    /\ reply' = [reply EXCEPT ![r]["gateway"] = "failed"]
    /\ UNCHANGED <<scenario, phase, row, entries, paid, faults, run>>

-----------------------------------------------------------------------------
(* run_experiment after the traffic *)

\* execute_request: status code, and COMPLETED for a valid request.
Expected(r) == Result(r) = IF scenario[r] = "valid" THEN "ok" ELSE "refused"

\* Events of the request's identifier; those of an earlier start under the
\* same run identifier are among them.
SameId(r) == {q \in Requests : IdOf[q] = IdOf[r]}
Edges == UNION {CalledBy[s] : s \in Callers}

\* validate_correlated_run: every edge completed, no event of a failure.
Correlated(r) ==
    \A t \in Edges : /\ \E q \in SameId(r) : reply[q][t] \in {"ok", "invalid"}
                     /\ \A q \in SameId(r) : reply[q][t] \in {"none", "ok", "invalid"}

AllAnswered(x) == \A r \in PlannedBy(x) : Result(r) # "failed"
Clean(x) ==
    \A r \in PlannedBy(x) : Expected(r) /\ (scenario[r] = "valid" => Correlated(r))

\* All tasks gathered.  Events that do not show within 5 seconds fail the
\* run, and so does a runner that is stopped.
Finish(x) ==
    /\ run[x] = "running"
    /\ \A r \in PlannedBy(x) : Result(r) # "none"
    /\ \/ Clean(x) /\ run' = [run EXCEPT ![x] = "complete"]
       \/ run' = [run EXCEPT ![x] = "failed"]
    /\ UNCHANGED rtVars

Stop(x) ==
    /\ run[x] = "running"
    /\ run' = [run EXCEPT ![x] = "failed"]
    /\ UNCHANGED rtVars

-----------------------------------------------------------------------------
Next ==
    \/ \E x \in Runs : Start(x) \/ Finish(x) \/ Stop(x)
    \/ \E r \in Requests : Submit(r) \/ GiveUp(r) \/ (Handle(r) /\ UNCHANGED run)

Spec == Init /\ [][Next]_vars

-----------------------------------------------------------------------------
(* Properties *)

\* Every variable has a value the code can give it.
TypeOK ==
    /\ scenario \in Plans
    /\ phase \in [Requests -> [Services -> Phases]]
    /\ reply \in [Requests -> [Services -> Replies]]
    /\ row \in [Requests -> Statuses]
    /\ entries \subseteq Requests \X Entry
    /\ paid \subseteq Requests
    /\ faults \in Nat
    /\ run \in [Runs -> RunStates]

\* Evidence is built up in one order and never outruns itself, whatever is
\* lost or dies: a COMPLETED record has its transaction entry, that entry its
\* payment record, and a payment record its own ledger entry.
EvidenceChain ==
    \A r \in Requests :
       /\ row[r] = "COMPLETED" => <<r, "TRANSACTION_COMPLETED">> \in entries
       /\ <<r, "TRANSACTION_COMPLETED">> \in entries => r \in paid
       /\ r \in paid => <<r, "PAYMENT_COMPLETED">> \in entries

\* The client is never told more than happened: success means the record is
\* COMPLETED, and a refusal or a conflict that nothing was or will be posted
\* or paid and that no record is left PENDING.
AnswersAreTrue ==
    \A r \in Requests :
       /\ Result(r) = "ok" => row[r] = "COMPLETED"
       /\ Result(r) \in {"refused", "conflict"} =>
            /\ row[r] \in {"NONE", "FAILED"}
            /\ r \notin paid
            /\ {e \in entries : e[1] = r} = {}

\* A request identifier is paid at most once, however often it is sent and
\* whatever became of the attempts before.
OncePerRequest ==
    \A q, r \in Requests :
       q # r /\ IdOf[q] = IdOf[r] =>
          ({q, r} \cap {e[1] : e \in entries}) # {q, r}

\* A manifest vouches for its run: every valid request of it is COMPLETED
\* with its whole evidence, and every other one left no trace.
ManifestIsClean ==
    \A x \in Runs : run[x] = "complete" =>
       \A r \in PlannedBy(x) :
          IF scenario[r] = "valid"
            THEN row[r] = "COMPLETED" /\ r \in paid /\ {r} \X Entry \subseteq entries
            ELSE row[r] = "NONE" /\ r \notin paid
=============================================================================
