---------------------------- MODULE DemoSession ----------------------------
(***************************************************************************)
(* The demo sessions of the gateway: each is a JSON file that the handlers *)
(* of /api/v1/demo read and change while they drive one transfer through a *)
(* fault, an analysis, an approval and a recovery.                         *)
(*                                                                         *)
(* A handler runs in the gateway's event loop and is suspended only while  *)
(* it awaits another service or a workload phase: a step is what it does   *)
(* from one such await to the next.  DemoSessionStore.mutate awaits an     *)
(* uncontended lock only, so it is part of the step.  The control file is  *)
(* one variable here; FaultLease looks into its calls, and at the other    *)
(* programs that use it.                                                   *)
(***************************************************************************)
EXTENDS Naturals

CONSTANTS
    Sessions,       \* demo sessions
    Blind,          \* sessions in mode BLIND_RANDOM
    Faulty,         \* sessions whose scenario injects a fault
    Handlers,       \* requests that the gateway handles at a time
    ChallengeOnly,  \* challenge_seconds >= 70: the policy challenge_only_v1
    None            \* no session

ASSUME SessionAssumption ==
    /\ Blind \subseteq Sessions /\ Faulty \subseteq Sessions
    /\ None \notin Sessions
    /\ ChallengeOnly \in BOOLEAN

VARIABLES
    state,      \* state[s] and
    analysis,   \* analysis[s]: "state" and "analysis_status" of the file
    modelled,   \* sessions with an evaluated phase19b2_challenge_model
    revealed,   \* sessions with revealed_at
    transfer,   \* transfer[s]: what became of the transfer of session s
    accounts,   \* sessions whose destination account exists
    resumes,    \* sessions whose resume request has not been served yet
    control,    \* session whose fault active_fault.json holds, or None
    at,         \* at[h]: what handler h awaits
    on          \* on[h]: the session it works on, or None

store == <<state, analysis, modelled, revealed>>
services == <<transfer, accounts, resumes>>
vars == <<store, services, control, at, on>>

States == {"PREPARED", "BASELINE_RUNNING", "TELEMETRY_NOT_READY", "FAULT_ARMED",
           "CHALLENGE_RUNNING", "EXECUTION_ERROR", "AWAITING_REVIEW", "APPROVED",
           "RECOVERED", "COMPLETED"}
Analyses == {"NOT_REQUESTED", "TELEMETRY_NOT_READY", "WINDOW_READY", "READY"}
Transfers == {"absent", "posted", "paused", "unexpected", "completed"}
Awaits == {"idle", "baseline", "setup", "executing", "evidence", "challenge",
           "recovery", "analyzing", "resuming", "verifying"}

-----------------------------------------------------------------------------
Becomes(s, value) == state' = [state EXCEPT ![s] = value]
AnalysisBecomes(s, value) == analysis' = [analysis EXCEPT ![s] = value]

Begin(h, s, await) ==
    /\ at[h] = "idle"
    /\ at' = [at EXCEPT ![h] = await]
    /\ on' = [on EXCEPT ![h] = s]

Await(h, await) == at' = [at EXCEPT ![h] = await] /\ UNCHANGED on

\* The handler returns or raises.
End(h) ==
    /\ at' = [at EXCEPT ![h] = "idle"]
    /\ on' = [on EXCEPT ![h] = None]

-----------------------------------------------------------------------------
(* DemoFaultControl *)

\* arm raises if another session's fault is active; it replaces its own.
MayArm(s) == control \in {None, s}

\* clear raises, too.
MayClear(s) == control \in {None, s}
Clear(s) == control' = IF s \in Faulty THEN None ELSE control

\* The finally clause of a blind run: control.clear unless nothing was armed.
\* Mutant: the clause is missing.
NoCleanup(s) == UNCHANGED control
Cleanup(s) == control' = IF control = s THEN None ELSE control

-----------------------------------------------------------------------------
(* arm, execute, run *)

Armable(s) == state[s] \in {"PREPARED", "FAULT_ARMED"}

Arm(s) ==
    /\ s \in Faulty \ Blind
    /\ Armable(s)
    /\ MayArm(s)
    /\ control' = s
    /\ Becomes(s, "FAULT_ARMED")
    /\ UNCHANGED <<analysis, modelled, revealed, services, at, on>>

Execute(h, s) ==
    /\ s \notin Blind
    /\ state[s] = IF s \in Faulty THEN "FAULT_ARMED" ELSE "PREPARED"
    /\ s \in Faulty => control = s
    /\ Begin(h, s, "setup")
    /\ UNCHANGED <<store, services, control>>

Run(h, s) ==
    /\ s \in Blind
    /\ state[s] = "PREPARED"
    /\ Becomes(s, "BASELINE_RUNNING")
    /\ Begin(h, s, "baseline")
    /\ UNCHANGED <<analysis, modelled, revealed, services, control>>

TelemetryNotReady(h) ==
    /\ at[h] = "baseline"
    /\ Becomes(on[h], "TELEMETRY_NOT_READY")
    /\ AnalysisBecomes(on[h], "TELEMETRY_NOT_READY")
    /\ End(h)
    /\ UNCHANGED <<modelled, revealed, services, control>>

ArmRefused(h) ==
    /\ at[h] = "baseline"
    /\ on[h] \in Faulty /\ ~MayArm(on[h])
    /\ End(h)
    /\ UNCHANGED <<store, services, control>>

\* The scenario has a fault to arm.  Mutant: it is not asked.
AlwaysInjects(s) == TRUE
Injects(s) == s \in Faulty

\* The challenge is armed and its transfer begins.
Challenge(h) ==
    /\ at[h] = "baseline"
    /\ IF Injects(on[h])
       THEN MayArm(on[h]) /\ control' = on[h] /\ Becomes(on[h], "FAULT_ARMED")
       ELSE UNCHANGED control /\ Becomes(on[h], "CHALLENGE_RUNNING")
    /\ Await(h, "setup")
    /\ UNCHANGED <<analysis, modelled, revealed, services>>

-----------------------------------------------------------------------------
(* _execute_session *)

\* accounts/demo/create answers 409 to the second request for an account.
\* Mutant: it answers with the account.
AlwaysCreatable(s) == TRUE
Creatable(s) == s \notin accounts

\* Login, lookup and creation succeed; the transfer is posted.
SetUp(h) ==
    /\ at[h] = "setup"
    /\ Creatable(on[h])
    /\ accounts' = accounts \cup {on[h]}
    /\ transfer' = [transfer EXCEPT ![on[h]] = IF @ = "absent" THEN "posted" ELSE @]
    /\ Await(h, "executing")
    /\ UNCHANGED <<store, resumes, control>>

\* except Exception: any of the calls fails or is not answered in time, the
\* account possibly created and the transfer possibly running on.
ExecutionFails(h) ==
    /\ at[h] \in {"setup", "executing"}
    /\ accounts' \in {accounts, accounts \cup {on[h]}}
    /\ \/ /\ on[h] \in Faulty /\ ~MayClear(on[h])
          /\ UNCHANGED <<state, control>>
       \/ /\ on[h] \in Faulty => MayClear(on[h])
          /\ Clear(on[h])
          /\ Becomes(on[h], "EXECUTION_ERROR")
    /\ End(h)
    /\ UNCHANGED <<analysis, modelled, revealed, transfer, resumes>>

\* The transaction service answers.  Only a guided session clears its fault
\* now, and raises if that fails.
Executed(h) ==
    /\ at[h] = "executing"
    /\ transfer[on[h]] # "posted"
    /\ \/ /\ on[h] \in Faulty \ Blind /\ ~MayClear(on[h])
          /\ End(h)
          /\ UNCHANGED control
       \/ /\ on[h] \in Faulty \ Blind => MayClear(on[h])
          /\ IF on[h] \in Blind THEN UNCHANGED control ELSE Clear(on[h])
          /\ Await(h, "evidence")
    /\ UNCHANGED <<store, services>>

\* The evidence the scenario calls for.
Expected(s) == transfer[s] = IF s \in Faulty THEN "paused" ELSE "completed"

EvidenceAccepted(h) ==
    /\ at[h] = "evidence"
    /\ Expected(on[h])
    /\ Becomes(on[h], IF on[h] \in Faulty THEN "AWAITING_REVIEW" ELSE "COMPLETED")
    /\ IF on[h] \in Blind THEN Await(h, "challenge") ELSE End(h)
    /\ UNCHANGED <<analysis, modelled, revealed, services, control>>

\* Other evidence, or none.
EvidenceRefused(h) ==
    /\ at[h] = "evidence"
    /\ IF on[h] \in Blind THEN Cleanup(on[h]) ELSE UNCHANGED control
    /\ End(h)
    /\ UNCHANGED <<store, services>>

-----------------------------------------------------------------------------
(* The rest of run_blind_challenge *)

\* The challenge phase is over.  Under the policy challenge_only_v1 the model
\* may have evaluated it.
ChallengeEnds(h) ==
    /\ at[h] = "challenge"
    /\ modelled' \in {modelled, IF ChallengeOnly THEN modelled \cup {on[h]} ELSE modelled}
    /\ Cleanup(on[h])
    /\ IF MayClear(on[h]) \/ on[h] \notin Faulty THEN Await(h, "recovery") ELSE End(h)
    /\ UNCHANGED <<state, analysis, revealed, services>>

ChallengeFails(h) ==
    /\ at[h] = "challenge"
    /\ Cleanup(on[h])
    /\ End(h)
    /\ UNCHANGED <<store, services>>

\* A saved model that is not evaluated counts as a window, too.
RecoveryEnds(h) ==
    /\ at[h] = "recovery"
    /\ \/ AnalysisBecomes(on[h], "WINDOW_READY")
       \/ /\ ChallengeOnly => on[h] \notin modelled
          /\ AnalysisBecomes(on[h], "TELEMETRY_NOT_READY")
    /\ End(h)
    /\ UNCHANGED <<state, modelled, revealed, services, control>>

-----------------------------------------------------------------------------
(* analyze, reveal, approve *)

\* What the analysis of a blind session may use.  Mutant: the rolling window
\* in any case.
RollingWindow(s) == TRUE
ModelReady(s) == s \in Blind /\ ChallengeOnly => s \in modelled

Analyze(h, s) ==
    /\ state[s] \in {"AWAITING_REVIEW", "APPROVED", "RECOVERED", "COMPLETED"}
    /\ ModelReady(s)
    /\ Begin(h, s, "analyzing")
    /\ UNCHANGED <<store, services, control>>

\* The evidence, the model or the assistant fails, or its answer is saved.
Analyzed(h) ==
    /\ at[h] = "analyzing"
    /\ \/ AnalysisBecomes(on[h], "READY")
       \/ UNCHANGED analysis
    /\ End(h)
    /\ UNCHANGED <<state, modelled, revealed, services, control>>

Reveal(s) ==
    /\ s \in Blind
    /\ analysis[s] = "READY"
    /\ revealed' = revealed \cup {s}
    /\ UNCHANGED <<state, analysis, modelled, services, control, at, on>>

Approve(s) ==
    /\ state[s] = "AWAITING_REVIEW"
    /\ analysis[s] = "READY"
    /\ Becomes(s, "APPROVED")
    /\ UNCHANGED <<analysis, modelled, revealed, services, control, at, on>>

-----------------------------------------------------------------------------
(* recover *)

\* Recovery waits until no fault is active.  Mutant: it does not.
UnderAnyFault == TRUE
NoFault == control = None

Recover(h, s) ==
    /\ state[s] = "APPROVED"
    /\ NoFault
    /\ resumes' = resumes \cup {s}
    /\ Begin(h, s, "resuming")
    /\ UNCHANGED <<store, transfer, accounts, control>>

Resumed(h) ==
    /\ at[h] = "resuming"
    /\ on[h] \notin resumes
    /\ transfer[on[h]] = "completed"
    /\ Await(h, "verifying")
    /\ UNCHANGED <<store, services, control>>

\* No answer, a transfer that paused again, or balances that do not match.
RecoveryFails(h) ==
    /\ at[h] \in {"resuming", "verifying"}
    /\ End(h)
    /\ UNCHANGED <<store, services, control>>

Verified(h) ==
    /\ at[h] = "verifying"
    /\ Becomes(on[h], "RECOVERED")
    /\ End(h)
    /\ UNCHANGED <<analysis, modelled, revealed, services, control>>

-----------------------------------------------------------------------------
(* The other services, the lease and the gateway process *)

\* A posted transfer runs, whether or not its handler still waits.
TransferRuns(s) ==
    /\ transfer[s] = "posted"
    /\ \E result \in {"paused", "unexpected", "completed"} :
         transfer' = [transfer EXCEPT ![s] = result]
    /\ UNCHANGED <<store, accounts, resumes, control, at, on>>

\* The same transfer resumes; it may pause again.
ResumeRuns(s) ==
    /\ s \in resumes
    /\ resumes' = resumes \ {s}
    /\ transfer' \in {transfer, [transfer EXCEPT ![s] = "completed"]}
    /\ UNCHANGED <<store, accounts, control, at, on>>

Expire ==
    /\ control # None
    /\ control' = None
    /\ UNCHANGED <<store, services, at, on>>

\* The files survive, the handlers do not.
Restart ==
    /\ at' = [h \in Handlers |-> "idle"]
    /\ on' = [h \in Handlers |-> None]
    /\ UNCHANGED <<store, services, control>>

-----------------------------------------------------------------------------
Init ==
    /\ state = [s \in Sessions |-> "PREPARED"]
    /\ analysis = [s \in Sessions |-> "NOT_REQUESTED"]
    /\ modelled = {} /\ revealed = {}
    /\ transfer = [s \in Sessions |-> "absent"]
    /\ accounts = {} /\ resumes = {}
    /\ control = None
    /\ at = [h \in Handlers |-> "idle"]
    /\ on = [h \in Handlers |-> None]

Requested(h, s) == Execute(h, s) \/ Run(h, s) \/ Analyze(h, s) \/ Recover(h, s)

Continued(h) ==
    \/ TelemetryNotReady(h) \/ ArmRefused(h) \/ Challenge(h)
    \/ SetUp(h) \/ ExecutionFails(h) \/ Executed(h)
    \/ EvidenceAccepted(h) \/ EvidenceRefused(h)
    \/ ChallengeEnds(h) \/ ChallengeFails(h) \/ RecoveryEnds(h)
    \/ Analyzed(h) \/ Resumed(h) \/ RecoveryFails(h) \/ Verified(h)

Next ==
    \/ \E h \in Handlers : Continued(h) \/ \E s \in Sessions : Requested(h, s)
    \/ \E s \in Sessions :
         Arm(s) \/ Reveal(s) \/ Approve(s) \/ TransferRuns(s) \/ ResumeRuns(s)
    \/ Expire
    \/ Restart

Spec == Init /\ [][Next]_vars

-----------------------------------------------------------------------------
(* Properties *)

TypeOK ==
    /\ state \in [Sessions -> States]
    /\ analysis \in [Sessions -> Analyses]
    /\ modelled \subseteq Blind /\ revealed \subseteq Blind
    /\ transfer \in [Sessions -> Transfers]
    /\ accounts \subseteq Sessions /\ resumes \subseteq Sessions
    /\ control \in Faulty \cup {None}
    /\ at \in [Handlers -> Awaits]
    /\ on \in [Handlers -> Sessions \cup {None}]

Recovering(s) ==
    \/ s \in resumes
    \/ \E h \in Handlers : on[h] = s /\ at[h] \in {"resuming", "verifying"}

\* A session's own fault is over for good once its recovery started or its
\* execution failed, although recover looks at the control file only before
\* its first await and a second execution may still run.
RecoversWithoutOwnFault ==
    \A s \in Sessions :
      Recovering(s) \/ state[s] \in {"EXECUTION_ERROR", "RECOVERED"} => control # s

\* However many requests execute a session at a time, one of them gets as far
\* as posting the transfer: no second one saves other balances_before.
Posted(h, s) == on[h] = s /\ at[h] \in {"executing", "evidence", "challenge"}

SingleExecution ==
    \A s \in Sessions : \A g, h \in Handlers : Posted(g, s) /\ Posted(h, s) => g = h

\* The states that a session shows after its transfer are true of the transfer,
\* whatever the other requests that execute it do meanwhile.
StateIsBacked ==
    \A s \in Sessions :
      /\ state[s] \in {"RECOVERED", "COMPLETED"} => transfer[s] = "completed"
      /\ state[s] \in {"AWAITING_REVIEW", "APPROVED"} =>
           transfer[s] \in {"paused", "completed"}

\* Under the policy challenge_only_v1 a blind session can be analyzed, and so
\* revealed, only after its challenge phase: its fault is not active then.
RunAwaits == {"baseline", "setup", "executing", "evidence", "challenge"}

UnderChallenge(s) ==
    \/ control = s
    \/ \E h \in Handlers : on[h] = s /\ at[h] \in RunAwaits

SealedDuringChallenge ==
    ChallengeOnly => \A s \in Blind :
      analysis[s] = "READY" \/ s \in revealed => ~UnderChallenge(s)

\* phase-19a.md: the fault of a blind run is cleared on success or error.
\* However the run ends, other than with the gateway, its fault is not active.
BlindRunClears ==
    [][\A h \in Handlers :
         on[h] \in Blind /\ at[h] \in RunAwaits /\ at'[h] = "idle" /\ ~Restart
           => control' # on[h]]_vars

\* Only the failure of an overlapping execution takes a session back.
Rank(value) ==
    CASE value = "PREPARED" -> 0
      [] value = "BASELINE_RUNNING" -> 1
      [] value \in {"FAULT_ARMED", "CHALLENGE_RUNNING"} -> 2
      [] value = "AWAITING_REVIEW" -> 3
      [] value = "APPROVED" -> 4
      [] OTHER -> 5

ProgressIsKept ==
    [][\A s \in Sessions :
         "EXECUTION_ERROR" \notin {state[s], state'[s]} =>
           \/ Rank(state[s]) < Rank(state'[s])
           \/ state[s] = state'[s]]_vars
=============================================================================
