------------------------- MODULE DemoSession_proofs -------------------------
(***************************************************************************)
(* What the demo sessions promise: DemoSession for every number of         *)
(* sessions and concurrent requests, and BlindEvidence for every length of *)
(* the phases and whatever others do meanwhile.  Each has an inductive     *)
(* invariant of its own; they share no variable.                           *)
(***************************************************************************)
EXTENDS BlindChallenge, TLAPS, WellFoundedInduction, FiniteSetTheorems

\* States a session has before its first transfer is judged.
Early == {"PREPARED", "BASELINE_RUNNING", "TELEMETRY_NOT_READY", "FAULT_ARMED",
          "CHALLENGE_RUNNING"}

\* What a suspended handler may rely on: its session, that the session whose
\* baseline it runs is at its baseline, that the account it created exists,
\* and that the transfer it verifies completed.
HandlersKnow ==
    \A h \in Handlers :
      /\ at[h] # "idle" => on[h] \in Sessions
      /\ at[h] \in {"baseline", "challenge", "recovery"} => on[h] \in Blind
      /\ at[h] = "baseline" => state[on[h]] = "BASELINE_RUNNING"
      /\ at[h] \in {"executing", "evidence", "challenge"} => on[h] \in accounts
      /\ at[h] = "verifying" => transfer[on[h]] = "completed"

\* A blind session is run once, and what follows its baseline finds a state
\* from which no run starts.
RunsOnce ==
    /\ \A i, h \in Handlers :
         (on[i] \in Blind /\ on[i] = on[h] /\ {at[i], at[h]} \subseteq RunAwaits)
           => i = h
    /\ \A h \in Handlers :
         at[h] \notin {"idle", "baseline"} /\ on[h] \in Blind =>
           state[on[h]] \notin {"PREPARED", "BASELINE_RUNNING"}

\* Nothing brings a session that recovers back to a state in which a fault
\* can be armed.
RecoversLate == \A s \in Sessions : Recovering(s) => state[s] \notin Early

\* Before its challenge a blind session has no fault, and a run whose baseline
\* did not give enough telemetry is over.
BlindStart ==
    \A s \in Sessions :
      /\ s \in Blind /\ state[s] \in {"PREPARED", "BASELINE_RUNNING"} => control # s
      /\ state[s] = "TELEMETRY_NOT_READY" =>
           s \in Blind /\ \A h \in Handlers : on[h] = s => at[h] \notin RunAwaits

\* A session whose transfer was judged, or that recovers, has an account, so
\* that no request executes it again.
Judged == {"AWAITING_REVIEW", "APPROVED", "RECOVERED", "COMPLETED"}

JudgedOnce ==
    /\ \A s \in Sessions :
         \/ state[s] \in Judged
         \/ \E h \in Handlers : on[h] = s /\ at[h] \in {"resuming", "verifying"}
         => /\ s \in accounts
            /\ \A h \in Handlers : on[h] = s => at[h] \notin {"executing", "evidence"}
    /\ \A h \in Handlers :
         at[h] \in {"resuming", "verifying"} =>
           state[on[h]] \in {"APPROVED", "RECOVERED", "EXECUTION_ERROR"}

\* Under challenge_only_v1 the model of a blind session is evaluated after its
\* challenge, and analysis and reveal wait for it.
Sealed ==
    ChallengeOnly =>
      /\ \A s \in Blind : analysis[s] = "READY" \/ s \in revealed => s \in modelled
      /\ \A s \in modelled : state[s] \notin {"PREPARED", "BASELINE_RUNNING"}
      /\ \A s \in modelled : ~UnderChallenge(s)
      /\ \A h \in Handlers : at[h] = "analyzing" /\ on[h] \in Blind => on[h] \in modelled

Inv ==
    /\ TypeOK
    /\ HandlersKnow
    /\ RunsOnce
    /\ SingleExecution
    /\ RecoversLate
    /\ RecoversWithoutOwnFault
    /\ StateIsBacked
    /\ BlindStart
    /\ JudgedOnce
    /\ Sealed

\* The steps of BlindRunClears and of ProgressIsKept.
EndClears ==
    \A h \in Handlers :
      on[h] \in Blind /\ at[h] \in RunAwaits /\ at'[h] = "idle" /\ ~Restart
        => control' # on[h]

LeadsOn ==
    \A s \in Sessions :
      "EXECUTION_ERROR" \notin {state[s], state'[s]} =>
        \/ Rank(state[s]) < Rank(state'[s])
        \/ state[s] = state'[s]

-----------------------------------------------------------------------------
\* Every step keeps the types.
LEMMA TypeKept == TypeOK /\ HandlersKnow /\ [Next]_vars => TypeOK'
<1> SUFFICES ASSUME TypeOK /\ HandlersKnow, [Next]_vars
             PROVE  TypeOK'
  OBVIOUS
<1> USE SessionAssumption DEF TypeOK, HandlersKnow, States, Analyses,
      Transfers, Awaits
<1>1. ASSUME NEW h \in Handlers, Challenge(h) PROVE TypeOK'
  BY <1>1 DEF Challenge, Injects, MayArm, Becomes, Await, store, services
<1>2. ASSUME NEW h \in Handlers, SetUp(h) PROVE TypeOK'
  BY <1>2 DEF SetUp, Creatable, Await, store, services
<1>3. ASSUME NEW h \in Handlers, ExecutionFails(h) PROVE TypeOK'
  BY <1>3 DEF ExecutionFails, MayClear, Clear, Becomes, End, store, services
<1>4. ASSUME NEW h \in Handlers, Executed(h) PROVE TypeOK'
  BY <1>4 DEF Executed, MayClear, Clear, Await, End, store, services
<1>5. ASSUME NEW h \in Handlers, ChallengeEnds(h) PROVE TypeOK'
  BY <1>5 DEF ChallengeEnds, MayClear, Cleanup, Await, End, store, services
<1>6. ASSUME NEW s \in Sessions, Arm(s) PROVE TypeOK'
  BY <1>6 DEF Arm, Armable, MayArm, Becomes, store, services
<1>7. ASSUME NEW h \in Handlers,
            TelemetryNotReady(h) \/ ArmRefused(h) \/ EvidenceAccepted(h) \/
            EvidenceRefused(h) \/ ChallengeFails(h) \/ RecoveryEnds(h) \/
            Analyzed(h) \/ Resumed(h) \/ RecoveryFails(h) \/ Verified(h)
     PROVE  TypeOK'
  BY <1>7 DEF TelemetryNotReady, Becomes, AnalysisBecomes, End, ArmRefused,
      EvidenceAccepted, Expected, Await, EvidenceRefused, Cleanup,
      ChallengeFails, RecoveryEnds, Analyzed, Resumed, RecoveryFails,
      Verified, store, services
<1>8. ASSUME NEW h \in Handlers, NEW s \in Sessions,
            Execute(h, s) \/ Run(h, s) \/ Analyze(h, s) \/ Recover(h, s)
     PROVE  TypeOK'
  BY <1>8 DEF Execute, Begin, Run, Becomes, Analyze, ModelReady, Recover,
      NoFault, store, services
<1>9. ASSUME NEW s \in Sessions,
            Reveal(s) \/ Approve(s) \/ TransferRuns(s) \/ ResumeRuns(s)
     PROVE  TypeOK'
  BY <1>9 DEF Reveal, Approve, Becomes, TransferRuns, ResumeRuns, store,
      services
<1>10. CASE Expire \/ Restart \/ UNCHANGED vars
  BY <1>10 DEF Expire, Restart, vars, store, services
<1>11. QED
  BY <1>1, <1>2, <1>3, <1>4, <1>5, <1>6, <1>7, <1>8, <1>9, <1>10 DEF Next,
     Requested, Continued

\* What a handler relies on stays true while others work.
LEMMA KnowledgeKept ==
  TypeOK /\ HandlersKnow /\ RunsOnce /\ [Next]_vars
    => HandlersKnow'
<1> SUFFICES ASSUME TypeOK /\ HandlersKnow /\ RunsOnce, [Next]_vars
             PROVE  HandlersKnow'
  OBVIOUS
<1> USE SessionAssumption DEF TypeOK, HandlersKnow, RunsOnce, RunAwaits
<1>1. ASSUME NEW h \in Handlers, Challenge(h) PROVE HandlersKnow'
  BY <1>1 DEF Challenge, Injects, MayArm, Becomes, Await, store, services
<1>2. ASSUME NEW h \in Handlers, SetUp(h) PROVE HandlersKnow'
  BY <1>2 DEF SetUp, Creatable, Await, store, services
<1>3. ASSUME NEW h \in Handlers, ExecutionFails(h) PROVE HandlersKnow'
  BY <1>3 DEF ExecutionFails, MayClear, Clear, Becomes, End, store, services
<1>4. ASSUME NEW h \in Handlers, Executed(h) PROVE HandlersKnow'
  BY <1>4 DEF Executed, MayClear, Clear, Await, End, store, services
<1>5. ASSUME NEW h \in Handlers, EvidenceAccepted(h) PROVE HandlersKnow'
  BY <1>5 DEF EvidenceAccepted, Expected, Becomes, Await, End, store,
      services
<1>6. ASSUME NEW h \in Handlers, Resumed(h) PROVE HandlersKnow'
  BY <1>6 DEF Resumed, Await, store, services
<1>7. ASSUME NEW h \in Handlers, Verified(h) PROVE HandlersKnow'
  BY <1>7 DEF Verified, Becomes, End, store, services
<1>8. ASSUME NEW s \in Sessions, Arm(s) PROVE HandlersKnow'
  BY <1>8 DEF Arm, Armable, MayArm, Becomes, store, services
<1>9. ASSUME NEW s \in Sessions, TransferRuns(s) PROVE HandlersKnow'
  BY <1>9 DEF TransferRuns, store, services
<1>10. ASSUME NEW s \in Sessions, ResumeRuns(s) PROVE HandlersKnow'
  BY <1>10 DEF ResumeRuns, store, services
<1>11. ASSUME NEW h \in Handlers,
            TelemetryNotReady(h) \/ ArmRefused(h) \/ EvidenceRefused(h) \/
            ChallengeEnds(h) \/ ChallengeFails(h) \/ RecoveryEnds(h) \/
            Analyzed(h) \/ RecoveryFails(h)
     PROVE  HandlersKnow'
  BY <1>11 DEF TelemetryNotReady, Becomes, AnalysisBecomes, End, ArmRefused,
      EvidenceRefused, Cleanup, ChallengeEnds, MayClear, Await,
      ChallengeFails, RecoveryEnds, Analyzed, RecoveryFails, store, services
<1>12. ASSUME NEW h \in Handlers, NEW s \in Sessions,
            Execute(h, s) \/ Run(h, s) \/ Analyze(h, s) \/ Recover(h, s)
     PROVE  HandlersKnow'
  BY <1>12 DEF Execute, Begin, Run, Becomes, Analyze, ModelReady, Recover,
      NoFault, store, services
<1>13. ASSUME NEW s \in Sessions,
            Reveal(s) \/ Approve(s)
     PROVE  HandlersKnow'
  BY <1>13 DEF Reveal, Approve, Becomes, store, services
<1>14. CASE Expire \/ Restart \/ UNCHANGED vars
  BY <1>14 DEF Expire, Restart, vars, store, services
<1>15. QED
  BY <1>1, <1>2, <1>3, <1>4, <1>5, <1>6, <1>7, <1>8, <1>9, <1>10, <1>11,
     <1>12, <1>13, <1>14 DEF Next, Requested, Continued

\* A blind run starts from PREPARED only, and nothing leads back to it.
LEMMA RunsOnceKept ==
  TypeOK /\ HandlersKnow /\ RunsOnce /\ [Next]_vars
    => RunsOnce'
<1> SUFFICES ASSUME TypeOK /\ HandlersKnow /\ RunsOnce, [Next]_vars
             PROVE  RunsOnce'
  OBVIOUS
<1> USE SessionAssumption DEF TypeOK, HandlersKnow, RunsOnce
<1>1. ASSUME NEW h \in Handlers, Challenge(h) PROVE RunsOnce'
  BY <1>1 DEF Challenge, Injects, MayArm, Becomes, Await, store, services,
      RunAwaits
<1>2. ASSUME NEW h \in Handlers, EvidenceAccepted(h) PROVE RunsOnce'
  BY <1>2 DEF EvidenceAccepted, Expected, Becomes, Await, End, store,
      services, RunAwaits
<1>3. ASSUME NEW h \in Handlers, NEW s \in Sessions, Run(h, s) PROVE RunsOnce'
  BY <1>3 DEF Run, Becomes, Begin, store, services, RunAwaits
<1>4. ASSUME NEW s \in Sessions, Arm(s) PROVE RunsOnce'
  BY <1>4 DEF Arm, Armable, MayArm, Becomes, store, services, RunAwaits
<1>5. ASSUME NEW h \in Handlers,
            TelemetryNotReady(h) \/ ArmRefused(h) \/ SetUp(h) \/
            ExecutionFails(h) \/ Executed(h) \/ EvidenceRefused(h) \/
            ChallengeEnds(h) \/ ChallengeFails(h) \/ RecoveryEnds(h) \/
            Analyzed(h) \/ Resumed(h) \/ RecoveryFails(h) \/ Verified(h)
     PROVE  RunsOnce'
  BY <1>5 DEF TelemetryNotReady, Becomes, AnalysisBecomes, End, ArmRefused,
      SetUp, Creatable, Await, ExecutionFails, MayClear, Clear, Executed,
      EvidenceRefused, Cleanup, ChallengeEnds, ChallengeFails, RecoveryEnds,
      Analyzed, Resumed, RecoveryFails, Verified, store, services, RunAwaits
<1>6. ASSUME NEW h \in Handlers, NEW s \in Sessions,
            Execute(h, s) \/ Analyze(h, s) \/ Recover(h, s)
     PROVE  RunsOnce'
  BY <1>6 DEF Execute, Begin, Analyze, ModelReady, Recover, NoFault, store,
      services, RunAwaits
<1>7. ASSUME NEW s \in Sessions,
            Reveal(s) \/ Approve(s) \/ TransferRuns(s) \/ ResumeRuns(s)
     PROVE  RunsOnce'
  BY <1>7 DEF Reveal, Approve, Becomes, TransferRuns, ResumeRuns, store,
      services, RunAwaits
<1>8. CASE Expire \/ Restart \/ UNCHANGED vars
  BY <1>8 DEF Expire, Restart, vars, store, services, RunAwaits
<1>9. QED
  BY <1>1, <1>2, <1>3, <1>4, <1>5, <1>6, <1>7, <1>8 DEF Next, Requested,
     Continued

\* The account of a session is created once.
LEMMA SingleKept ==
  TypeOK /\ HandlersKnow /\ SingleExecution /\ [Next]_vars
    => SingleExecution'
<1> SUFFICES ASSUME TypeOK /\ HandlersKnow /\ SingleExecution, [Next]_vars
             PROVE  SingleExecution'
  OBVIOUS
<1> USE SessionAssumption DEF TypeOK, HandlersKnow, SingleExecution
<1>1. ASSUME NEW h \in Handlers, SetUp(h) PROVE SingleExecution'
  BY <1>1 DEF SetUp, Creatable, Await, store, services, Posted
<1>2. ASSUME NEW h \in Handlers,
            TelemetryNotReady(h) \/ ArmRefused(h) \/ Challenge(h) \/
            ExecutionFails(h) \/ Executed(h) \/ EvidenceAccepted(h) \/
            EvidenceRefused(h) \/ ChallengeEnds(h) \/ ChallengeFails(h) \/
            RecoveryEnds(h) \/ Analyzed(h) \/ Resumed(h) \/ RecoveryFails(h) \/
            Verified(h)
     PROVE  SingleExecution'
  BY <1>2 DEF TelemetryNotReady, Becomes, AnalysisBecomes, End, ArmRefused,
      Challenge, Injects, MayArm, Await, ExecutionFails, MayClear, Clear,
      Executed, EvidenceAccepted, Expected, EvidenceRefused, Cleanup,
      ChallengeEnds, ChallengeFails, RecoveryEnds, Analyzed, Resumed,
      RecoveryFails, Verified, store, services, Posted
<1>3. ASSUME NEW h \in Handlers, NEW s \in Sessions,
            Execute(h, s) \/ Run(h, s) \/ Analyze(h, s) \/ Recover(h, s)
     PROVE  SingleExecution'
  BY <1>3 DEF Execute, Begin, Run, Becomes, Analyze, ModelReady, Recover,
      NoFault, store, services, Posted
<1>4. ASSUME NEW s \in Sessions,
            Arm(s) \/ Reveal(s) \/ Approve(s) \/ TransferRuns(s) \/
            ResumeRuns(s)
     PROVE  SingleExecution'
  BY <1>4 DEF Arm, Armable, MayArm, Becomes, Reveal, Approve, TransferRuns,
      ResumeRuns, store, services, Posted
<1>5. CASE Expire \/ Restart \/ UNCHANGED vars
  BY <1>5 DEF Expire, Restart, vars, store, services, Posted
<1>6. QED
  BY <1>1, <1>2, <1>3, <1>4, <1>5 DEF Next, Requested, Continued

\* A session that recovers has been judged, and stays so.
LEMMA LateKept ==
  TypeOK /\ HandlersKnow /\ RecoversLate /\ [Next]_vars
    => RecoversLate'
<1> SUFFICES ASSUME TypeOK /\ HandlersKnow /\ RecoversLate, [Next]_vars
             PROVE  RecoversLate'
  OBVIOUS
<1> USE SessionAssumption DEF TypeOK, HandlersKnow, RecoversLate, Early
<1>1. ASSUME NEW h \in Handlers, Challenge(h) PROVE RecoversLate'
  BY <1>1 DEF Challenge, Injects, MayArm, Becomes, Await, store, services,
      Recovering
<1>2. ASSUME NEW h \in Handlers, ExecutionFails(h) PROVE RecoversLate'
  BY <1>2 DEF ExecutionFails, MayClear, Clear, Becomes, End, store, services,
      Recovering
<1>3. ASSUME NEW h \in Handlers, EvidenceAccepted(h) PROVE RecoversLate'
  BY <1>3 DEF EvidenceAccepted, Expected, Becomes, Await, End, store,
      services, Recovering
<1>4. ASSUME NEW h \in Handlers, NEW s \in Sessions, Recover(h, s)
     PROVE  RecoversLate'
  BY <1>4 DEF Recover, NoFault, Begin, store, services, Recovering
<1>5. ASSUME NEW s \in Sessions, Arm(s) PROVE RecoversLate'
  BY <1>5 DEF Arm, Armable, MayArm, Becomes, store, services, Recovering
<1>6. ASSUME NEW h \in Handlers,
            TelemetryNotReady(h) \/ ArmRefused(h) \/ SetUp(h) \/ Executed(h) \/
            EvidenceRefused(h) \/ ChallengeEnds(h) \/ ChallengeFails(h) \/
            RecoveryEnds(h) \/ Analyzed(h) \/ Resumed(h) \/ RecoveryFails(h) \/
            Verified(h)
     PROVE  RecoversLate'
  BY <1>6 DEF TelemetryNotReady, Becomes, AnalysisBecomes, End, ArmRefused,
      SetUp, Creatable, Await, Executed, MayClear, Clear, EvidenceRefused,
      Cleanup, ChallengeEnds, ChallengeFails, RecoveryEnds, Analyzed,
      Resumed, RecoveryFails, Verified, store, services, Recovering
<1>7. ASSUME NEW h \in Handlers, NEW s \in Sessions,
            Execute(h, s) \/ Run(h, s) \/ Analyze(h, s)
     PROVE  RecoversLate'
  BY <1>7 DEF Execute, Begin, Run, Becomes, Analyze, ModelReady, store,
      services, Recovering
<1>8. ASSUME NEW s \in Sessions,
            Reveal(s) \/ Approve(s) \/ TransferRuns(s) \/ ResumeRuns(s)
     PROVE  RecoversLate'
  BY <1>8 DEF Reveal, Approve, Becomes, TransferRuns, ResumeRuns, store,
      services, Recovering
<1>9. CASE Expire \/ Restart \/ UNCHANGED vars
  BY <1>9 DEF Expire, Restart, vars, store, services, Recovering
<1>10. QED
  BY <1>1, <1>2, <1>3, <1>4, <1>5, <1>6, <1>7, <1>8, <1>9 DEF Next,
     Requested, Continued

\* Only arm and a blind run activate a fault, both of them early.
LEMMA OwnFaultKept ==
  TypeOK /\ HandlersKnow /\ RecoversLate /\ RecoversWithoutOwnFault /\
  [Next]_vars
    => RecoversWithoutOwnFault'
<1> SUFFICES ASSUME TypeOK /\ HandlersKnow /\ RecoversLate /\ RecoversWithoutOwnFault,
                    [Next]_vars
             PROVE  RecoversWithoutOwnFault'
  OBVIOUS
<1> USE SessionAssumption DEF TypeOK, HandlersKnow, RecoversLate,
      RecoversWithoutOwnFault, Early
<1>1. ASSUME NEW h \in Handlers, Challenge(h) PROVE RecoversWithoutOwnFault'
  BY <1>1 DEF Challenge, Injects, MayArm, Becomes, Await, store, services,
      Recovering
<1>2. ASSUME NEW h \in Handlers, ExecutionFails(h)
     PROVE  RecoversWithoutOwnFault'
  BY <1>2 DEF ExecutionFails, MayClear, Clear, Becomes, End, store, services,
      Recovering
<1>3. ASSUME NEW h \in Handlers, Executed(h) PROVE RecoversWithoutOwnFault'
  BY <1>3 DEF Executed, MayClear, Clear, Await, End, store, services,
      Recovering
<1>4. ASSUME NEW h \in Handlers, NEW s \in Sessions, Recover(h, s)
     PROVE  RecoversWithoutOwnFault'
  BY <1>4 DEF Recover, NoFault, Begin, store, services, Recovering
<1>5. ASSUME NEW s \in Sessions, Arm(s) PROVE RecoversWithoutOwnFault'
  BY <1>5 DEF Arm, Armable, MayArm, Becomes, store, services, Recovering
<1>6. ASSUME NEW h \in Handlers,
            TelemetryNotReady(h) \/ ArmRefused(h) \/ SetUp(h) \/
            EvidenceAccepted(h) \/ EvidenceRefused(h) \/ ChallengeEnds(h) \/
            ChallengeFails(h) \/ RecoveryEnds(h) \/ Analyzed(h) \/ Resumed(h) \/
            RecoveryFails(h) \/ Verified(h)
     PROVE  RecoversWithoutOwnFault'
  BY <1>6 DEF TelemetryNotReady, Becomes, AnalysisBecomes, End, ArmRefused,
      SetUp, Creatable, Await, EvidenceAccepted, Expected, EvidenceRefused,
      Cleanup, ChallengeEnds, MayClear, ChallengeFails, RecoveryEnds,
      Analyzed, Resumed, RecoveryFails, Verified, store, services, Recovering
<1>7. ASSUME NEW h \in Handlers, NEW s \in Sessions,
            Execute(h, s) \/ Run(h, s) \/ Analyze(h, s)
     PROVE  RecoversWithoutOwnFault'
  BY <1>7 DEF Execute, Begin, Run, Becomes, Analyze, ModelReady, store,
      services, Recovering
<1>8. ASSUME NEW s \in Sessions,
            Reveal(s) \/ Approve(s) \/ TransferRuns(s) \/ ResumeRuns(s)
     PROVE  RecoversWithoutOwnFault'
  BY <1>8 DEF Reveal, Approve, Becomes, TransferRuns, ResumeRuns, store,
      services, Recovering
<1>9. CASE Expire \/ Restart \/ UNCHANGED vars
  BY <1>9 DEF Expire, Restart, vars, store, services, Recovering
<1>10. QED
  BY <1>1, <1>2, <1>3, <1>4, <1>5, <1>6, <1>7, <1>8, <1>9 DEF Next,
     Requested, Continued

\* A transfer that paused can only complete, and completion is final.
LEMMA BackedKept ==
  TypeOK /\ HandlersKnow /\ StateIsBacked /\ [Next]_vars
    => StateIsBacked'
<1> SUFFICES ASSUME TypeOK /\ HandlersKnow /\ StateIsBacked, [Next]_vars
             PROVE  StateIsBacked'
  OBVIOUS
<1> USE SessionAssumption DEF TypeOK, HandlersKnow, StateIsBacked
<1>1. ASSUME NEW h \in Handlers, SetUp(h) PROVE StateIsBacked'
  BY <1>1 DEF SetUp, Creatable, Await, store, services
<1>2. ASSUME NEW h \in Handlers, ExecutionFails(h) PROVE StateIsBacked'
  BY <1>2 DEF ExecutionFails, MayClear, Clear, Becomes, End, store, services
<1>3. ASSUME NEW h \in Handlers, EvidenceAccepted(h) PROVE StateIsBacked'
  BY <1>3 DEF EvidenceAccepted, Expected, Becomes, Await, End, store,
      services
<1>4. ASSUME NEW h \in Handlers, Verified(h) PROVE StateIsBacked'
  BY <1>4 DEF Verified, Becomes, End, store, services
<1>5. ASSUME NEW s \in Sessions, TransferRuns(s) PROVE StateIsBacked'
  BY <1>5 DEF TransferRuns, store, services
<1>6. ASSUME NEW s \in Sessions, ResumeRuns(s) PROVE StateIsBacked'
  BY <1>6 DEF ResumeRuns, store, services
<1>7. ASSUME NEW h \in Handlers,
            TelemetryNotReady(h) \/ ArmRefused(h) \/ Challenge(h) \/ Executed(h)
            \/ EvidenceRefused(h) \/ ChallengeEnds(h) \/ ChallengeFails(h) \/
            RecoveryEnds(h) \/ Analyzed(h) \/ Resumed(h) \/ RecoveryFails(h)
     PROVE  StateIsBacked'
  BY <1>7 DEF TelemetryNotReady, Becomes, AnalysisBecomes, End, ArmRefused,
      Challenge, Injects, MayArm, Await, Executed, MayClear, Clear,
      EvidenceRefused, Cleanup, ChallengeEnds, ChallengeFails, RecoveryEnds,
      Analyzed, Resumed, RecoveryFails, store, services
<1>8. ASSUME NEW h \in Handlers, NEW s \in Sessions,
            Execute(h, s) \/ Run(h, s) \/ Analyze(h, s) \/ Recover(h, s)
     PROVE  StateIsBacked'
  BY <1>8 DEF Execute, Begin, Run, Becomes, Analyze, ModelReady, Recover,
      NoFault, store, services
<1>9. ASSUME NEW s \in Sessions,
            Arm(s) \/ Reveal(s) \/ Approve(s)
     PROVE  StateIsBacked'
  BY <1>9 DEF Arm, Armable, MayArm, Becomes, Reveal, Approve, store, services
<1>10. CASE Expire \/ Restart \/ UNCHANGED vars
  BY <1>10 DEF Expire, Restart, vars, store, services
<1>11. QED
  BY <1>1, <1>2, <1>3, <1>4, <1>5, <1>6, <1>7, <1>8, <1>9, <1>10 DEF Next,
     Requested, Continued

\* Only arm and the challenge of a run activate a fault.
LEMMA BlindStartKept ==
  TypeOK /\ HandlersKnow /\ RunsOnce /\ BlindStart /\ [Next]_vars
    => BlindStart'
<1> SUFFICES ASSUME TypeOK /\ HandlersKnow /\ RunsOnce /\ BlindStart,
                    [Next]_vars
             PROVE  BlindStart'
  OBVIOUS
<1> USE SessionAssumption DEF TypeOK, HandlersKnow, RunsOnce, BlindStart,
      RunAwaits
<1>1. ASSUME NEW h \in Handlers, TelemetryNotReady(h) PROVE BlindStart'
  BY <1>1 DEF TelemetryNotReady, Becomes, AnalysisBecomes, End, store,
      services
<1>2. ASSUME NEW h \in Handlers, Challenge(h) PROVE BlindStart'
  BY <1>2 DEF Challenge, Injects, MayArm, Becomes, Await, store, services
<1>3. ASSUME NEW h \in Handlers, EvidenceAccepted(h) PROVE BlindStart'
  BY <1>3 DEF EvidenceAccepted, Expected, Becomes, Await, End, store,
      services
<1>4. ASSUME NEW h \in Handlers, NEW s \in Sessions, Execute(h, s)
     PROVE  BlindStart'
  BY <1>4 DEF Execute, Begin, store, services
<1>5. ASSUME NEW h \in Handlers, NEW s \in Sessions, Run(h, s)
     PROVE  BlindStart'
  BY <1>5 DEF Run, Becomes, Begin, store, services
<1>6. ASSUME NEW s \in Sessions, Arm(s) PROVE BlindStart'
  BY <1>6 DEF Arm, Armable, MayArm, Becomes, store, services
<1>7. ASSUME NEW h \in Handlers,
            ArmRefused(h) \/ SetUp(h) \/ ExecutionFails(h) \/ Executed(h) \/
            EvidenceRefused(h) \/ ChallengeEnds(h) \/ ChallengeFails(h) \/
            RecoveryEnds(h) \/ Analyzed(h) \/ Resumed(h) \/ RecoveryFails(h) \/
            Verified(h)
     PROVE  BlindStart'
  BY <1>7 DEF ArmRefused, End, SetUp, Creatable, Await, ExecutionFails,
      MayClear, Clear, Becomes, Executed, EvidenceRefused, Cleanup,
      ChallengeEnds, ChallengeFails, RecoveryEnds, AnalysisBecomes, Analyzed,
      Resumed, RecoveryFails, Verified, store, services
<1>8. ASSUME NEW h \in Handlers, NEW s \in Sessions,
            Analyze(h, s) \/ Recover(h, s)
     PROVE  BlindStart'
  BY <1>8 DEF Analyze, ModelReady, Begin, Recover, NoFault, store, services
<1>9. ASSUME NEW s \in Sessions,
            Reveal(s) \/ Approve(s) \/ TransferRuns(s) \/ ResumeRuns(s)
     PROVE  BlindStart'
  BY <1>9 DEF Reveal, Approve, Becomes, TransferRuns, ResumeRuns, store,
      services
<1>10. CASE Expire \/ Restart \/ UNCHANGED vars
  BY <1>10 DEF Expire, Restart, vars, store, services
<1>11. QED
  BY <1>1, <1>2, <1>3, <1>4, <1>5, <1>6, <1>7, <1>8, <1>9, <1>10 DEF Next,
     Requested, Continued

\* The one request that posted the transfer judges it.
LEMMA JudgedOnceKept ==
  TypeOK /\ HandlersKnow /\ SingleExecution /\ JudgedOnce /\
  [Next]_vars
    => JudgedOnce'
<1> SUFFICES ASSUME TypeOK /\ HandlersKnow /\ SingleExecution /\ JudgedOnce,
                    [Next]_vars
             PROVE  JudgedOnce'
  OBVIOUS
<1> USE SessionAssumption DEF TypeOK, HandlersKnow, SingleExecution, Posted,
      JudgedOnce, Judged
<1>1. ASSUME NEW h \in Handlers, Challenge(h) PROVE JudgedOnce'
  BY <1>1 DEF Challenge, Injects, MayArm, Becomes, Await, store, services
<1>2. ASSUME NEW h \in Handlers, SetUp(h) PROVE JudgedOnce'
  BY <1>2 DEF SetUp, Creatable, Await, store, services
<1>3. ASSUME NEW h \in Handlers, EvidenceAccepted(h) PROVE JudgedOnce'
  BY <1>3 DEF EvidenceAccepted, Expected, Becomes, Await, End, store,
      services
<1>4. ASSUME NEW h \in Handlers, Resumed(h) PROVE JudgedOnce'
  BY <1>4 DEF Resumed, Await, store, services
<1>5. ASSUME NEW h \in Handlers, Verified(h) PROVE JudgedOnce'
  BY <1>5 DEF Verified, Becomes, End, store, services
<1>6. ASSUME NEW h \in Handlers, NEW s \in Sessions, Recover(h, s)
     PROVE  JudgedOnce'
  BY <1>6 DEF Recover, NoFault, Begin, store, services
<1>7. ASSUME NEW s \in Sessions, Arm(s) PROVE JudgedOnce'
  BY <1>7 DEF Arm, Armable, MayArm, Becomes, store, services
<1>8. ASSUME NEW h \in Handlers,
            TelemetryNotReady(h) \/ ArmRefused(h) \/ ExecutionFails(h) \/
            Executed(h) \/ EvidenceRefused(h) \/ ChallengeEnds(h) \/
            ChallengeFails(h) \/ RecoveryEnds(h) \/ Analyzed(h) \/
            RecoveryFails(h)
     PROVE  JudgedOnce'
  BY <1>8 DEF TelemetryNotReady, Becomes, AnalysisBecomes, End, ArmRefused,
      ExecutionFails, MayClear, Clear, Executed, Await, EvidenceRefused,
      Cleanup, ChallengeEnds, ChallengeFails, RecoveryEnds, Analyzed,
      RecoveryFails, store, services
<1>9. ASSUME NEW h \in Handlers, NEW s \in Sessions,
            Execute(h, s) \/ Run(h, s) \/ Analyze(h, s)
     PROVE  JudgedOnce'
  BY <1>9 DEF Execute, Begin, Run, Becomes, Analyze, ModelReady, store,
      services
<1>10. ASSUME NEW s \in Sessions,
            Reveal(s) \/ Approve(s) \/ TransferRuns(s) \/ ResumeRuns(s)
     PROVE  JudgedOnce'
  BY <1>10 DEF Reveal, Approve, Becomes, TransferRuns, ResumeRuns, store,
      services
<1>11. CASE Expire \/ Restart \/ UNCHANGED vars
  BY <1>11 DEF Expire, Restart, vars, store, services
<1>12. QED
  BY <1>1, <1>2, <1>3, <1>4, <1>5, <1>6, <1>7, <1>8, <1>9, <1>10, <1>11 DEF
     Next, Requested, Continued

\* The challenge is over before its model is evaluated.
LEMMA SealedKept ==
  TypeOK /\ HandlersKnow /\ RunsOnce /\ Sealed /\ [Next]_vars
    => Sealed'
<1> SUFFICES ASSUME TypeOK /\ HandlersKnow /\ RunsOnce /\ Sealed, [Next]_vars
             PROVE  Sealed'
  OBVIOUS
<1> USE SessionAssumption DEF TypeOK, HandlersKnow, RunsOnce, Sealed,
      UnderChallenge, RunAwaits
<1>1. ASSUME NEW h \in Handlers, Challenge(h) PROVE Sealed'
  BY <1>1 DEF Challenge, Injects, MayArm, Becomes, Await, store, services
<1>2. ASSUME NEW h \in Handlers, ExecutionFails(h) PROVE Sealed'
  BY <1>2 DEF ExecutionFails, MayClear, Clear, Becomes, End, store, services
<1>3. ASSUME NEW h \in Handlers, Executed(h) PROVE Sealed'
  BY <1>3 DEF Executed, MayClear, Clear, Await, End, store, services
<1>4. ASSUME NEW h \in Handlers, EvidenceRefused(h) PROVE Sealed'
  BY <1>4 DEF EvidenceRefused, Cleanup, End, store, services
<1>5. ASSUME NEW h \in Handlers, ChallengeEnds(h) PROVE Sealed'
  BY <1>5 DEF ChallengeEnds, MayClear, Cleanup, Await, End, store, services
<1>6. ASSUME NEW h \in Handlers, Analyzed(h) PROVE Sealed'
  BY <1>6 DEF Analyzed, AnalysisBecomes, End, store, services
<1>7. ASSUME NEW h \in Handlers, NEW s \in Sessions, Run(h, s) PROVE Sealed'
  BY <1>7 DEF Run, Becomes, Begin, store, services
<1>8. ASSUME NEW h \in Handlers, NEW s \in Sessions, Analyze(h, s)
     PROVE  Sealed'
  BY <1>8 DEF Analyze, ModelReady, Begin, store, services
<1>9. ASSUME NEW s \in Sessions, Reveal(s) PROVE Sealed'
  BY <1>9 DEF Reveal, store, services
<1>10. ASSUME NEW s \in Sessions, Arm(s) PROVE Sealed'
  BY <1>10 DEF Arm, Armable, MayArm, Becomes, store, services
<1>11. ASSUME NEW h \in Handlers,
            TelemetryNotReady(h) \/ ArmRefused(h) \/ SetUp(h) \/
            EvidenceAccepted(h) \/ ChallengeFails(h) \/ RecoveryEnds(h) \/
            Resumed(h) \/ RecoveryFails(h) \/ Verified(h)
     PROVE  Sealed'
  BY <1>11 DEF TelemetryNotReady, Becomes, AnalysisBecomes, End, ArmRefused,
      SetUp, Creatable, Await, EvidenceAccepted, Expected, ChallengeFails,
      Cleanup, RecoveryEnds, Resumed, RecoveryFails, Verified, store,
      services
<1>12. ASSUME NEW h \in Handlers, NEW s \in Sessions,
            Execute(h, s) \/ Recover(h, s)
     PROVE  Sealed'
  BY <1>12 DEF Execute, Begin, Recover, NoFault, store, services
<1>13. ASSUME NEW s \in Sessions,
            Approve(s) \/ TransferRuns(s) \/ ResumeRuns(s)
     PROVE  Sealed'
  BY <1>13 DEF Approve, Becomes, TransferRuns, ResumeRuns, store, services
<1>14. CASE Expire \/ Restart \/ UNCHANGED vars
  BY <1>14 DEF Expire, Restart, vars, store, services
<1>15. QED
  BY <1>1, <1>2, <1>3, <1>4, <1>5, <1>6, <1>7, <1>8, <1>9, <1>10, <1>11,
     <1>12, <1>13, <1>14 DEF Next, Requested, Continued

\* Every end of a blind run, other than with the gateway, leaves no fault.
LEMMA RunClears ==
  TypeOK /\ HandlersKnow /\ BlindStart /\ [Next]_vars
    => EndClears
<1> SUFFICES ASSUME TypeOK /\ HandlersKnow /\ BlindStart, [Next]_vars
             PROVE  EndClears
  OBVIOUS
<1> USE SessionAssumption DEF TypeOK, HandlersKnow, BlindStart, RunAwaits,
      EndClears
<1>1. ASSUME NEW h \in Handlers, TelemetryNotReady(h) PROVE EndClears
  BY <1>1 DEF TelemetryNotReady, Becomes, AnalysisBecomes, End, store,
      services
<1>2. ASSUME NEW h \in Handlers, ArmRefused(h) PROVE EndClears
  BY <1>2 DEF ArmRefused, End, store, services
<1>3. ASSUME NEW h \in Handlers, ExecutionFails(h) PROVE EndClears
  BY <1>3 DEF ExecutionFails, MayClear, Clear, Becomes, End, store, services
<1>4. ASSUME NEW h \in Handlers, Executed(h) PROVE EndClears
  BY <1>4 DEF Executed, MayClear, Clear, Await, End, store, services
<1>5. ASSUME NEW h \in Handlers, EvidenceAccepted(h) PROVE EndClears
  BY <1>5 DEF EvidenceAccepted, Expected, Becomes, Await, End, store,
      services
<1>6. ASSUME NEW h \in Handlers, EvidenceRefused(h) PROVE EndClears
  BY <1>6 DEF EvidenceRefused, Cleanup, End, store, services
<1>7. ASSUME NEW h \in Handlers, ChallengeEnds(h) PROVE EndClears
  BY <1>7 DEF ChallengeEnds, MayClear, Cleanup, Await, End, store, services
<1>8. ASSUME NEW h \in Handlers, ChallengeFails(h) PROVE EndClears
  BY <1>8 DEF ChallengeFails, Cleanup, End, store, services
<1>9. ASSUME NEW h \in Handlers,
            Challenge(h) \/ SetUp(h) \/ RecoveryEnds(h) \/ Analyzed(h) \/
            Resumed(h) \/ RecoveryFails(h) \/ Verified(h)
     PROVE  EndClears
  BY <1>9 DEF Challenge, Injects, MayArm, Becomes, Await, SetUp, Creatable,
      RecoveryEnds, AnalysisBecomes, End, Analyzed, Resumed, RecoveryFails,
      Verified, store, services
<1>10. ASSUME NEW h \in Handlers, NEW s \in Sessions,
            Execute(h, s) \/ Run(h, s) \/ Analyze(h, s) \/ Recover(h, s)
     PROVE  EndClears
  BY <1>10 DEF Execute, Begin, Run, Becomes, Analyze, ModelReady, Recover,
      NoFault, store, services
<1>11. ASSUME NEW s \in Sessions,
            Arm(s) \/ Reveal(s) \/ Approve(s) \/ TransferRuns(s) \/
            ResumeRuns(s)
     PROVE  EndClears
  BY <1>11 DEF Arm, Armable, MayArm, Becomes, Reveal, Approve, TransferRuns,
      ResumeRuns, store, services
<1>12. CASE Expire \/ Restart \/ UNCHANGED vars
  BY <1>12 DEF Expire, Restart, vars, store, services
<1>13. QED
  BY <1>1, <1>2, <1>3, <1>4, <1>5, <1>6, <1>7, <1>8, <1>9, <1>10, <1>11,
     <1>12 DEF Next, Requested, Continued

\* Every change of a session's state but those of a failure leads on.
LEMMA ProgressKept ==
  TypeOK /\ HandlersKnow /\ RecoversLate /\ BlindStart /\ JudgedOnce
  /\ [Next]_vars
    => LeadsOn
<1> SUFFICES ASSUME TypeOK /\ HandlersKnow /\ RecoversLate /\ BlindStart /\ JudgedOnce,
                    [Next]_vars
             PROVE  LeadsOn
  OBVIOUS
<1> USE SessionAssumption DEF TypeOK, HandlersKnow, RecoversLate, Early,
      Recovering, BlindStart, RunAwaits, JudgedOnce, Judged, LeadsOn, Rank,
      States
<1>1. ASSUME NEW h \in Handlers, TelemetryNotReady(h) PROVE LeadsOn
  BY <1>1 DEF TelemetryNotReady, Becomes, AnalysisBecomes, End, store,
      services
<1>2. ASSUME NEW h \in Handlers, Challenge(h) PROVE LeadsOn
  BY <1>2 DEF Challenge, Injects, MayArm, Becomes, Await, store, services
<1>3. ASSUME NEW h \in Handlers, ExecutionFails(h) PROVE LeadsOn
  BY <1>3 DEF ExecutionFails, MayClear, Clear, Becomes, End, store, services
<1>4. ASSUME NEW h \in Handlers, EvidenceAccepted(h) PROVE LeadsOn
  BY <1>4 DEF EvidenceAccepted, Expected, Becomes, Await, End, store,
      services
<1>5. ASSUME NEW h \in Handlers, Verified(h) PROVE LeadsOn
  BY <1>5 DEF Verified, Becomes, End, store, services
<1>6. ASSUME NEW h \in Handlers, NEW s \in Sessions, Run(h, s) PROVE LeadsOn
  BY <1>6 DEF Run, Becomes, Begin, store, services
<1>7. ASSUME NEW s \in Sessions, Arm(s) PROVE LeadsOn
  BY <1>7 DEF Arm, Armable, MayArm, Becomes, store, services
<1>8. ASSUME NEW s \in Sessions, Approve(s) PROVE LeadsOn
  BY <1>8 DEF Approve, Becomes, store, services
<1>9. ASSUME NEW h \in Handlers,
            ArmRefused(h) \/ SetUp(h) \/ Executed(h) \/ EvidenceRefused(h) \/
            ChallengeEnds(h) \/ ChallengeFails(h) \/ RecoveryEnds(h) \/
            Analyzed(h) \/ Resumed(h) \/ RecoveryFails(h)
     PROVE  LeadsOn
  BY <1>9 DEF ArmRefused, End, SetUp, Creatable, Await, Executed, MayClear,
      Clear, EvidenceRefused, Cleanup, ChallengeEnds, ChallengeFails,
      RecoveryEnds, AnalysisBecomes, Analyzed, Resumed, RecoveryFails, store,
      services
<1>10. ASSUME NEW h \in Handlers, NEW s \in Sessions,
            Execute(h, s) \/ Analyze(h, s) \/ Recover(h, s)
     PROVE  LeadsOn
  BY <1>10 DEF Execute, Begin, Analyze, ModelReady, Recover, NoFault, store,
      services
<1>11. ASSUME NEW s \in Sessions,
            Reveal(s) \/ TransferRuns(s) \/ ResumeRuns(s)
     PROVE  LeadsOn
  BY <1>11 DEF Reveal, TransferRuns, ResumeRuns, store, services
<1>12. CASE Expire \/ Restart \/ UNCHANGED vars
  BY <1>12 DEF Expire, Restart, vars, store, services
<1>13. QED
  BY <1>1, <1>2, <1>3, <1>4, <1>5, <1>6, <1>7, <1>8, <1>9, <1>10, <1>11,
     <1>12 DEF Next, Requested, Continued

-----------------------------------------------------------------------------
\* The invariant holds before any request, and every step keeps it.
LEMMA InvHolds == Spec => []Inv
<1>1. Init => Inv
  BY SessionAssumption
     DEF Init, Inv, TypeOK, HandlersKnow, RunsOnce, SingleExecution, Posted,
         RecoversLate, Recovering, RecoversWithoutOwnFault, StateIsBacked,
         States, Analyses, Transfers, Awaits, Early, RunAwaits,
         BlindStart, JudgedOnce, Judged, Sealed, UnderChallenge
<1>2. Inv /\ [Next]_vars => Inv'
  BY TypeKept, KnowledgeKept, RunsOnceKept, SingleKept, LateKept, OwnFaultKept,
     BackedKept, BlindStartKept, JudgedOnceKept, SealedKept DEF Inv
<1>3. QED
  BY <1>1, <1>2, PTL DEF Spec

\* Every variable of the sessions, the services and the handlers keeps its type:
\* no handler loses its session, and only a scenario with a fault is armed.
THEOREM SessionTypeCorrect == Spec => []TypeOK
<1>1. Inv => TypeOK
  BY DEF Inv
<1>2. QED
  BY <1>1, InvHolds, PTL

\* However many requests execute a session at a time, one of them at most posts
\* its transfer.
THEOREM ExecutesOnce == Spec => []SingleExecution
<1>1. Inv => SingleExecution
  BY DEF Inv
<1>2. QED
  BY <1>1, InvHolds, PTL

\* From the start of its recovery, or the failure of its execution, a session's
\* own fault is never active again.
THEOREM OwnFaultEnds == Spec => []RecoversWithoutOwnFault
<1>1. Inv => RecoversWithoutOwnFault
  BY DEF Inv
<1>2. QED
  BY <1>1, InvHolds, PTL

\* What a session shows of its transfer is true of the transfer.
THEOREM StatesAreBacked == Spec => []StateIsBacked
<1>1. Inv => StateIsBacked
  BY DEF Inv
<1>2. QED
  BY <1>1, InvHolds, PTL

\* Under challenge_only_v1 a blind session is analyzed and revealed only after
\* its challenge, while its fault is not active.
THEOREM ChallengeStaysSealed == Spec => []SealedDuringChallenge
<1>1. Inv => SealedDuringChallenge
  BY DEF Inv, Sealed, SealedDuringChallenge, TypeOK
<1>2. QED
  BY <1>1, InvHolds, PTL

\* However a blind run ends, other than with the gateway, its fault is not active.
THEOREM BlindRunsClear == Spec => BlindRunClears
<1>1. Inv /\ [Next]_vars => [EndClears]_vars
  BY RunClears DEF Inv
<1>2. QED
  BY <1>1, InvHolds, PTL DEF Spec, BlindRunClears, EndClears

\* Only the failure of an overlapping execution takes a session back.
THEOREM SessionsLeadOn == Spec => ProgressIsKept
<1>1. Inv /\ [Next]_vars => [LeadsOn]_vars
  BY ProgressKept DEF Inv
<1>2. QED
  BY <1>1, InvHolds, PTL DEF Spec, ProgressIsKept, LeadsOn
-----------------------------------------------------------------------------
(* The evidence of a blind run *)

\* Nothing of the challenge has happened, or its evidence is there.
Before == {"prepared", "baseline", "preflight", "arm"}
Later == {"select", "clear", "recovery", "settle", "ready", "not_ready", "analyzed"}

\* The types of the variables of BlindEvidence.
EvidenceType ==
    /\ policy \in Policies /\ scenario \in Scenarios
    /\ step \in Before \cup {"execute", "challenge"} \cup Later \cup {"blocked", "over"}
    /\ clock \in Nat /\ began \in Nat /\ sent \in Nat
    /\ open \in SUBSET [sent : Nat, met : BOOLEAN]
    /\ challenge \in [from : Nat, to : Nat] /\ armed \in [from : Int, to : Int]
    /\ lease \in [run : {"none", "own", "other"}, until : Nat]
    /\ lines \in SUBSET [run : {"own", "other"}, of : {"request", "transfer"},
                         sent : Nat, at : Nat, hit : BOOLEAN]
    /\ posted \subseteq lines
    /\ observed \in SUBSET [run : {"own", "other"}, sent : Nat]
    /\ window \in [from : Int, to : Int]
    /\ began <= clock /\ challenge.from <= clock
    /\ \A r \in open \cup observed : r.sent <= clock
    /\ \A e \in lines : e.sent <= e.at /\ e.at <= clock

\* When the requests of this session were sent that are observed.
Mine == {r.sent : r \in {q \in observed : q.run = "own"}}

\* A phase sends a request a tick, and ends with none under way.
AllAnswered ==
    /\ step \notin Phases => open = {}
    /\ step = "challenge" =>
         {t \in Mine \cup {r.sent : r \in open} : t > began} = (began + 1)..(began + sent - 1)
    /\ step = "select" =>
         {t \in Mine : t > challenge.from}
            = (challenge.from + 1)..(challenge.from + Durations[policy].challenge - 1)

\* The session's lease is the one that it armed, in time for its challenge.
ArmedFirst ==
    /\ armed.from <= clock
    /\ step \in Before => lease.run # "own"
    /\ lease.run = "own" => lease.until = armed.to
    /\ step = "challenge" => armed.from <= began
    /\ step \in Later => armed.from <= challenge.from

\* When the requests of this session were sent that met its fault, or show it.
Hits ==
    {r.sent : r \in {q \in open : q.met}} \cup
    {e.sent : e \in {f \in lines : f.run = "own" /\ f.of = "request" /\ f.hit}}

\* That was in the challenge or later, and under the lease.
UnderFault(t) ==
    /\ step \notin Before \cup {"execute"}
    /\ armed.from <= t /\ t < armed.to
    /\ step = "challenge" => began <= t
    /\ step \in Later => challenge.from <= t

\* What the own lease hit was hit by this session.
HitsAreOurs == \A t \in Hits : UnderFault(t)

\* When the visible transfer was logged: not after the challenge began.
Visible == {e.at : e \in {f \in lines : f.run = "own" /\ f.of = "transfer"}}

\* The transfer is over when the challenge begins.
WasFirst(t) ==
    /\ step \notin Before \cup {"execute"}
    /\ step = "challenge" => t <= began
    /\ step \in Later => t <= challenge.from

\* That is so of every line of it.
TransferIsFirst == \A t \in Visible : WasFirst(t)

\* A hit of this session's challenge that the model judged.
HitSeen ==
    \E e \in EventsIn(window) :
      /\ e.run = "own" /\ e.of = "request" /\ e.hit
      /\ challenge.from <= e.sent /\ e.sent <= challenge.to
      /\ armed.from <= e.sent /\ e.sent < armed.to

\* A decision comes after the challenge, of a window of it.
Decided ==
    /\ step \in Before \cup {"execute", "challenge", "select"} => decision = "none"
    /\ policy = "challenge_only" =>
         /\ decision # "none" => DecisionRestsOnChallenge /\ (effect # 0 => HitSeen)
         /\ step = "analyzed" => decision # "none"

\* An acceptance is the end of a run that was decided.
Earned ==
    verdict \in {"ACCEPTED", "MODEL_MISMATCH"} =>
      /\ step = "over" /\ policy = "challenge_only" /\ decision # "none"
      /\ scenario # "unreachable" /\ (scenario = "reachable" => effect # 0)
      /\ verdict = "ACCEPTED" => decision = "exact"

\* The invariant of the evidence of a blind run.
EvidenceInv ==
    /\ EvidenceType /\ AllAnswered /\ ArmedFirst /\ HitsAreOurs /\ TransferIsFirst
    /\ Decided /\ Earned

\* Ticks and counts of the workload are natural numbers.
LEMMA WorkloadIsNatural ==
  /\ Window \in Nat /\ Short \in Nat /\ Margin \in Nat /\ Patience \in Nat /\ Term \in Nat
  /\ Window > 0 /\ Short > 0 /\ Margin > 0
  /\ Slow \in Nat /\ Slowest \in Nat /\ MaxOthers \in Nat
  /\ \A p \in Policies, phase \in Phases :
        Durations[p][phase] \in Nat /\ Durations[p][phase] > 0
BY WorkloadAssumption

\* A bounded set of times has a latest.
LEMMA LatestIs ==
  ASSUME NEW n \in Nat, NEW S \in SUBSET (0 .. n), S # {}
  PROVE  Max(S) \in S /\ \A t \in S : t <= Max(S)
<1> DEFINE Less == {pair \in Nat \X Nat : pair[1] < pair[2]}
           I == {i \in Nat : n - i \in S}
<1>1. IsWellFoundedOn(Less, Nat)
  BY NatLessThanWellFounded DEF OpToRel
<1>2. I # {} /\ I \subseteq Nat
  <2>1. PICK t \in S : TRUE
    OBVIOUS
  <2>2. n - t \in Nat /\ n - (n - t) = t
    BY <2>1
  <2> QED
    BY <2>1, <2>2
<1>3. PICK i \in I : \A j \in I : ~(<<j, i>> \in Less)
  BY <1>1, <1>2, WFMin
<1>4. ASSUME NEW t \in S PROVE t <= n - i
  <2>1. n - t \in I /\ i \in Nat
    <3>1. n - t \in Nat /\ n - (n - t) = t
      OBVIOUS
    <3> QED
      BY <1>2, <1>3, <3>1
  <2>2. ~(n - t < i)
    <3>1. <<n - t, i>>[1] = n - t /\ <<n - t, i>>[2] = i
      OBVIOUS
    <3> QED
      BY <1>2, <1>3, <2>1, <3>1
  <2> QED
    BY <2>1, <2>2
<1>5. n - i \in S
  BY <1>3
<1>6. \E m \in S : \A t \in S : m >= t
  BY <1>4, <1>5
<1>7. Max(S) \in S /\ \A t \in S : Max(S) >= t
  BY <1>6 DEF Max
<1> QED
  BY <1>7

\* What is posted is not from the future.
LEMMA WatermarkIs == EvidenceType => Watermark \in Nat /\ Watermark <= clock
<1> SUFFICES ASSUME EvidenceType PROVE Watermark \in Nat /\ Watermark <= clock
  OBVIOUS
<1> DEFINE S == {0} \cup {e.at : e \in posted}
<1>1. clock \in Nat /\ \A e \in posted : e.at \in Nat /\ e.at <= clock
  BY DEF EvidenceType
<1>2. S \in SUBSET (0 .. clock) /\ S # {}
  BY <1>1
<1> HIDE DEF S
<1>3. Max(S) \in S
  BY <1>1, <1>2, LatestIs
<1> QED
  BY <1>1, <1>2, <1>3 DEF S, Watermark

\* The selected end lies a margin before that of the challenge.
LEMMA SelectedIs ==
  EvidenceType => SelectedEnd \in Int /\ SelectedEnd <= challenge.to - Margin
<1> SUFFICES ASSUME EvidenceType
             PROVE  SelectedEnd \in Int /\ SelectedEnd <= challenge.to - Margin
  OBVIOUS
<1> DEFINE a == challenge.to - Margin
           b == Watermark
<1>1. a \in Int /\ b \in Int
  BY WatermarkIs, WorkloadIsNatural DEF EvidenceType
<1> HIDE DEF a, b
<1>2. \E m \in {a, b} : \A t \in {a, b} : m <= t
  BY <1>1
<1>3. Min({a, b}) \in {a, b} /\ \A t \in {a, b} : Min({a, b}) <= t
  BY <1>2 DEF Min
<1>4. Min({a, b}) \in Int /\ Min({a, b}) <= a
  BY <1>1, <1>3
<1> QED
  BY <1>4 DEF a, b, SelectedEnd

\* A phase is followed by its own step.
LEMMA AfterIs ==
  step \in Phases =>
    /\ After[step] \in {"preflight", "settle", "select", "clear"}
    /\ step = "baseline" => After[step] = "preflight"
    /\ step = "recovery" => After[step] = "settle"
    /\ step = "challenge" =>
         After[step] = IF policy = "challenge_only" THEN "select" ELSE "clear"
BY DEF After, Phases

\* A window that is judged has integer ends.
LEMMA JudgeTypes ==
  ASSUME NEW end \in Int, Judge(Span(Window, end))
  PROVE  window' \in [from : Int, to : Int]
BY WorkloadIsNatural DEF Judge, Span

\* What is observed, logged and posted keeps its type.
LEMMA EvidenceTypeKept == ASSUME EvidenceType, EvidenceStep PROVE EvidenceType'
<1> USE DEF EvidenceType, Before, Later
<1>1. CASE Send
  <2>1. PICK met \in BOOLEAN : open' = open \cup {[sent |-> clock, met |-> met]}
    <3>1. (InForce /\ scenario = "reachable") \in BOOLEAN
      OBVIOUS
    <3> QED
      BY <1>1, <3>1 DEF Send
  <2>2. /\ sent' = sent + 1
        /\ UNCHANGED <<policy, scenario, step, clock, began, challenge, lease, armed, lines,
                       posted, observed, window>>
    BY <1>1 DEF Send
  <2>3. [sent |-> clock, met |-> met] \in [sent : Nat, met : BOOLEAN]
    OBVIOUS
  <2> QED
    BY <2>1, <2>2, <2>3
<1>2. CASE Answer
  <2>1. PICK r \in open, hit \in {FALSE, TRUE} :
          /\ open' = open \ {r}
          /\ observed' = observed \cup {[run |-> "own", sent |-> r.sent]}
          /\ lines' = lines \cup {Logged("own", "request", r.sent, hit)}
    BY <1>2 DEF Answer
  <2>2. UNCHANGED <<policy, scenario, step, clock, began, sent, challenge,
                     lease, armed, posted, window>>
    BY <1>2 DEF Answer
  <2>3. r.sent \in Nat /\ r.sent <= clock
    BY <2>1
  <2>4. Logged("own", "request", r.sent, hit) \in
          [run : {"own", "other"}, of : {"request", "transfer"}, sent : Nat, at : Nat, hit : BOOLEAN]
    BY <2>3 DEF Logged
  <2> QED
    BY <2>1, <2>2, <2>3, <2>4 DEF Logged
<1>3. CASE PhaseEnds
  <2>1. challenge' \in [from : Nat, to : Nat]
    BY <1>3 DEF PhaseEnds
  <2> QED
    BY <1>3, <2>1, AfterIs DEF PhaseEnds, Goes
<1>4. CASE Prepare
  BY <1>4 DEF Prepare, Goes
<1>5. CASE Preflight
  BY <1>5 DEF Preflight, Goes, Quiet, NoDecision
<1>6. CASE ArmChallenge
  <2>1. lease' \in [run : {"none", "own", "other"}, until : Nat] /\ armed' \in [from : Int, to : Int]
    BY <1>6, WorkloadIsNatural DEF ArmChallenge, Span
  <2>2. step' \in {"execute", "over"} /\ began' = clock
    BY <1>6 DEF ArmChallenge, Goes
  <2> QED
    BY <1>6, <2>1, <2>2 DEF ArmChallenge, Quiet, NoDecision
<1>7. CASE Transfer
  <2>1. PICK time \in {0, Slowest} : clock' = clock + time
    BY <1>7 DEF Transfer
  <2>2. clock' \in Nat /\ clock <= clock'
    BY <2>1, WorkloadIsNatural
  <2>3. [Logged("own", "transfer", clock, InForce) EXCEPT !.at = clock'] \in
          [run : {"own", "other"}, of : {"request", "transfer"}, sent : Nat, at : Nat, hit : BOOLEAN]
    BY <2>2 DEF Logged, InForce
  <2>4. lines' = lines \cup {[Logged("own", "transfer", clock, InForce) EXCEPT !.at = clock']}
    BY <1>7 DEF Transfer
  <2>5. /\ step' = "challenge" /\ began' = clock' /\ sent' = 0
        /\ UNCHANGED <<policy, scenario, open, challenge, lease, armed, posted, observed, window>>
    BY <1>7 DEF Transfer, NoDecision
  <2>6. \A e \in lines' : e.sent <= e.at /\ e.at <= clock'
    BY <2>2, <2>4 DEF Logged
  <2> QED
    BY <2>2, <2>3, <2>4, <2>5, <2>6
<1>8. CASE TransferFails
  <2>1. lease' \in {lease, NoLease}
    BY <1>8 DEF TransferFails, Cleared
  <2> QED
    BY <1>8, <2>1 DEF TransferFails, Goes, Quiet, NoDecision, NoLease
<1>9. CASE Select
  <2>1. window' \in [from : Int, to : Int]
    BY <1>9, SelectedIs, JudgeTypes DEF Select, NoDecision
  <2> QED
    BY <1>9, <2>1 DEF Select, Goes, Quiet
<1>10. CASE ClearChallenge
  <2>1. lease' \in {lease, NoLease} /\ step' \in {"over", "recovery"}
    BY <1>10 DEF ClearChallenge, Cleared, Goes
  <2> QED
    BY <1>10, <2>1 DEF ClearChallenge, Goes, Quiet, NoDecision, NoLease
<1>11. CASE Settle
  BY <1>11 DEF Settle, Goes, Quiet, NoDecision
<1>12. CASE AnalyzeRun
  <2>1. window' \in [from : Int, to : Int]
    BY <1>12, WatermarkIs, JudgeTypes DEF AnalyzeRun, NoDecision, Latest
  <2> QED
    BY <1>12, <2>1 DEF AnalyzeRun, Goes, Quiet
<1>13. CASE Accept
  BY <1>13 DEF Accept, Goes, NoDecision
<1>14. CASE Post
  BY <1>14 DEF Post, Until, NotOurs
<1>15. CASE PostButOne
  BY <1>15 DEF PostButOne, Until, NotOurs
<1>16. CASE OtherRequest
  <2>1. PICK hit \in BOOLEAN : lines' = lines \cup {Logged("other", "request", clock, hit)}
    BY <1>16 DEF OtherRequest
  <2>2. observed' = observed \cup {[run |-> "other", sent |-> clock]}
    BY <1>16 DEF OtherRequest
  <2> QED
    BY <1>16, <2>1, <2>2 DEF OtherRequest, NotOurs, Logged
<1>17. CASE OtherLease
  BY <1>17, WorkloadIsNatural DEF OtherLease, NotOurs
<1>18. CASE Tick
  BY <1>18 DEF Tick, NotOurs
<1> QED
  BY <1>1, <1>2, <1>3, <1>4, <1>5, <1>6, <1>7, <1>8, <1>9, <1>10, <1>11, <1>12, <1>13,
     <1>14, <1>15, <1>16, <1>17, <1>18 DEF EvidenceStep

\* Only a phase has requests under way; what it sent is observed at its end.
LEMMA AnswersKept ==
  ASSUME EvidenceType, AllAnswered, EvidenceStep PROVE AllAnswered'
<1> USE DEF Before, Later
<1> DEFINE Sents == Mine \cup {r.sent : r \in open}
<1>1. ASSUME UNCHANGED <<open, Mine, step, began, sent, challenge, policy>>
      PROVE  AllAnswered'
  BY <1>1 DEF AllAnswered
<1>2. ASSUME step \notin Phases, UNCHANGED <<open, Mine>>,
             step' \notin {"challenge", "select"}
      PROVE  AllAnswered'
  BY <1>2 DEF AllAnswered, Phases
<1>3. ASSUME UNCHANGED observed PROVE UNCHANGED Mine
  BY <1>3 DEF Mine
<1>4. CASE Send
  <2> DEFINE new == [sent |-> clock, met |-> InForce /\ scenario = "reachable"]
  <2>1. /\ open' = open \cup {new} /\ new.sent = clock
        /\ sent' = sent + 1 /\ clock = began + sent /\ step \in Phases
        /\ UNCHANGED <<step, began, challenge, policy, observed>>
    BY <1>4 DEF Send, Sending
  <2> HIDE DEF new
  <2>2. Sents' = Sents \cup {clock}
    BY <2>1, <1>3
  <2>3. ASSUME step = "challenge"
        PROVE  {t \in Sents' : t > began} = (began + 1)..(began + sent' - 1)
    <3>1. {t \in Sents : t > began} = (began + 1)..(began + sent - 1)
      BY <2>3 DEF AllAnswered
    <3>2. \A t \in Sents : t \in Nat
      BY DEF EvidenceType, Mine
    <3> HIDE DEF Sents
    <3>3. began \in Nat /\ sent \in Nat
      BY DEF EvidenceType
    <3> QED
      BY <2>1, <2>2, <3>1, <3>2, <3>3
  <2> QED
    BY <2>1, <2>3 DEF AllAnswered, Phases
<1>5. CASE Answer
  <2>1. PICK r \in open :
          /\ open' = open \ {r}
          /\ observed' = observed \cup {[run |-> "own", sent |-> r.sent]}
    BY <1>5 DEF Answer
  <2>2. UNCHANGED <<step, began, sent, challenge, policy>>
    BY <1>5 DEF Answer
  <2> DEFINE new == [run |-> "own", sent |-> r.sent]
  <2>3. Mine' = Mine \cup {r.sent}
    <3>1. observed' = observed \cup {new} /\ new.run = "own" /\ new.sent = r.sent
      BY <2>1
    <3> HIDE DEF new
    <3> QED
      BY <3>1 DEF Mine
  <2>4. Sents' = Sents
    BY <2>1, <2>3
  <2>5. step \in Phases
    BY <2>1 DEF AllAnswered
  <2> QED
    BY <2>2, <2>4, <2>5 DEF AllAnswered, Phases
<1>6. CASE PhaseEnds
  <2>1. /\ step \in Phases /\ sent = Durations[policy][step] /\ open = {}
        /\ step' = After[step] /\ open' = {} /\ policy' = policy /\ observed' = observed
        /\ challenge' = IF step = "challenge" THEN [from |-> began, to |-> clock] ELSE challenge
    BY <1>6 DEF PhaseEnds, Gathered, Goes
  <2>2. step' = "select" => step = "challenge"
    BY <2>1, AfterIs DEF Phases
  <2>3. ASSUME step = "challenge"
        PROVE  {t \in Mine : t > began} = (began + 1)..(began + Durations[policy].challenge - 1)
    <3>1. Sents = Mine
      BY <2>1
    <3> QED
      BY <2>1, <2>3, <3>1 DEF AllAnswered
  <2>4. challenge'.from = began \/ step # "challenge"
    BY <2>1
  <2>5. step' \notin Phases
    BY <2>1, AfterIs DEF Phases
  <2> QED
    BY <1>3, <2>1, <2>2, <2>3, <2>4, <2>5 DEF AllAnswered, Phases
<1>7. CASE Transfer
  <2>1. /\ step = "execute" /\ step' = "challenge" /\ began' = clock' /\ sent' = 0
        /\ UNCHANGED <<open, observed>>
    BY <1>7 DEF Transfer
  <2>2. clock' \in Nat /\ clock' >= clock /\ clock \in Nat
    <3>1. PICK time \in {0, Slowest} : clock' = clock + time
      BY <1>7 DEF Transfer
    <3> QED
      BY <3>1, WorkloadIsNatural DEF EvidenceType
  <2>3. open' = {} /\ Mine' = Mine
    BY <2>1, <1>3 DEF AllAnswered, Phases
  <2>4. \A t \in Mine : t \in Nat /\ t <= clock
    BY DEF Mine, EvidenceType
  <2>5. {t \in Mine' \cup {r.sent : r \in open'} : t > began'} = (began' + 1)..(began' + sent' - 1)
    BY <2>1, <2>2, <2>3, <2>4
  <2> QED
    BY <2>1, <2>3, <2>5 DEF AllAnswered, Phases
<1>8. CASE OtherRequest
  <2> DEFINE new == [run |-> "other", sent |-> clock]
  <2>1. observed' = observed \cup {new} /\ new.run # "own"
    BY <1>8 DEF OtherRequest
  <2> HIDE DEF new
  <2>2. Mine' = Mine
    BY <2>1 DEF Mine
  <2> QED
    BY <1>1, <1>8, <2>2 DEF OtherRequest, NotOurs
<1>9. CASE Prepare
  BY <1>9, <1>3 DEF Prepare, Goes, AllAnswered, Phases
<1>10. CASE Preflight
  BY <1>2, <1>3, <1>10 DEF Preflight, Goes, Quiet, Phases
<1>11. CASE ArmChallenge
  BY <1>2, <1>3, <1>11 DEF ArmChallenge, Goes, Quiet, Phases
<1>12. CASE TransferFails
  BY <1>2, <1>3, <1>12 DEF TransferFails, Goes, Quiet, Phases
<1>13. CASE Select
  BY <1>2, <1>3, <1>13 DEF Select, Goes, Quiet, Phases
<1>14. CASE ClearChallenge
  <2>1. /\ step = "clear" /\ step' \in {"over", "recovery"}
        /\ open' = open /\ observed' = observed
    BY <1>14 DEF ClearChallenge, Goes, Quiet
  <2>2. step \notin Phases /\ Mine' = Mine
    BY <1>3, <2>1 DEF Phases
  <2> QED
    BY <1>2, <2>1, <2>2
<1>15. CASE Settle
  BY <1>2, <1>3, <1>15 DEF Settle, Goes, Quiet, Phases
<1>16. CASE AnalyzeRun
  BY <1>2, <1>3, <1>16 DEF AnalyzeRun, Goes, Quiet, Phases
<1>17. CASE Accept
  BY <1>2, <1>3, <1>17 DEF Accept, Goes, Phases
<1>18. CASE Post
  BY <1>1, <1>3, <1>18 DEF Post, NotOurs
<1>19. CASE PostButOne
  BY <1>1, <1>3, <1>19 DEF PostButOne, NotOurs
<1>20. CASE OtherLease
  BY <1>1, <1>3, <1>20 DEF OtherLease, NotOurs
<1>21. CASE Tick
  BY <1>1, <1>3, <1>21 DEF Tick, NotOurs
<1> QED
  BY <1>4, <1>5, <1>6, <1>7, <1>8, <1>9, <1>10, <1>11, <1>12, <1>13, <1>14, <1>15, <1>16,
     <1>17, <1>18, <1>19, <1>20, <1>21 DEF EvidenceStep

\* The fault is armed before the challenge and no earlier.
LEMMA ArmedKept ==
  ASSUME EvidenceType, ArmedFirst, EvidenceStep PROVE ArmedFirst'
<1> USE DEF Before, Later, ArmedFirst
<1>1. clock \in Nat /\ began \in Nat /\ armed.from \in Int
  BY DEF EvidenceType
<1>2. CASE Send
  BY <1>2 DEF Send
<1>3. CASE Answer
  BY <1>3 DEF Answer
<1>4. CASE PhaseEnds
  <2>1. /\ step \in Phases /\ step' = After[step] /\ UNCHANGED <<clock, lease, armed>>
        /\ challenge' = IF step = "challenge" THEN [from |-> began, to |-> clock] ELSE challenge
    BY <1>4 DEF PhaseEnds, Goes
  <2>2. CASE step = "challenge"
    BY <2>1, <2>2, AfterIs
  <2>3. CASE step # "challenge"
    BY <2>1, <2>3, AfterIs DEF Phases
  <2> QED
    BY <2>2, <2>3
<1>5. CASE Prepare
  BY <1>5 DEF Prepare, Goes
<1>6. CASE Preflight
  BY <1>6 DEF Preflight, Goes, Quiet
<1>7. CASE ArmChallenge
  <2>1. step = "arm" /\ step' \in {"execute", "over"} /\ clock' = clock
    BY <1>7 DEF ArmChallenge, Goes, Quiet
  <2>2. \/ lease' = lease /\ armed' = armed
        \/ lease'.until = clock + Term /\ armed' = Span(Term, clock + Term)
    BY <1>7 DEF ArmChallenge
  <2>3. armed' = Span(Term, clock + Term) => armed'.from = clock /\ armed'.to = clock + Term
    BY <1>1, WorkloadIsNatural DEF Span
  <2> QED
    BY <1>1, <2>1, <2>2, <2>3
<1>8. CASE Transfer
  <2>1. PICK time \in {0, Slowest} : clock' = clock + time
    BY <1>8 DEF Transfer
  <2>2. clock <= clock' /\ clock' \in Nat
    BY <1>1, <2>1, WorkloadIsNatural
  <2>3. /\ step' = "challenge" /\ began' = clock' /\ UNCHANGED <<lease, armed>>
    BY <1>8 DEF Transfer
  <2> QED
    BY <1>1, <2>2, <2>3
<1>9. CASE TransferFails
  <2>1. /\ lease' \in {lease, NoLease} /\ step' = "over" /\ UNCHANGED <<clock, armed>>
    BY <1>9 DEF TransferFails, Cleared, Goes, Quiet
  <2> QED
    BY <2>1 DEF NoLease
<1>10. CASE Select
  BY <1>10 DEF Select, Goes, Quiet
<1>11. CASE ClearChallenge
  <2>1. /\ lease' \in {lease, NoLease} /\ step = "clear" /\ step' \in {"over", "recovery"}
        /\ UNCHANGED <<clock, armed, challenge>>
    BY <1>11 DEF ClearChallenge, Cleared, Goes, Quiet
  <2> QED
    BY <2>1 DEF NoLease
<1>12. CASE Settle
  BY <1>12 DEF Settle, Goes, Quiet
<1>13. CASE AnalyzeRun
  BY <1>13 DEF AnalyzeRun, Goes, Quiet
<1>14. CASE Accept
  BY <1>14 DEF Accept, Goes
<1>15. CASE Post \/ PostButOne \/ OtherRequest
  BY <1>15 DEF Post, PostButOne, OtherRequest, NotOurs
<1>16. CASE OtherLease
  BY <1>16 DEF OtherLease, NotOurs
<1>17. CASE Tick
  <2>1. clock' = clock + 1 /\ UNCHANGED <<step, began, challenge, armed, lease>>
    BY <1>17 DEF Tick, NotOurs
  <2> QED
    BY <1>1, <2>1
<1> QED
  BY <1>2, <1>3, <1>4, <1>5, <1>6, <1>7, <1>8, <1>9, <1>10, <1>11, <1>12, <1>13, <1>14,
     <1>15, <1>16, <1>17 DEF EvidenceStep

\* Whatever happens, a hit stays in its challenge and the transfer before it.
LEMMA TimesStay ==
  ASSUME NEW t, EvidenceType, EvidenceStep
  PROVE  (UnderFault(t) => UnderFault(t)') /\ (WasFirst(t) => WasFirst(t)')
<1> USE DEF Before, Later, UnderFault, WasFirst
<1>1. ASSUME UNCHANGED <<step, began, challenge, armed>>
      PROVE  (UnderFault(t) => UnderFault(t)') /\ (WasFirst(t) => WasFirst(t)')
  BY <1>1
<1>2. ASSUME step \in Before \cup {"execute"}
      PROVE  (UnderFault(t) => UnderFault(t)') /\ (WasFirst(t) => WasFirst(t)')
  BY <1>2
<1>3. ASSUME step \in Later, step' \in Later \cup {"over"}, UNCHANGED <<challenge, armed>>
      PROVE  (UnderFault(t) => UnderFault(t)') /\ (WasFirst(t) => WasFirst(t)')
  BY <1>3
<1>4. CASE PhaseEnds
  <2>1. /\ step \in Phases /\ step' = After[step] /\ armed' = armed
        /\ challenge' = IF step = "challenge" THEN [from |-> began, to |-> clock] ELSE challenge
    BY <1>4 DEF PhaseEnds, Goes
  <2>2. CASE step = "challenge"
    BY <2>1, <2>2, AfterIs
  <2>3. CASE step = "baseline"
    BY <1>2, <2>3
  <2>4. CASE step = "recovery"
    BY <1>3, <2>1, <2>4, AfterIs
  <2> QED
    BY <2>1, <2>2, <2>3, <2>4 DEF Phases
<1>5. CASE Prepare \/ Preflight \/ ArmChallenge \/ Transfer \/ TransferFails
  BY <1>2, <1>5 DEF Prepare, Preflight, ArmChallenge, Transfer, TransferFails
<1>6. CASE Select
  BY <1>3, <1>6 DEF Select, Goes, Quiet
<1>7. CASE ClearChallenge
  <2>1. /\ step = "clear" /\ step' \in {"over", "recovery"} /\ challenge' = challenge
        /\ armed' = armed
    BY <1>7 DEF ClearChallenge, Goes, Quiet
  <2> QED
    BY <1>3, <2>1
<1>8. CASE Settle
  BY <1>3, <1>8 DEF Settle, Goes, Quiet
<1>9. CASE AnalyzeRun
  BY <1>3, <1>9 DEF AnalyzeRun, Goes, Quiet
<1>10. CASE Accept
  BY <1>3, <1>10 DEF Accept, Goes
<1>11. CASE Send \/ Answer
  BY <1>1, <1>11 DEF Send, Answer
<1>12. CASE Post \/ PostButOne \/ OtherRequest \/ OtherLease \/ Tick
  BY <1>1, <1>12 DEF Post, PostButOne, OtherRequest, OtherLease, Tick, NotOurs
<1> QED
  BY <1>4, <1>5, <1>6, <1>7, <1>8, <1>9, <1>10, <1>11, <1>12 DEF EvidenceStep

\* A request meets the fault under the lease that was armed for it, and only
\* what met it shows it.
LEMMA HitsKept ==
  ASSUME EvidenceType, ArmedFirst, HitsAreOurs, TransferIsFirst, EvidenceStep
  PROVE  HitsAreOurs' /\ TransferIsFirst'
<1>0. ASSUME NEW t
      PROVE  (UnderFault(t) => UnderFault(t)') /\ (WasFirst(t) => WasFirst(t)')
  BY TimesStay
<1>1. ASSUME Hits' \subseteq Hits PROVE HitsAreOurs'
  <2>1. ASSUME NEW t \in Hits' PROVE UnderFault(t)'
    BY <1>0, <1>1 DEF HitsAreOurs
  <2> QED
    BY <2>1 DEF HitsAreOurs
<1>2. ASSUME Visible' \subseteq Visible PROVE TransferIsFirst'
  <2>1. ASSUME NEW t \in Visible' PROVE WasFirst(t)'
    BY <1>0, <1>2 DEF TransferIsFirst
  <2> QED
    BY <2>1 DEF TransferIsFirst
<1>3. ASSUME UNCHANGED <<open, lines>> PROVE HitsAreOurs' /\ TransferIsFirst'
  BY <1>1, <1>2, <1>3 DEF Hits, Visible
<1>4. CASE Send
  <2> DEFINE new == [sent |-> clock, met |-> InForce /\ scenario = "reachable"]
  <2>1. /\ open' = open \cup {new} /\ new.sent = clock /\ step \in Phases
        /\ UNCHANGED <<lines, step, began, challenge, armed>>
    BY <1>4 DEF Send, Sending
  <2>2. new.met => InForce
    OBVIOUS
  <2> HIDE DEF new
  <2>3. Visible' = Visible
    BY <2>1 DEF Visible
  <2>4. Hits' \subseteq Hits \cup (IF new.met THEN {clock} ELSE {})
    BY <2>1 DEF Hits
  <2>5. ASSUME new.met, NEW t, t = clock PROVE UnderFault(t)'
    <3>1. lease.run = "own" /\ clock < lease.until
      BY <2>2, <2>5 DEF InForce
    <3>2. step \notin Before /\ clock < armed.to /\ armed.from <= clock
      BY <3>1 DEF ArmedFirst
    <3>3. began <= clock /\ challenge.from <= clock
      BY DEF EvidenceType
    <3>4. UnderFault(t)
      BY <2>1, <2>5, <3>2, <3>3 DEF UnderFault, Phases, Before
    <3> QED
      BY <2>1, <3>4 DEF UnderFault
  <2>6. HitsAreOurs'
    <3>1. ASSUME NEW t \in Hits' PROVE UnderFault(t)'
      BY <1>0, <2>4, <2>5 DEF HitsAreOurs
    <3> QED
      BY <3>1 DEF HitsAreOurs
  <2> QED
    BY <1>2, <2>3, <2>6
<1>5. CASE Answer
  <2>1. PICK r \in open : \E hit \in {FALSE, r.met} :
          /\ open' = open \ {r}
          /\ lines' = lines \cup {Logged("own", "request", r.sent, hit)}
    BY <1>5 DEF Answer
  <2>2. PICK hit \in {FALSE, r.met} :
          /\ open' = open \ {r}
          /\ lines' = lines \cup {Logged("own", "request", r.sent, hit)}
    BY <2>1
  <2> DEFINE new == Logged("own", "request", r.sent, hit)
  <2>3. /\ new.run = "own" /\ new.of = "request" /\ new.sent = r.sent
        /\ new.hit => r.met
    BY <2>2 DEF Logged
  <2>4. lines' = lines \cup {new}
    BY <2>2
  <2> HIDE DEF new
  <2>5. Hits' \subseteq Hits
    BY <2>1, <2>2, <2>3, <2>4 DEF Hits
  <2>6. Visible' \subseteq Visible
    BY <2>3, <2>4 DEF Visible
  <2> QED
    BY <1>1, <1>2, <2>5, <2>6
<1>6. CASE Transfer
  <2> DEFINE new == [Logged("own", "transfer", clock, InForce) EXCEPT !.at = clock']
  <2>1. /\ step = "execute" /\ step' = "challenge" /\ began' = clock' /\ open' = open
        /\ lines' = lines \cup {new}
    BY <1>6 DEF Transfer
  <2>2. new.of = "transfer" /\ new.at = clock'
    BY DEF Logged
  <2>3. clock' \in Nat
    BY EvidenceTypeKept DEF EvidenceType
  <2> HIDE DEF new
  <2>4. Hits' \subseteq Hits
    BY <2>1, <2>2 DEF Hits
  <2>5. Visible' \subseteq Visible \cup {clock'}
    BY <2>1, <2>2 DEF Visible
  <2>6. \A t \in Visible' : t = clock'
    BY <2>1, <2>5 DEF TransferIsFirst, WasFirst
  <2>7. TransferIsFirst'
    BY <2>1, <2>3, <2>6 DEF TransferIsFirst, WasFirst, Before, Later
  <2> QED
    BY <1>1, <2>4, <2>7
<1>7. CASE OtherRequest
  <2>1. PICK hit \in BOOLEAN : lines' = lines \cup {Logged("other", "request", clock, hit)}
    BY <1>7 DEF OtherRequest
  <2> DEFINE new == Logged("other", "request", clock, hit)
  <2>2. lines' = lines \cup {new} /\ new.run # "own" /\ open' = open
    BY <1>7, <2>1 DEF OtherRequest, NotOurs, Logged
  <2> HIDE DEF new
  <2>3. Hits' \subseteq Hits /\ Visible' \subseteq Visible
    BY <2>2 DEF Hits, Visible
  <2> QED
    BY <1>1, <1>2, <2>3
<1>8. CASE PhaseEnds \/ Prepare \/ Accept
  BY <1>3, <1>8 DEF PhaseEnds, Prepare, Accept
<1>9. CASE Preflight \/ ArmChallenge \/ TransferFails \/ Select
  BY <1>3, <1>9 DEF Preflight, ArmChallenge, TransferFails, Select, Quiet
<1>10. CASE ClearChallenge \/ Settle \/ AnalyzeRun
  BY <1>3, <1>10 DEF ClearChallenge, Settle, AnalyzeRun, Quiet
<1>11. CASE Post \/ PostButOne \/ OtherLease \/ Tick
  BY <1>3, <1>11 DEF Post, PostButOne, OtherLease, Tick, NotOurs
<1> QED
  BY <1>4, <1>5, <1>6, <1>7, <1>8, <1>9, <1>10, <1>11 DEF EvidenceStep

\* Steps before a decision of the challenge-only policy can be there.
Undecided == Before \cup {"execute", "challenge", "select"}

\* What a decision says stays true: telemetry is only added.
LEMMA DecisionStays ==
  ASSUME Decided, UNCHANGED <<policy, scenario, window, judged, effect, decision>>,
         posted \subseteq posted', decision = "none" \/ UNCHANGED <<challenge, armed>>,
         step \notin Undecided => step' \notin Undecided,
         step' = "analyzed" => step = "analyzed" \/ decision # "none" \/ policy # "challenge_only"
  PROVE  Decided'
<1>1. ASSUME decision # "none", policy = "challenge_only"
      PROVE  DecisionRestsOnChallenge' /\ (effect' # 0 => HitSeen')
  <2>1. DecisionRestsOnChallenge /\ (effect # 0 => HitSeen) /\ UNCHANGED <<challenge, armed>>
    BY <1>1 DEF Decided
  <2>2. DecisionRestsOnChallenge'
    BY <2>1 DEF DecisionRestsOnChallenge
  <2>3. HitSeen => HitSeen'
    BY <2>1 DEF HitSeen, EventsIn
  <2> QED
    BY <2>1, <2>2, <2>3
<1>2. step' \in Undecided => decision' = "none"
  BY DEF Decided, Undecided
<1> QED
  BY <1>1, <1>2 DEF Decided, Undecided

\* The window lies inside the challenge, and what is in it was sent there.
LEMMA SelectionRests ==
  ASSUME EvidenceType, AllAnswered, ArmedFirst, HitsAreOurs, TransferIsFirst,
         step = "select", Selectable(SelectedEnd), Judge(Span(Window, SelectedEnd)),
         UNCHANGED <<policy, scenario, challenge, armed, posted>>
  PROVE  DecisionRestsOnChallenge' /\ (effect' # 0 => HitSeen')
<1> DEFINE end == SelectedEnd
           last == challenge.from + Durations[policy].challenge - 1
           first == challenge.from + 1
<1>1. /\ end \in Int /\ end <= challenge.to - Margin /\ end > challenge.from + Window
      /\ challenge.from \in Nat /\ challenge.to \in Nat /\ last \in Int
      /\ armed.from \in Int /\ armed.to \in Int
  <2>1. Durations[policy].challenge \in Nat
    BY WorkloadIsNatural DEF EvidenceType, Phases
  <2> QED
    BY <2>1, SelectedIs DEF Selectable, EvidenceType
<1> HIDE DEF end
<1>2. window' = [from |-> end - Window, to |-> end]
  BY DEF Judge, Span, end
<1>3. /\ window'.from = end - Window /\ window'.to = end
      /\ window'.from \in Int /\ challenge.from < window'.from
      /\ window'.to < challenge.to /\ window'.to \in Int
  BY <1>1, <1>2, WorkloadIsNatural
<1>4. {t \in Mine : t > challenge.from} = first..last
  BY DEF AllAnswered
<1> DEFINE own == {r.sent : r \in {q \in judged' : q.run = "own"}}
<1>5. own = {t \in Mine : window'.from < t /\ t <= window'.to}
  <2>1. judged' = {r \in observed : window'.from < r.sent /\ r.sent <= window'.to}
    BY DEF Judge, ObservedIn
  <2> QED
    BY <2>1 DEF Mine
<1>6. \A t \in Mine : t \in Nat
  BY DEF Mine, EvidenceType
<1>7. own = (window'.from + 1..window'.to) \cap (challenge.from..last)
  <2>1. ASSUME NEW t \in own
        PROVE  t \in (window'.from + 1..window'.to) \cap (challenge.from..last)
    <3>1. t \in Mine /\ t \in Nat /\ window'.from < t /\ t <= window'.to
      BY <1>5, <1>6
    <3>2. t > challenge.from
      BY <1>1, <1>3, <3>1
    <3>3. t \in first..last
      BY <1>4, <3>1, <3>2
    <3> QED
      BY <1>1, <1>3, <3>1, <3>3
  <2>2. ASSUME NEW t \in (window'.from + 1..window'.to) \cap (challenge.from..last)
        PROVE  t \in own
    <3>1. t \in Int /\ window'.from < t /\ t <= window'.to /\ t <= last
      BY <1>1, <1>3
    <3>2. t \in first..last
      BY <1>1, <1>3, <3>1
    <3>3. t \in Mine
      BY <1>4, <3>2
    <3> QED
      BY <1>5, <3>1, <3>3
  <2> QED
    BY <2>1, <2>2
<1>8. armed.from <= challenge.from
  BY DEF ArmedFirst, Later
<1>9. armed.to > challenge.to => \A t \in own : armed.from <= t /\ t < armed.to
  <2> SUFFICES ASSUME armed.to > challenge.to, NEW t \in own
               PROVE  armed.from <= t /\ t < armed.to
    OBVIOUS
  <2>1. t \in Nat /\ window'.from < t /\ t <= window'.to
    BY <1>5, <1>6
  <2> QED
    BY <1>1, <1>3, <1>8, <2>1
<1>10. DecisionRestsOnChallenge'
  <2>1. /\ challenge'.from = challenge.from /\ challenge'.to = challenge.to
        /\ armed' = armed /\ policy' = policy
    OBVIOUS
  <2>2. challenge.from <= window'.from /\ window'.to < challenge.to
    BY <1>1, <1>3
  <2> HIDE DEF last
  <2>3. last = challenge'.from + Durations[policy'].challenge - 1
    BY <2>1 DEF last
  <2> QED
    BY <1>7, <1>9, <2>1, <2>2, <2>3 DEF DecisionRestsOnChallenge
<1>11. ASSUME effect' # 0 PROVE HitSeen'
  <2> DEFINE E == {e \in Correlated(Span(Window, SelectedEnd)) : e.hit}
  <2>1. effect' = Cardinality(E)
    BY DEF Judge
  <2> HIDE DEF E
  <2>2. PICK e \in E : TRUE
    BY <1>11, <2>1, FS_EmptySet
  <2>3. /\ e \in posted /\ e \in lines /\ e.run = "own" /\ e.hit
        /\ window'.from < e.at /\ e.at <= window'.to
    BY <1>2, <2>2 DEF E, Correlated, EventsIn, EvidenceType, end, Span
  <2>4. e.sent \in Nat /\ e.at \in Nat /\ e.sent <= e.at /\ e.of \in {"request", "transfer"}
    BY <2>3 DEF EvidenceType
  <2>5. e.of # "transfer"
    <3> SUFFICES ASSUME e.of = "transfer" PROVE FALSE
      OBVIOUS
    <3>1. e.at \in Visible
      BY <2>3 DEF Visible
    <3>2. e.at <= challenge.from
      BY <3>1 DEF TransferIsFirst, WasFirst, Later
    <3> QED
      BY <1>1, <1>3, <2>3, <2>4, <3>2
  <2>6. e.sent \in Hits
    BY <2>3, <2>4, <2>5 DEF Hits
  <2>7. armed.from <= e.sent /\ e.sent < armed.to /\ challenge.from <= e.sent
    BY <2>6 DEF HitsAreOurs, UnderFault, Later
  <2>8. e.sent <= challenge.to
    BY <1>1, <1>3, <2>3, <2>4
  <2>9. e \in EventsIn(window)'
    BY <2>3 DEF EventsIn
  <2> QED
    BY <2>3, <2>4, <2>5, <2>7, <2>8, <2>9 DEF HitSeen
<1> QED
  BY <1>10, <1>11

\* A decision is made once, and what it rests on stays.
LEMMA DecidedKept ==
  ASSUME EvidenceType, AllAnswered, ArmedFirst, HitsAreOurs, TransferIsFirst, Decided,
         EvidenceStep
  PROVE  Decided'
<1> USE DEF Undecided, Before
<1>1. CASE Select
  <2>1. /\ step = "select" /\ step' = "clear"
        /\ UNCHANGED <<policy, scenario, challenge, armed, posted>>
    BY <1>1 DEF Select, Goes, Quiet
  <2>2. CASE Selectable(SelectedEnd) /\ Judge(Span(Window, SelectedEnd))
    <3>1. DecisionRestsOnChallenge' /\ (effect' # 0 => HitSeen')
      BY <2>1, <2>2, SelectionRests
    <3> QED
      BY <2>1, <3>1 DEF Decided
  <2>3. CASE NoDecision
    <3>1. UNCHANGED <<window, judged, effect, decision>>
      BY <2>3 DEF NoDecision
    <3> QED
      BY <2>1, <3>1, DecisionStays
  <2> QED
    BY <1>1, <2>2, <2>3 DEF Select
<1>2. CASE AnalyzeRun
  <2>1. /\ step \in {"ready", "not_ready"} /\ step' = "analyzed"
        /\ UNCHANGED <<policy, scenario, challenge, armed, posted>>
    BY <1>2 DEF AnalyzeRun, Goes, Quiet
  <2>2. CASE policy = "challenge_only" /\ decision # "none" /\ NoDecision
    <3>1. UNCHANGED <<window, judged, effect, decision>>
      BY <2>2 DEF NoDecision
    <3> QED
      BY <2>1, <2>2, <3>1, DecisionStays
  <2>3. CASE policy = "rolling"
    BY <2>1, <2>3 DEF Decided
  <2> QED
    BY <1>2, <2>2, <2>3 DEF AnalyzeRun
<1>3. CASE Send
  BY <1>3, DecisionStays DEF Send
<1>4. CASE Answer
  BY <1>4, DecisionStays DEF Answer
<1>5. CASE PhaseEnds
  <2>1. /\ step \in Phases /\ step' = After[step]
        /\ step = "challenge" \/ challenge' = challenge
        /\ UNCHANGED <<policy, scenario, armed, posted, window, judged, effect, decision>>
    BY <1>5 DEF PhaseEnds, Goes
  <2>2. step \in Undecided => decision = "none"
    BY DEF Decided
  <2>3. step = "recovery" => step' = "settle"
    BY <2>1, AfterIs
  <2>4. step' # "analyzed"
    BY <2>1, AfterIs
  <2> QED
    BY <2>1, <2>2, <2>3, <2>4, DecisionStays DEF Phases
<1>6. ASSUME step \in Undecided \ {"select"}, step' # "analyzed",
             UNCHANGED <<policy, scenario, posted, window, judged, effect, decision>>
      PROVE  Decided'
  <2>1. decision = "none"
    BY <1>6 DEF Decided
  <2> QED
    BY <1>6, <2>1, DecisionStays
<1>7. CASE Prepare
  BY <1>6, <1>7 DEF Prepare, Goes
<1>8. CASE Preflight
  BY <1>6, <1>8 DEF Preflight, Goes, Quiet, NoDecision
<1>9. CASE ArmChallenge
  <2>1. step = "arm" /\ step' \in {"execute", "over"}
        /\ UNCHANGED <<policy, scenario, posted, window, judged, effect, decision>>
    BY <1>9 DEF ArmChallenge, Goes, Quiet, NoDecision
  <2> QED
    BY <1>6, <2>1
<1>10. CASE Transfer
  BY <1>6, <1>10 DEF Transfer, NoDecision
<1>11. CASE TransferFails
  BY <1>6, <1>11 DEF TransferFails, Goes, Quiet, NoDecision
<1>12. CASE ClearChallenge
  <2>1. /\ step = "clear" /\ step' \in {"over", "recovery"}
        /\ UNCHANGED <<policy, scenario, challenge, armed, posted, window, judged, effect, decision>>
    BY <1>12 DEF ClearChallenge, Goes, Quiet, NoDecision
  <2> QED
    BY <2>1, DecisionStays
<1>13. CASE Settle
  <2>1. /\ step = "settle" /\ step' \in {"ready", "not_ready"}
        /\ UNCHANGED <<policy, scenario, challenge, armed, posted, window, judged, effect, decision>>
    BY <1>13 DEF Settle, Goes, Quiet, NoDecision
  <2> QED
    BY <2>1, DecisionStays
<1>14. CASE Accept
  BY <1>14, DecisionStays DEF Accept, Goes, NoDecision
<1>15. CASE Post \/ PostButOne
  <2>1. posted \subseteq posted'
    BY <1>15 DEF Post, PostButOne, Until
  <2> QED
    BY <1>15, <2>1, DecisionStays DEF Post, PostButOne, NotOurs
<1>16. CASE OtherRequest \/ OtherLease \/ Tick
  BY <1>16, DecisionStays DEF OtherRequest, OtherLease, Tick, NotOurs
<1> QED
  BY <1>1, <1>2, <1>3, <1>4, <1>5, <1>7, <1>8, <1>9, <1>10, <1>11, <1>12, <1>13, <1>14,
     <1>15, <1>16 DEF EvidenceStep

\* An acceptance is of a decided run, and the last of it.
LEMMA EarnedKept ==
  ASSUME EvidenceType, Decided, Earned, EvidenceStep PROVE Earned'
<1>1. ASSUME UNCHANGED <<verdict, step, policy, scenario, effect, decision>> PROVE Earned'
  BY <1>1 DEF Earned
<1>2. ASSUME step # "over", UNCHANGED verdict PROVE Earned'
  BY <1>2 DEF Earned
<1>3. CASE Accept
  <2>1. /\ step = "analyzed" /\ step' = "over"
        /\ UNCHANGED <<policy, scenario, effect, decision>>
        /\ verdict' = "none" \/ (policy = "challenge_only" /\ verdict' = Assessment)
    BY <1>3 DEF Accept, Goes, NoDecision
  <2>2. policy = "challenge_only" => decision # "none"
    BY <2>1 DEF Decided
  <2>3. Assessment \in {"ACCEPTED", "MODEL_MISMATCH"} =>
          /\ scenario # "unreachable" /\ (scenario = "reachable" => effect # 0)
          /\ Assessment = "ACCEPTED" => decision = "exact"
    BY DEF Assessment
  <2> QED
    BY <2>1, <2>2, <2>3 DEF Earned
<1>4. CASE Send \/ Answer
  BY <1>1, <1>4 DEF Send, Answer
<1>5. CASE PhaseEnds \/ Prepare \/ Transfer
  BY <1>2, <1>5 DEF PhaseEnds, Prepare, Transfer, Phases
<1>6. CASE Preflight \/ ArmChallenge \/ TransferFails \/ Select
  BY <1>2, <1>6 DEF Preflight, ArmChallenge, TransferFails, Select, Quiet
<1>7. CASE ClearChallenge \/ Settle \/ AnalyzeRun
  BY <1>2, <1>7 DEF ClearChallenge, Settle, AnalyzeRun, Quiet
<1>8. CASE Post \/ PostButOne \/ OtherRequest \/ OtherLease \/ Tick
  BY <1>1, <1>8 DEF Post, PostButOne, OtherRequest, OtherLease, Tick, NotOurs
<1> QED
  BY <1>3, <1>4, <1>5, <1>6, <1>7, <1>8 DEF EvidenceStep

\* At the start nothing was sent, armed or judged.
LEMMA EvidenceStarts == ChallengeInit => EvidenceInv
<1> SUFFICES ASSUME EvidenceInit PROVE EvidenceInv
  BY DEF ChallengeInit
<1> USE DEF Before, Later
<1>1. EvidenceType
  BY DEF EvidenceInit, EvidenceType, NoSpan, NoLease
<1>2. Hits = {} /\ Visible = {}
  BY DEF EvidenceInit, Hits, Visible
<1>3. AllAnswered /\ ArmedFirst
  BY DEF EvidenceInit, AllAnswered, ArmedFirst, NoSpan, NoLease, Phases
<1>4. Decided /\ Earned
  BY DEF EvidenceInit, Decided, Earned
<1> QED
  BY <1>1, <1>2, <1>3, <1>4 DEF EvidenceInv, HitsAreOurs, TransferIsFirst

\* And always.
LEMMA EvidenceHolds == ChallengeSpec => []EvidenceInv
<1>1. EvidenceInv /\ [ChallengeNext]_challengeVars => EvidenceInv'
  <2> SUFFICES ASSUME EvidenceInv, [ChallengeNext]_challengeVars PROVE EvidenceInv'
    OBVIOUS
  <2>1. EvidenceStep \/ UNCHANGED evidenceVars
    BY DEF ChallengeNext, challengeVars
  <2>2. CASE EvidenceStep
    BY <2>2, EvidenceTypeKept, AnswersKept, ArmedKept, HitsKept, DecidedKept, EarnedKept
       DEF EvidenceInv
  <2>3. CASE UNCHANGED evidenceVars
    <3>1. UNCHANGED <<policy, scenario, step, clock, began, baseline, sent, open,
                      challenge, lease, armed, lines, posted, observed, others,
                      window, judged, effect, decision, verdict>>
      BY <2>3 DEF evidenceVars
    <3>2. EvidenceType'
      BY <3>1 DEF EvidenceInv, EvidenceType
    <3>3. UNCHANGED <<Mine, Hits, Visible>>
      BY <3>1 DEF Mine, Hits, Visible
    <3>4. AllAnswered' /\ ArmedFirst'
      BY <3>1, <3>3 DEF EvidenceInv, AllAnswered, ArmedFirst
    <3>5. HitsAreOurs' /\ TransferIsFirst'
      BY <3>1, <3>3 DEF EvidenceInv, HitsAreOurs, TransferIsFirst, UnderFault, WasFirst
    <3>6. Decided'
      BY <3>1, DecisionStays DEF EvidenceInv
    <3>7. Earned'
      BY <3>1 DEF EvidenceInv, Earned
    <3> QED
      BY <3>2, <3>4, <3>5, <3>6, <3>7 DEF EvidenceInv
  <2> QED
    BY <2>1, <2>2, <2>3
<1> QED
  BY <1>1, EvidenceStarts, PTL DEF ChallengeSpec

\* Whatever others do, and however the bridge lags, reorders or leaves out, for
\* any length of the phases, a decision of the challenge-only policy rests on
\* requests of its challenge, all of them and no others (DecisionRestsOnChallenge).
THEOREM DecisionsRest == ChallengeSpec => []DecisionRestsOnChallenge
<1>1. EvidenceInv => DecisionRestsOnChallenge
  BY DEF EvidenceInv, Decided, DecisionRestsOnChallenge
<1> QED
  BY <1>1, EvidenceHolds, PTL

\* A verdict on the model about a fault follows a hit of that fault in the very
\* window that was judged (VerdictIsEarned).
THEOREM VerdictsAreEarned == ChallengeSpec => []VerdictIsEarned
<1>1. EvidenceInv => VerdictIsEarned
  BY DEF EvidenceInv, Decided, Earned, HitSeen, VerdictIsEarned
<1> QED
  BY <1>1, EvidenceHolds, PTL

\* The requests of the sessions go on beside the evidence as by themselves.
LEMMA RequestsAreThere == ChallengeSpec => Spec
<1>1. ChallengeInit => Init
  BY DEF ChallengeInit
<1>2. [ChallengeNext]_challengeVars => [Next]_vars
  BY DEF ChallengeNext, challengeVars
<1> QED
  BY <1>1, <1>2, PTL DEF ChallengeSpec, Spec

\* What the sessions promise holds of them in the whole, of which the evidence
\* of a blind run is the other half.
THEOREM SessionsHoldInTheWhole ==
  ChallengeSpec =>
    /\ [](SingleExecution /\ RecoversWithoutOwnFault /\ SealedDuringChallenge)
    /\ BlindRunClears
<1> QED
  BY RequestsAreThere, ExecutesOnce, OwnFaultEnds, ChallengeStaysSealed, BlindRunsClear, PTL
=============================================================================
