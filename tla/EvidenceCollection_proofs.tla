----------------------- MODULE EvidenceCollection_proofs -----------------------
(***************************************************************************)
(* What EvidenceCollection promises for every number of pilots,            *)
(* controllers, attempts and runs of a plan, proved from one inductive     *)
(* invariant.                                                              *)
(***************************************************************************)
EXTENDS EvidenceCollection, TLAPS

\* The lease is that of a fault pilot between its acquisition and its release,
\* or of a killed one; only a fault pilot gets ready to take it, and only an
\* outage pilot stops and restores PostgreSQL.
LeaseIsInUse ==
    \A p \in Pilots :
      /\ lease = p => /\ pc[p] \in {"stop", "traffic", "restore", "release", "dead"}
                      /\ kind[p] # "healthy"
      /\ pc[p] = "ready" => kind[p] # "healthy"
      /\ pc[p] \in {"stop", "restore"} => kind[p] = "outage"

\* PostgreSQL is down for a reason.
OutageHasCause ==
    postgres = "down" =>
      \E p \in Pilots :
         /\ kind[p] = "outage"
         /\ \/ pc[p] \in {"stop", "traffic", "restore", "dead"}
            \/ raised[p] = "docker"

\* A directory is whole exactly when its pilot ended well, and a pilot that
\* was not launched has none.
OutputFollowsPilot ==
    \A p \in Pilots :
      /\ output[p] = "whole" <=> pc[p] = "done"
      /\ pc[p] = "new" => output[p] = "none"

\* From its reservation on a controller has the lock, and a child that runs
\* is that of the lock's owner.
LockCoversChild ==
    \A c \in Controllers :
      /\ at[c] \in {"journal", "run", "wait", "unlock"} => lock = c
      /\ pc[ChildOf[c]] # "new" => at[c] \in {"wait", "unlock", "done", "failed", "dead"}
      /\ at[c] = "unlock" => pc[ChildOf[c]] = "done"
      /\ Runs(ChildOf[c]) => lock = c

\* A controller that runs, or ran, its child.
Claims(c) == at[c] \in {"run", "wait"} \/ pc[ChildOf[c]] # "new"

\* An attempt that is claimed is in the journal, and claimed once.
ClaimsAreJournalled ==
    \A c \in Controllers : Claims(c) =>
      /\ AttemptOf[c] \in journal
      /\ \A d \in Controllers : Claims(d) /\ AttemptOf[c] = AttemptOf[d] => c = d

\* A controller's child is not among the pilots listed before.
ChildIsNew == \A c \in Controllers : ChildOf[c] \notin before[c]

\* The files that this attempt of the executor has written so far.
WritesInOrder ==
    /\ doing = "events" => file[position]["requests"] = attempt
    /\ doing = "truth" => /\ file[position]["requests"] = attempt
                          /\ file[position]["events"] = attempt
    /\ doing = "manifest" => \A f \in Names : file[position][f] = attempt
    /\ doing \in Names \cup {"collect", "manifest"} =>
         position \in RunIndices /\ attempt > 0

\* A manifest was written when its three files were of one attempt.
ManifestIsOfOne ==
    \A i \in RunIndices : \E n \in 0..attempt : \A f \in Names : manifest[i].sums[f] = n

\* A run that is whole under the plan.
Whole(i) ==
    /\ manifest[i].plan = plan
    /\ \E n \in 1..attempt : \A f \in Names : file[i][f] = n /\ manifest[i].sums[f] = n

\* The runs an executor has gone past are whole.
PassedAreWhole ==
    /\ doing # "idle" => \A i \in RunIndices : i < position => Whole(i)
    /\ doing = "reported" => position \notin RunIndices

\* The invariant, part by part.
PilotTyped ==
    /\ kind \in [Pilots -> Kinds] /\ pc \in [Pilots -> PilotSteps]
    /\ lease \in Pilots \cup {NoPilot} /\ lapsed \subseteq Pilots
    /\ postgres \in {"up", "down"} /\ raised \in [Pilots -> Troubles]
    /\ output \in [Pilots -> Outputs]

PilotPart == PilotTyped /\ LeaseIsInUse /\ OutageHasCause /\ OutputFollowsPilot

ControllerTyped ==
    /\ at \in [Controllers -> ControllerSteps]
    /\ lock \in Controllers \cup {NoPilot} /\ journal \subseteq Attempts
    /\ result \in [Attempts -> Pilots \cup {NoPilot}]
    /\ before \in [Controllers -> SUBSET Pilots]

ControllerPart ==
    ControllerTyped /\ LockCoversChild /\ ClaimsAreJournalled /\ ChildIsNew /\ ResultIsOwnPilot

ExecutorTyped ==
    /\ plan \in PlanVersions /\ doing \in ExecutorSteps
    /\ position \in Nat \ {0} /\ attempt \in Nat
    /\ file \in [RunIndices -> [Names -> Nat]]
    /\ manifest \in [RunIndices -> Manifests]

ExecutorPart == ExecutorTyped /\ WritesInOrder /\ ManifestIsOfOne /\ PassedAreWhole

Inv == PilotPart /\ ControllerPart /\ ExecutorPart /\ campaign \in {"dataset", "pilots"}

-----------------------------------------------------------------------------
\* The steps of a pilot, one by one.
PilotActions(p) ==
    \/ Preflight(p) \/ Acquire(p) \/ StopPostgres(p) \/ SendTraffic(p) \/ Expire(p)
    \/ RestorePostgres(p) \/ Release(p) \/ AwaitClean(p) \/ Recover(p)
    \/ CheckEvidence(p) \/ CreateOutput(p) \/ WriteOutput(p) \/ Kill(p) \/ Launch(p)

\* What a step of one pilot leaves alone, and what it needs: no other pilot
\* moves, and none moves that was not launched or that has ended.
LEMMA OnePilotMoves ==
  ASSUME PilotPart, NEW p \in Pilots, PilotActions(p)
  PROVE  /\ \A q \in Pilots : q # p =>
              pc'[q] = pc[q] /\ output'[q] = output[q] /\ raised'[q] = raised[q]
         /\ kind' = kind
         /\ pc[p] \in Exited => pc'[p] = pc[p] /\ output'[p] = output[p]
         /\ pc[p] = "new" /\ ~Expire(p) => pc'[p] = "start" /\ output'[p] = output[p]
         /\ ~Launch(p) => (pc'[p] = "new" <=> pc[p] = "new")
<1> USE DEF PilotPart, PilotTyped, Go, Exited
<1>1. CASE Preflight(p)
  BY <1>1 DEF Preflight, Clean, Launch
<1>2. CASE Acquire(p)
  BY <1>2 DEF Acquire, Launch
<1>3. CASE StopPostgres(p)
  BY <1>3 DEF StopPostgres, Launch
<1>4. CASE SendTraffic(p)
  BY <1>4 DEF SendTraffic, AfterTraffic, Kinds, Launch
<1>5. CASE Expire(p)
  BY <1>5 DEF Expire, Launch
<1>6. CASE RestorePostgres(p)
  BY <1>6 DEF RestorePostgres, Launch
<1>7. CASE Release(p)
  BY <1>7 DEF Release, Launch
<1>8. CASE AwaitClean(p) \/ Recover(p)
  BY <1>8 DEF AwaitClean, Recover, Launch
<1>9. CASE CheckEvidence(p) \/ CreateOutput(p) \/ WriteOutput(p)
  BY <1>9 DEF CheckEvidence, CreateOutput, WriteOutput, Launch
<1>10. CASE Kill(p)
  BY <1>10 DEF Kill, Runs, Launch
<1>11. CASE Launch(p)
  BY <1>11 DEF Launch
<1>12. QED
  BY <1>1, <1>2, <1>3, <1>4, <1>5, <1>6, <1>7, <1>8, <1>9, <1>10, <1>11
     DEF PilotActions

\* Every step of a pilot keeps its part of the invariant.
LEMMA PilotPartKept ==
  ASSUME PilotPart, NEW p \in Pilots, PilotActions(p)
  PROVE  PilotPart'
<1> USE PilotAssumption DEF PilotPart, PilotTyped, LeaseIsInUse, OutageHasCause,
      OutputFollowsPilot, Go, PilotSteps, Outputs, Troubles, Kinds
<1>1. CASE Preflight(p)
  BY <1>1 DEF Preflight, Clean
<1>2. CASE Acquire(p)
  <2> USE <1>2 DEF Acquire
  <2>1. PilotTyped'
    OBVIOUS
  <2>2. LeaseIsInUse'
    <3>1. CASE lease' = lease
      BY <3>1
    <3>2. CASE lease' = p
      <4>1. lease # p
        OBVIOUS
      <4>2. pc' = [pc EXCEPT ![p] = IF kind[p] = "outage" THEN "stop" ELSE "traffic"]
        BY <3>2, <4>1
      <4>3. kind[p] # "healthy"
        OBVIOUS
      <4>4. QED
        BY <3>2, <4>2, <4>3
    <3>3. QED
      BY <3>1, <3>2
  <2>3. OutageHasCause'
    OBVIOUS
  <2>4. OutputFollowsPilot'
    OBVIOUS
  <2>5. QED
    BY <2>1, <2>2, <2>3, <2>4
<1>3. CASE StopPostgres(p)
  BY <1>3 DEF StopPostgres
<1>4. CASE SendTraffic(p)
  BY <1>4 DEF SendTraffic, AfterTraffic
<1>5. CASE Expire(p)
  BY <1>5 DEF Expire
<1>6. CASE RestorePostgres(p)
  BY <1>6 DEF RestorePostgres
<1>7. CASE Release(p)
  BY <1>7 DEF Release
<1>8. CASE AwaitClean(p) \/ Recover(p)
  BY <1>8 DEF AwaitClean, Recover, Clean
<1>9. CASE CheckEvidence(p)
  BY <1>9 DEF CheckEvidence
<1>10. CASE CreateOutput(p)
  BY <1>10 DEF CreateOutput
<1>11. CASE WriteOutput(p)
  BY <1>11 DEF WriteOutput
<1>12. CASE Kill(p)
  BY <1>12 DEF Kill, Runs, Exited
<1>13. CASE Launch(p)
  BY <1>13 DEF Launch
<1>14. QED
  BY <1>1, <1>2, <1>3, <1>4, <1>5, <1>6, <1>7, <1>8, <1>9, <1>10, <1>11, <1>12,
     <1>13 DEF PilotActions

-----------------------------------------------------------------------------
\* A pilot's step, other than the launch of a controller's child, keeps the
\* controllers' part.
LEMMA ControllersUndisturbed ==
  ASSUME PilotPart, ControllerPart, NEW p \in Pilots, PilotActions(p),
         UNCHANGED controllerVars, p \notin Children \/ ~Launch(p)
  PROVE  ControllerPart'
<1> USE ControllerAssumption DEF controllerVars, ControllerPart, Children
<1>1. /\ \A q \in Pilots : q # p =>
            pc'[q] = pc[q] /\ output'[q] = output[q] /\ raised'[q] = raised[q]
      /\ pc[p] \in Exited => pc'[p] = pc[p] /\ output'[p] = output[p]
      /\ ~Launch(p) => (pc'[p] = "new" <=> pc[p] = "new")
  BY OnePilotMoves
<1>2. ControllerTyped'
  BY DEF ControllerTyped
<1>3. \A c \in Controllers :
        /\ ChildOf[c] \in Pilots
        /\ pc'[ChildOf[c]] = "new" <=> pc[ChildOf[c]] = "new"
        /\ pc[ChildOf[c]] \in Exited => pc'[ChildOf[c]] = pc[ChildOf[c]]
  BY <1>1
<1>4. LockCoversChild'
  BY <1>3 DEF LockCoversChild, Runs, Exited
<1>5. ClaimsAreJournalled'
  BY <1>3 DEF ClaimsAreJournalled, Claims
<1>6. ChildIsNew'
  BY DEF ChildIsNew
<1>7. \A q \in Pilots : output[q] = "whole" => output'[q] = "whole"
  BY <1>1 DEF PilotPart, OutputFollowsPilot, Exited
<1>8. ResultIsOwnPilot'
  BY <1>7, PilotAssumption DEF ResultIsOwnPilot, ControllerTyped
<1>9. QED
  BY <1>2, <1>4, <1>5, <1>6, <1>8

\* Starting the child keeps the controllers' part: the lock is the
\* controller's own and the attempt is claimed already.
LEMMA ChildStarts ==
  ASSUME PilotPart, ControllerPart, NEW c \in Controllers, RunChild(c)
  PROVE  ControllerPart'
<1> USE ControllerAssumption DEF ControllerPart
<1> DEFINE p == ChildOf[c]
<1>1. p \in Pilots /\ PilotActions(p) /\ pc[p] = "new" /\ ~Expire(p)
  BY DEF RunChild, Launch, PilotActions, Expire, Go, PilotPart, PilotTyped
<1>2. /\ \A q \in Pilots : q # p => pc'[q] = pc[q] /\ output'[q] = output[q]
      /\ pc'[p] = "start" /\ output'[p] = output[p]
  BY <1>1, OnePilotMoves
<1>3. /\ at[c] = "run" /\ at' = [at EXCEPT ![c] = "wait"]
      /\ UNCHANGED <<lock, journal, result, before>>
  BY DEF RunChild, Turn
<1>4. \A d \in Controllers : ChildOf[d] \in Pilots /\ (d # c => ChildOf[d] # p)
  OBVIOUS
<1>5. ControllerTyped'
  BY <1>3 DEF ControllerTyped, ControllerSteps
<1>6. LockCoversChild'
  BY <1>2, <1>3, <1>4 DEF LockCoversChild, Runs, Exited, ControllerTyped
<1>7. ClaimsAreJournalled'
  BY <1>2, <1>3, <1>4 DEF ClaimsAreJournalled, Claims, ControllerTyped
<1>8. ChildIsNew'
  BY <1>3 DEF ChildIsNew
<1>9. ResultIsOwnPilot'
  <2>1. \A q \in Pilots : output'[q] = output[q]
    BY <1>2
  <2>2. UNCHANGED result
    BY <1>3
  <2> QED
    BY <2>1, <2>2, PilotAssumption DEF ResultIsOwnPilot, ControllerTyped
<1>10. QED
  BY <1>5, <1>6, <1>7, <1>8, <1>9

\* The steps of a controller but the start of its child.
ControllerActions(c) ==
    \/ CheckAttempt(c) \/ ListPilots(c) \/ Reserve(c) \/ WriteIntent(c)
    \/ Audit(c) \/ Unlock(c) \/ KillController(c)

\* They keep the controllers' part, too.
LEMMA ControllerMoves ==
  ASSUME PilotPart, ControllerPart, NEW c \in Controllers, UNCHANGED pilotVars,
         ControllerActions(c)
  PROVE  ControllerPart'
<1> USE ControllerAssumption, PilotAssumption DEF ControllerPart, pilotVars,
      ControllerTyped, ControllerSteps, LockCoversChild, ClaimsAreJournalled,
      Claims, ChildIsNew, ResultIsOwnPilot, Turn, Runs, Exited
<1>1. CASE CheckAttempt(c)
  <2> USE <1>1 DEF CheckAttempt
  <2>0. \/ at' = [at EXCEPT ![c] = "list"]
        \/ at' = [at EXCEPT ![c] = "failed"]
    OBVIOUS
  <2>1. ControllerTyped'
    BY <2>0
  <2>2. LockCoversChild'
    OBVIOUS
  <2>3. ClaimsAreJournalled'
    OBVIOUS
  <2>4. ChildIsNew' /\ ResultIsOwnPilot'
    OBVIOUS
  <2>5. QED
    BY <2>1, <2>2, <2>3, <2>4
<1>2. CASE ListPilots(c)
  <2>1. pc[ChildOf[c]] = "new"
    BY <1>2 DEF ListPilots
  <2>2. ChildOf[c] \notin Listed(c) /\ Listed(c) \subseteq Pilots
    BY <2>1 DEF Listed, PilotPart, OutputFollowsPilot
  <2>3. QED
    BY <1>2, <2>2 DEF ListPilots
<1>3. CASE Reserve(c)
  <2> USE <1>3 DEF Reserve
  <2>1. ControllerTyped'
    OBVIOUS
  <2>2. LockCoversChild'
    OBVIOUS
  <2>3. ClaimsAreJournalled'
    OBVIOUS
  <2>4. ChildIsNew' /\ ResultIsOwnPilot'
    OBVIOUS
  <2>5. QED
    BY <2>1, <2>2, <2>3, <2>4
<1>4. CASE WriteIntent(c)
  <2> USE <1>4 DEF WriteIntent
  <2>1. ControllerTyped'
    OBVIOUS
  <2>2. LockCoversChild'
    OBVIOUS
  <2>3. ClaimsAreJournalled'
    OBVIOUS
  <2>4. ChildIsNew' /\ ResultIsOwnPilot'
    OBVIOUS
  <2>5. QED
    BY <2>1, <2>2, <2>3, <2>4
<1>5. CASE Audit(c)
  <2> USE <1>5 DEF Audit
  <2>0. Listed(c) \subseteq Pilots
    BY DEF Listed
  <2>1. ControllerTyped' /\ lock' = lock /\ before' = before /\ journal' = journal
    BY <2>0
  <2>2. LockCoversChild' /\ ClaimsAreJournalled' /\ ChildIsNew'
    OBVIOUS
  <2>3. ASSUME NEW p \in Pilots, pc[ChildOf[c]] = "done", OneNew(c, p)
        PROVE  p = ChildOf[c]
    BY <2>3 DEF OneNew, Listed, PilotPart, PilotTyped, OutputFollowsPilot
  <2>4. ResultIsOwnPilot'
    BY <2>3 DEF Listed
  <2>5. QED
    BY <2>1, <2>2, <2>4
<1>6. CASE Unlock(c)
  BY <1>6 DEF Unlock
<1>7. CASE KillController(c)
  <2> USE <1>7 DEF KillController, KeepsLock
  <2>1. ControllerTyped'
    OBVIOUS
  <2>2. LockCoversChild'
    OBVIOUS
  <2>3. ClaimsAreJournalled'
    OBVIOUS
  <2>4. ChildIsNew' /\ ResultIsOwnPilot'
    OBVIOUS
  <2>5. QED
    BY <2>1, <2>2, <2>3, <2>4
<1>8. QED
  BY <1>1, <1>2, <1>3, <1>4, <1>5, <1>6, <1>7 DEF ControllerActions

-----------------------------------------------------------------------------
\* The files of a run and the steps that write them.
LEMMA FilesFacts ==
  /\ Len(Files) = 3
  /\ Files[1] = "requests" /\ Files[2] = "events" /\ Files[3] = "truth"
  /\ Names = {"requests", "events", "truth"}
<1>1. Len(Files) = 3 /\ Files[1] = "requests" /\ Files[2] = "events" /\ Files[3] = "truth"
  BY DEF Files
<1>2. Names = {Files[1], Files[2], Files[3]}
  BY <1>1 DEF Names
<1>3. QED
  BY <1>1, <1>2

\* What the executor has collected stays as it is while only its attempts
\* are counted.
LEMMA CollectedStays ==
  ASSUME ExecutorTyped, attempt' \in Nat, attempt <= attempt', UNCHANGED <<file, manifest>>
  PROVE  /\ ManifestIsOfOne => ManifestIsOfOne'
         /\ \A i \in RunIndices : plan' = plan /\ Whole(i) => Whole(i)'
<1>1. 0..attempt \subseteq 0..attempt' /\ 1..attempt \subseteq 1..attempt'
  BY DEF ExecutorTyped
<1>2. ManifestIsOfOne => ManifestIsOfOne'
  BY <1>1 DEF ManifestIsOfOne
<1>3. ASSUME NEW i \in RunIndices, plan' = plan, Whole(i) PROVE Whole(i)'
  BY <1>1, <1>3 DEF Whole
<1>4. QED
  BY <1>2, <1>3

\* So do the runs that a write does not concern.
LEMMA OthersStay ==
  ASSUME ExecutorTyped, NEW i \in RunIndices, UNCHANGED <<attempt, plan>>,
         file'[i] = file[i], manifest'[i] = manifest[i], Whole(i)
  PROVE  Whole(i)'
BY DEF Whole

\* Every step of the executor keeps its part of the invariant.
LEMMA ExecutorPartKept ==
  ASSUME ExecutorPart, ExecutorStep
  PROVE  ExecutorPart'
<1> USE FilesFacts DEF ExecutorPart
<1>0. RunIndices \subseteq Nat
  BY DataAssumption DEF RunIndices
<1>1. CASE ReplacePlan
  <2> USE <1>1 DEF ReplacePlan
  <2>1. ManifestIsOfOne'
    BY CollectedStays DEF ExecutorTyped
  <2>2. ExecutorTyped' /\ WritesInOrder'
    BY DEF ExecutorTyped, ExecutorSteps, WritesInOrder
  <2>3. PassedAreWhole'
    BY DEF PassedAreWhole
  <2>4. QED
    BY <2>1, <2>2, <2>3
<1>2. CASE StartExecutor
  <2> USE <1>2 DEF StartExecutor
  <2>1. ManifestIsOfOne'
    BY CollectedStays DEF ExecutorTyped
  <2>2. ExecutorTyped' /\ WritesInOrder'
    BY DEF ExecutorTyped, ExecutorSteps, WritesInOrder
  <2>3. PassedAreWhole'
    BY DataAssumption DEF PassedAreWhole, RunIndices
  <2>4. QED
    BY <2>1, <2>2, <2>3
<1>3. CASE Resume
  <2> USE <1>3 DEF Resume
  <2>1. ManifestIsOfOne' /\ \A i \in RunIndices : Whole(i) => Whole(i)'
    BY CollectedStays DEF ExecutorTyped
  <2>2. ExecutorTyped' /\ WritesInOrder'
    BY DEF ExecutorTyped, ExecutorSteps, WritesInOrder
  <2>3. Whole(position)
    <3>1. PICK n \in 0..attempt : \A f \in Names : manifest[position].sums[f] = n
      BY DEF ManifestIsOfOne
    <3>2. /\ manifest[position].plan = plan
          /\ \A f \in Names : file[position][f] # 0 /\ file[position][f] = manifest[position].sums[f]
      BY DEF ValidManifest
    <3>3. n \in 1..attempt
      BY <3>1, <3>2 DEF ExecutorTyped
    <3>4. QED
      BY <3>1, <3>2, <3>3 DEF Whole
  <2>4. PassedAreWhole'
    BY <2>1, <2>3, <1>0 DEF PassedAreWhole, ExecutorTyped
  <2>5. QED
    BY <2>1, <2>2, <2>4
<1>4. CASE Execute \/ Collect \/ Die \/ Report
  <2> USE <1>4 DEF Execute, Collect, Die, Report
  <2>1. ManifestIsOfOne' /\ \A i \in RunIndices : Whole(i) => Whole(i)'
    BY CollectedStays DEF ExecutorTyped
  <2>2. ExecutorTyped' /\ WritesInOrder'
    BY DEF ExecutorTyped, ExecutorSteps, WritesInOrder
  <2>3. PassedAreWhole'
    BY <2>1 DEF PassedAreWhole
  <2>4. QED
    BY <2>1, <2>2, <2>3
<1>5. CASE WriteFile
  <2>1. PICK k \in 1..3 :
          /\ doing = Files[k]
          /\ \/ /\ file' = [file EXCEPT ![position][Files[k]] = attempt]
                /\ doing' = IF k < 3 THEN Files[k + 1] ELSE "manifest"
             \/ /\ file' = [file EXCEPT ![position][Files[k]] = 0]
                /\ doing' = "idle"
          /\ UNCHANGED <<plan, position, attempt, manifest>>
    BY <1>5 DEF WriteFile
  <2>2. position \in RunIndices /\ Files[k] \in Names
    BY <2>1 DEF WritesInOrder
  <2>3. ExecutorTyped'
    BY <2>1, <2>2 DEF ExecutorTyped, ExecutorSteps
  <2>4. WritesInOrder'
    BY <2>1, <2>2 DEF WritesInOrder, ExecutorTyped
  <2>5. ManifestIsOfOne'
    BY <2>1 DEF ManifestIsOfOne
  <2>6. \A i \in RunIndices : i < position => file'[i] = file[i]
    BY <1>0, <2>1, <2>2 DEF ExecutorTyped
  <2>7. PassedAreWhole'
    BY <1>0, <2>1, <2>2, <2>6, OthersStay DEF PassedAreWhole
  <2>8. QED
    BY <2>3, <2>4, <2>5, <2>7
<1>6. CASE WriteManifest
  <2> USE <1>6 DEF WriteManifest
  <2>1. position \in RunIndices /\ attempt > 0 /\ \A f \in Names : file[position][f] = attempt
    BY DEF WritesInOrder
  <2>2. ExecutorTyped'
    BY <2>1 DEF ExecutorTyped, ExecutorSteps, Manifests, NoManifest
  <2>3. WritesInOrder'
    BY DEF WritesInOrder
  <2>4. ManifestIsOfOne'
    BY <2>1 DEF ManifestIsOfOne, ExecutorTyped, NoManifest
  <2>5. CASE doing' = "examine"
    <3>1. /\ manifest' = [manifest EXCEPT ![position] = [plan |-> plan, sums |-> file[position]]]
          /\ position' = position + 1 /\ UNCHANGED <<plan, attempt, file>>
      BY <2>5
    <3>2. /\ manifest'[position].plan = plan
          /\ manifest'[position].sums = file[position]
      BY <2>1, <3>1 DEF ExecutorTyped
    <3>3. attempt \in 1..attempt
      BY <2>1 DEF ExecutorTyped
    <3>4. \A f \in Names : file'[position][f] = attempt /\ manifest'[position].sums[f] = attempt
      BY <2>1, <3>1, <3>2
    <3>5. ASSUME NEW i \in RunIndices, i = position PROVE Whole(i)'
      BY <3>1, <3>2, <3>3, <3>4, <3>5 DEF Whole
    <3>6. \A i \in RunIndices : i < position => Whole(i)'
      <4>1. TAKE i \in RunIndices
      <4>2. HAVE i < position
      <4>3. Whole(i)
        BY <2>1, <4>2 DEF PassedAreWhole
      <4>4. file'[i] = file[i] /\ manifest'[i] = manifest[i]
        BY <1>0, <3>1, <4>2 DEF ExecutorTyped
      <4>5. QED
        BY <3>1, <4>3, <4>4, OthersStay
    <3>7. PassedAreWhole'
      BY <1>0, <2>5, <3>1, <3>5, <3>6 DEF PassedAreWhole, ExecutorTyped
    <3>8. QED
      BY <2>2, <2>3, <2>4, <3>7
  <2>6. CASE doing' = "idle"
    <3>1. PassedAreWhole'
      BY <2>6 DEF PassedAreWhole
    <3>2. QED
      BY <2>2, <2>3, <2>4, <3>1
  <2>7. QED
    BY <2>5, <2>6
<1>7. QED
  BY <1>1, <1>2, <1>3, <1>4, <1>5, <1>6 DEF ExecutorStep

-----------------------------------------------------------------------------
\* The invariant holds before anything was launched.
LEMMA InvAtStart == Init => Inv
<1> SUFFICES ASSUME Init PROVE Inv
  OBVIOUS
<1> USE PilotAssumption, ControllerAssumption, FilesFacts
    DEF Init, PilotInit, ControllerInit, ExecutorInit
<1>1. PilotPart
  BY DEF PilotPart, PilotTyped, LeaseIsInUse, OutageHasCause, OutputFollowsPilot,
     PilotSteps, Outputs, Troubles
<1>2. ControllerPart
  BY DEF ControllerPart, ControllerTyped, ControllerSteps, LockCoversChild,
     ClaimsAreJournalled, Claims, ChildIsNew, ResultIsOwnPilot, Runs
<1>3. ExecutorTyped /\ WritesInOrder /\ PassedAreWhole
  BY DEF ExecutorTyped, ExecutorSteps, Manifests, NoManifest, WritesInOrder, PassedAreWhole
<1>4. ManifestIsOfOne
  BY DEF ManifestIsOfOne, NoManifest
<1>5. QED
  BY <1>1, <1>2, <1>3, <1>4 DEF Inv, ExecutorPart

\* Every step of either campaign keeps it.
LEMMA InvKept == Inv /\ [Next]_vars => Inv'
<1> SUFFICES ASSUME Inv, [Next]_vars PROVE Inv'
  OBVIOUS
<1> USE DEF Inv
<1>1. CASE UNCHANGED vars
  <2>1. PilotPart'
    BY <1>1 DEF vars, pilotVars, PilotPart, PilotTyped, LeaseIsInUse,
       OutageHasCause, OutputFollowsPilot
  <2>2. ControllerPart'
    BY <1>1 DEF vars, pilotVars, controllerVars, ControllerPart, ControllerTyped,
       LockCoversChild, ClaimsAreJournalled, Claims, ChildIsNew, ResultIsOwnPilot, Runs
  <2>3. ExecutorPart'
    BY <1>1 DEF vars, executorVars, ExecutorPart, ExecutorTyped, WritesInOrder,
       ManifestIsOfOne, PassedAreWhole, Whole
  <2>4. QED
    BY <1>1, <2>1, <2>2, <2>3 DEF vars
<1>2. CASE PilotCampaign /\ UNCHANGED <<executorVars, campaign>>
  <2>1. ExecutorPart' /\ campaign' = campaign
    BY <1>2 DEF executorVars, ExecutorPart, ExecutorTyped, WritesInOrder,
       ManifestIsOfOne, PassedAreWhole, Whole
  <2>2. ASSUME NEW p \in Pilots,
               LaunchByHand(p) \/ (PilotStep(p) /\ UNCHANGED controllerVars)
        PROVE  PilotPart' /\ ControllerPart'
    <3>1. PilotActions(p) /\ UNCHANGED controllerVars
      BY <2>2 DEF LaunchByHand, PilotStep, PilotActions
    <3>2. p \notin Children \/ ~Launch(p)
      <4>1. CASE LaunchByHand(p)
        BY <4>1 DEF LaunchByHand
      <4>2. CASE PilotStep(p)
        <5>1. pc[p] # "new" \/ pc' = pc
          BY <4>2 DEF PilotStep, Preflight, Acquire, StopPostgres, SendTraffic,
             Expire, RestorePostgres, Release, AwaitClean, Recover,
             CheckEvidence, CreateOutput, WriteOutput, Kill, Runs
        <5>2. Launch(p) => pc[p] = "new" /\ pc'[p] = "start"
          BY DEF Launch, Go, PilotPart, PilotTyped
        <5>3. QED
          BY <5>1, <5>2
      <4>3. QED
        BY <2>2, <4>1, <4>2
    <3>3. QED
      BY <3>1, <3>2, PilotPartKept, ControllersUndisturbed
  <2>3. ASSUME NEW c \in Controllers, ControllerStep(c)
        PROVE  PilotPart' /\ ControllerPart'
    <3>1. CASE RunChild(c)
      <4>1. ChildOf[c] \in Pilots /\ PilotActions(ChildOf[c])
        BY <3>1, ControllerAssumption DEF RunChild, PilotActions
      <4>2. QED
        BY <3>1, <4>1, PilotPartKept, ChildStarts
    <3>2. CASE ControllerActions(c) /\ UNCHANGED pilotVars
      <4>1. PilotPart'
        BY <3>2 DEF pilotVars, PilotPart, PilotTyped, LeaseIsInUse,
           OutageHasCause, OutputFollowsPilot
      <4>2. QED
        BY <3>2, <4>1, ControllerMoves
    <3>3. QED
      BY <2>3, <3>1, <3>2 DEF ControllerStep, ControllerActions
  <2>4. QED
    BY <1>2, <2>1, <2>2, <2>3 DEF PilotCampaign
<1>3. CASE ExecutorStep /\ UNCHANGED <<pilotVars, controllerVars, campaign>>
  <2>1. PilotPart'
    BY <1>3 DEF pilotVars, PilotPart, PilotTyped, LeaseIsInUse,
       OutageHasCause, OutputFollowsPilot
  <2>2. ControllerPart'
    BY <1>3 DEF pilotVars, controllerVars, ControllerPart, ControllerTyped,
       LockCoversChild, ClaimsAreJournalled, Claims, ChildIsNew, ResultIsOwnPilot, Runs
  <2>3. QED
    BY <1>3, <2>1, <2>2, ExecutorPartKept
<1>4. QED
  BY <1>1, <1>2, <1>3 DEF Next, vars

\* Inv holds in every state of every behaviour.
THEOREM InvAlways == Spec => []Inv
BY InvAtStart, InvKept, PTL DEF Spec

\* Every variable always has a value of its type.
THEOREM CollectionTypeCorrect == Spec => []TypeOK
<1>1. Inv => TypeOK
  BY DEF Inv, PilotPart, PilotTyped, ControllerPart, ControllerTyped,
     ExecutorPart, ExecutorTyped, TypeOK
<1>2. QED
  BY <1>1, InvAlways, PTL

\* Controllers run one pilot at a time, and an attempt one ever: a child that
\* runs belongs to the owner of the lock, and a claim is journalled.
THEOREM PilotsOneAtATime == Spec => []OnePilotAtATime
<1>1. Inv => OnePilotAtATime
  BY DEF Inv, ControllerPart, LockCoversChild, ClaimsAreJournalled, Claims,
     OnePilotAtATime
<1>2. QED
  BY <1>1, InvAlways, PTL

\* A journal names the whole directory of the attempt's own child.
THEOREM ResultsAreOwn == Spec => []ResultIsOwnPilot
<1>1. Inv => ResultIsOwnPilot
  BY DEF Inv, ControllerPart
<1>2. QED
  BY <1>1, InvAlways, PTL

\* A pilot that ends by itself has given up its lease, and PostgreSQL is down
\* only for a reason.
THEOREM ExitsCleanUp == Spec => []ExitCleansUp
<1>1. Inv => ExitCleansUp
  BY DEF Inv, PilotPart, LeaseIsInUse, OutageHasCause, ExitCleansUp
<1>2. QED
  BY <1>1, InvAlways, PTL

\* A plan that is reported as executed is whole, run by run.
THEOREM ReportedPlansAreWhole == Spec => []ReportedPlanIsWhole
<1>1. Inv => ReportedPlanIsWhole
  <2> SUFFICES ASSUME Inv, doing = "reported", NEW i \in RunIndices
               PROVE  Whole(i)
    BY DEF ReportedPlanIsWhole, Whole
  <2>1. position \notin RunIndices /\ position \in Nat \ {0} /\ (i < position => Whole(i))
    BY DEF Inv, ExecutorPart, ExecutorTyped, PassedAreWhole
  <2>2. i < position
    BY <2>1, DataAssumption DEF RunIndices
  <2>3. QED
    BY <2>1, <2>2
<1>2. QED
  BY <1>1, InvAlways, PTL
=============================================================================
