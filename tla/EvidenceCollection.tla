------------------------- MODULE EvidenceCollection -------------------------
(***************************************************************************)
(* Collecting evidence: the final data set of version 1 is executed plan   *)
(* by plan, the diagnostic pilots of version 2 one by one under a          *)
(* controller or by hand.  The two campaigns are of different phases of    *)
(* the project and share no file but the fault lease; a behaviour is of    *)
(* one of them.                                                            *)
(***************************************************************************)
EXTENDS CollectionController, DatasetExecutor

VARIABLE campaign    \* "dataset" or "pilots"

vars == <<pilotVars, controllerVars, executorVars, campaign>>

Init ==
    /\ PilotInit /\ ControllerInit /\ ExecutorInit
    /\ campaign \in {"dataset", "pilots"}

\* An operator runs a pilot by hand.
LaunchByHand(p) ==
    /\ p \notin Children
    /\ Launch(p)
    /\ UNCHANGED controllerVars

PilotCampaign ==
    \/ \E p \in Pilots : LaunchByHand(p) \/ (PilotStep(p) /\ UNCHANGED controllerVars)
    \/ \E c \in Controllers : ControllerStep(c)

Next ==
    /\ \/ campaign = "pilots" /\ PilotCampaign /\ UNCHANGED executorVars
       \/ campaign = "dataset" /\ ExecutorStep /\ UNCHANGED <<pilotVars, controllerVars>>
    /\ UNCHANGED campaign

Spec == Init /\ [][Next]_vars

-----------------------------------------------------------------------------
(* Properties *)

\* Every variable has a value the code can give it.
TypeOK ==
    /\ kind \in [Pilots -> Kinds] /\ pc \in [Pilots -> PilotSteps]
    /\ lease \in Pilots \cup {NoPilot} /\ lapsed \subseteq Pilots
    /\ postgres \in {"up", "down"} /\ raised \in [Pilots -> Troubles]
    /\ output \in [Pilots -> Outputs]
    /\ at \in [Controllers -> ControllerSteps]
    /\ lock \in Controllers \cup {NoPilot} /\ journal \subseteq Attempts
    /\ result \in [Attempts -> Pilots \cup {NoPilot}]
    /\ before \in [Controllers -> SUBSET Pilots]
    /\ plan \in PlanVersions /\ doing \in ExecutorSteps
    /\ position \in Nat \ {0} /\ attempt \in Nat
    /\ file \in [RunIndices -> [Names -> Nat]]
    /\ manifest \in [RunIndices -> Manifests]
    /\ campaign \in {"dataset", "pilots"}

\* Controllers run one pilot at a time, even when controllers are killed and
\* their children go on, and an attempt identifier runs one pilot ever: its
\* journal is never begun twice.
OnePilotAtATime ==
    \A c, d \in Controllers : c # d =>
       /\ ~(Runs(ChildOf[c]) /\ Runs(ChildOf[d]))
       /\ AttemptOf[c] = AttemptOf[d] =>
            "new" \in {pc[ChildOf[c]], pc[ChildOf[d]]}

\* A journal names the whole directory that the attempt's own child wrote,
\* though pilots run by hand and those of other attempts write to the same
\* root and the listing before may be stale by the time the lock is made.
ResultIsOwnPilot ==
    \A a \in Attempts : result[a] # NoPilot =>
       /\ output[result[a]] = "whole"
       /\ \E c \in Controllers : AttemptOf[c] = a /\ ChildOf[c] = result[a]

\* A pilot that was not killed leaves nothing of its fault behind, on any
\* path: it has given up the lease, and PostgreSQL is down only while an
\* outage pilot has still to restore it, or was killed, or could not.
ExitCleansUp ==
    /\ \A p \in Pilots : pc[p] \in {"done", "failed"} => lease # p
    /\ postgres = "down" =>
         \E p \in Pilots :
            /\ kind[p] = "outage"
            /\ \/ pc[p] \in {"stop", "traffic", "restore", "dead"}
               \/ raised[p] = "docker"

\* What the executor reports as collected is whole: every selected run has a
\* manifest of the plan, and its three files are of one and the same attempt,
\* whatever earlier executors and other plans left half done.
ReportedPlanIsWhole ==
    doing = "reported" =>
      \A i \in RunIndices :
         /\ manifest[i].plan = plan
         /\ \E n \in 1..attempt : \A f \in Names : file[i][f] = n /\ manifest[i].sums[f] = n
=============================================================================
