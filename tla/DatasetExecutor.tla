-------------------------- MODULE DatasetExecutor --------------------------
(***************************************************************************)
(* The executor of the final data set: it goes through the runs of a plan, *)
(* keeps a run whose manifest is valid for that plan, and collects the     *)
(* others anew, overwriting what an attempt that died, or one under        *)
(* another plan, has left.  It may die between, and within, any two        *)
(* writes.  The plan file is replaced only while no executor runs, and one *)
(* executor runs at a time: nothing in the code excludes a second one.     *)
(***************************************************************************)
EXTENDS Naturals, Sequences

CONSTANTS
    DataRuns,      \* sequence of the runs the plan selects
    PlanVersions,  \* contents of the plan file
    MaxAttempts    \* bound: attempts at collecting a run

ASSUME DataAssumption ==
    DataRuns \in Seq(STRING) /\ "none" \notin PlanVersions /\ MaxAttempts \in Nat

VARIABLES
    plan,       \* content of the plan file
    doing,      \* what the executor does next
    position,   \* the run it is at
    attempt,    \* attempts begun so far; an attempt's identifier is new
    file,       \* file[i][f]: attempt whose data the file has, 0: none or torn
    manifest    \* manifest[i]: what the manifest of the run names, or NoManifest

executorVars == <<plan, doing, position, attempt, file, manifest>>

Files == <<"requests", "events", "truth">>
Names == {Files[k] : k \in 1..Len(Files)}
RunIndices == 1..Len(DataRuns)
ExecutorSteps == Names \cup {"idle", "examine", "collect", "manifest", "reported"}
Manifests == [plan : PlanVersions \cup {"none"}, sums : [Names -> Nat]]
NoManifest == [plan |-> "none", sums |-> [f \in Names |-> 0]]

ExecutorInit ==
    /\ plan \in PlanVersions
    /\ doing = "idle" /\ position = 1 /\ attempt = 0
    /\ file = [i \in RunIndices |-> [f \in Names |-> 0]]
    /\ manifest = [i \in RunIndices |-> NoManifest]

-----------------------------------------------------------------------------
ReplacePlan ==
    /\ doing \in {"idle", "reported"}
    /\ plan' \in PlanVersions
    /\ doing' = "idle"
    /\ UNCHANGED <<position, attempt, file, manifest>>

StartExecutor ==
    /\ doing \in {"idle", "reported"}
    /\ doing' = "examine" /\ position' = 1
    /\ UNCHANGED <<plan, attempt, file, manifest>>

\* The manifest is of this plan, and every file exists and has its checksum.
\* Mutant: the files only have to exist.
ValidIfPresent(i) ==
    /\ manifest[i].plan = plan
    /\ \A f \in Names : file[i][f] # 0
ValidManifest(i) ==
    /\ manifest[i].plan = plan
    /\ \A f \in Names : file[i][f] # 0 /\ file[i][f] = manifest[i].sums[f]

Resume ==
    /\ doing = "examine" /\ position \in RunIndices
    /\ ValidManifest(position)
    /\ position' = position + 1
    /\ UNCHANGED <<plan, doing, attempt, file, manifest>>

Execute ==
    /\ doing = "examine" /\ position \in RunIndices
    /\ ~ValidManifest(position)
    /\ attempt < MaxAttempts
    /\ attempt' = attempt + 1
    /\ doing' = "collect"
    /\ UNCHANGED <<plan, position, file, manifest>>

\* Traffic, events and the gates on them; a run that is rejected raises, and
\* with it the executor ends.
Collect ==
    /\ doing = "collect"
    /\ doing' \in {Files[1], "idle"}
    /\ UNCHANGED <<plan, position, attempt, file, manifest>>

\* Opening with "w" empties the file first: it may stay that way.
WriteFile ==
    \E k \in 1..Len(Files) :
       /\ doing = Files[k]
       /\ \/ /\ file' = [file EXCEPT ![position][Files[k]] = attempt]
             /\ doing' = IF k < Len(Files) THEN Files[k + 1] ELSE "manifest"
          \/ /\ file' = [file EXCEPT ![position][Files[k]] = 0]
             /\ doing' = "idle"
       /\ UNCHANGED <<plan, position, attempt, manifest>>

\* The checksums are those of the files as they are now.
WriteManifest ==
    /\ doing = "manifest"
    /\ \/ /\ manifest' = [manifest EXCEPT ![position] =
                            [plan |-> plan, sums |-> file[position]]]
          /\ doing' = "examine" /\ position' = position + 1
       \/ /\ manifest' = [manifest EXCEPT ![position] = NoManifest]
          /\ doing' = "idle" /\ UNCHANGED position
    /\ UNCHANGED <<plan, attempt, file>>

\* The executor is killed, or something else raises.
Die ==
    /\ doing \notin {"idle", "reported"}
    /\ doing' = "idle"
    /\ UNCHANGED <<plan, position, attempt, file, manifest>>

\* "PASS: Final execution completed=... resumed=..."
Report ==
    /\ doing = "examine" /\ position \notin RunIndices
    /\ doing' = "reported"
    /\ UNCHANGED <<plan, position, attempt, file, manifest>>

ExecutorStep ==
    \/ ReplacePlan \/ StartExecutor \/ Resume \/ Execute \/ Collect
    \/ WriteFile \/ WriteManifest \/ Die \/ Report
=============================================================================
