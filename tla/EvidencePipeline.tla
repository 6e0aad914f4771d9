-------------------------- MODULE EvidencePipeline --------------------------
(***************************************************************************)
(* Everything that gathers evidence: the two campaigns of                  *)
(* EvidenceCollection, as a third the programs of CaptureRun with what     *)
(* becomes of their captures, as a fourth the live observation of          *)
(* LiveObserver, as a fifth the evidence of one program in time, of        *)
(* DiagnosticEvidence, and as a sixth the plan of TargetMatrix.  The       *)
(* campaigns are of different times of the project and a behaviour is of   *)
(* one of them; what each may meet is part of its own module.              *)
(***************************************************************************)
EXTENDS EvidenceCollection

CONSTANTS
    Captures, Nobody, Stranger, Slots, Jobs,   \* those of CaptureRun
    Requests, Watchers, Casts, MaxAge, Width,  \* those of LiveObserver
    Kept, Apart, Reach, Retention, MaxClock,
    ProgramsSeen, Guard, Minute, Edge,         \* those of DiagnosticEvidence
    Lifetime, MinRequests, MinAffected, MinEvents, Recoveries, MaxOdd, MaxNow,
    MinObserved, MaxObserved                   \* those of TargetMatrix

\* 20, 60, 180, 200, 600 and 900 seconds in the code.
ASSUME TimesAssumption ==
    /\ {MaxAge, Width, Kept, Apart, Reach, Retention, MaxClock} \subseteq Nat
    /\ MaxAge < Width /\ Width <= Kept /\ Kept <= Apart
    /\ Apart <= Reach /\ Reach < Retention

\* Client requests, watchers, the observer and the collectors are not each other.
ASSUME WatchersAssumption ==
    /\ "observer" \notin Watchers
    /\ Requests \cap {"feeder", "bridge"} = {}

\* 60, 10 and 5 in the code, and 10 of at most the requests of a pilot.
ASSUME ThresholdsAssumption ==
    /\ {Guard, Minute, Edge, Lifetime, MinRequests, MinAffected, MinEvents, Recoveries,
        MaxOdd, MaxNow, MinObserved, MaxObserved} \subseteq Nat
    /\ 0 < MinEvents /\ MinEvents <= MinAffected /\ MinAffected <= MinRequests
    /\ 0 < Recoveries /\ 0 < MinObserved /\ MinObserved <= MaxObserved

\* A minute asks for a request a second, 60 of them, and fewer go wrong by
\* themselves than the gates ask for.
ASSUME MinuteAssumption == Minute <= MinRequests /\ MaxOdd < MinAffected

VARIABLES job, stage, fate, trouble, evidence, holder, overdue, spoiled, database,
          reserved, supervised, begun, watching, visits, admission, product,
          cast, clock, started, logged, answered, observed, sent, duty, closing,
          guarded, batch, buffer, repeated, poll, phase, receipts, feeding,
          feederLock, validated,
          program, now, step, term, span, cleared, rows, back, log, odd, force,
          hits, window, written, verdict,
          atEdge, atService, progress, corrected, proposal

Capture == INSTANCE CaptureRun WITH
    at <- stage, raised <- trouble, output <- evidence,
    lapsed <- overdue, postgres <- database

\* A job gives every process one of the programs.
ASSUME JobsAssumption ==
    /\ Nobody \notin Captures \cup {Stranger} /\ Stranger \notin Captures
    /\ \A j \in Jobs : /\ j.program \in [Captures -> DOMAIN Capture!Programs]
                       /\ j.slot \in [Captures -> Slots]
                       /\ j.visits \in Nat /\ j.trained \in BOOLEAN

captureVars ==
    <<job, stage, fate, trouble, evidence, holder, overdue, spoiled, database,
      reserved, supervised, begun, watching, visits, admission, product>>

Watch == INSTANCE LiveObserver

watchVars ==
    <<cast, clock, started, logged, answered, observed, sent, duty, closing,
      guarded, batch, buffer, repeated, poll, phase, receipts, feeding,
      feederLock, validated>>

Seen == INSTANCE DiagnosticEvidence

seenVars ==
    <<program, now, step, term, span, cleared, rows, back, log, odd, force, hits,
      window, written, verdict>>

Matrix == INSTANCE TargetMatrix

matrixVars == <<atEdge, atService, progress, corrected, proposal>>

allVars == <<vars, captureVars, watchVars, seenVars, matrixVars>>

\* What a campaign has no part in is left at some value.
AllInit ==
    /\ PilotInit /\ ControllerInit /\ ExecutorInit /\ Capture!Init /\ Watch!Init
    /\ Seen!Init /\ Matrix!Init
    /\ campaign \in {"dataset", "pilots", "captures", "observation", "evidence",
                    "planning"}
    /\ campaign # "dataset"  => plan = CHOOSE v \in PlanVersions : TRUE
    /\ campaign # "pilots"   => kind = CHOOSE k \in Assignments : TRUE
    /\ campaign # "captures" => job = CHOOSE j \in Jobs : TRUE
    /\ campaign # "observation" => cast = CHOOSE m \in Casts : TRUE
    /\ campaign # "evidence" => program = CHOOSE m \in ProgramsSeen : TRUE

AllNext ==
    \/ Next /\ UNCHANGED <<captureVars, watchVars, seenVars, matrixVars>>
    \/ campaign = "captures" /\ Capture!Next
          /\ UNCHANGED <<vars, watchVars, seenVars, matrixVars>>
    \/ campaign = "observation" /\ Watch!Next
          /\ UNCHANGED <<vars, captureVars, seenVars, matrixVars>>
    \/ campaign = "evidence" /\ Seen!Next
          /\ UNCHANGED <<vars, captureVars, watchVars, matrixVars>>
    \/ campaign = "planning" /\ Matrix!Next
          /\ UNCHANGED <<vars, captureVars, watchVars, seenVars>>

AllSpec == AllInit /\ [][AllNext]_allVars

-----------------------------------------------------------------------------
(* Properties; the modules of the campaigns have the formulas *)

\* An attempt at a slot that did not end with whole evidence blocks every
\* further capture until someone has looked at it.
HalfDoneBlocks == campaign = "captures" => Capture!HalfDoneBlocks

\* What is admitted, or scored, was observed from beginning to end under the
\* fault it is labelled with.
ObservedUnderOwnFault == campaign = "captures" => Capture!ObservedUnderOwnFault

\* A capture that was not killed leaves nothing of its fault behind, on any
\* path.
CapturesCleanUp == campaign = "captures" => Capture!CapturesCleanUp

\* A score rests on a prediction on file, and what the prediction rests on was
\* whole and receipted before.
ScoreRestsOnReceipts == campaign = "captures" => Capture!ScoreRestsOnReceipts

\* Whatever one of the nine pilot programs does is a step of the PilotRun that
\* the collection controller is modelled with, or invisible to it.
PilotsImplement == [][campaign = "captures" => Capture!PilotRunStep]_captureVars

\* An observer that removes its lock has given the gateway every answer it had
\* observed by its last look exactly once, save what was dropped for its age.
UnlockedIsExact == [][campaign = "observation" => Watch!UnlockStep]_watchVars

\* While nobody interrupts it, the observer posts nothing twice, though it
\* forgets and reads the same logs over and over.
PostsOnce == campaign = "observation" => Watch!PostsOnce

\* A process never predicts overlapping windows, and a window has one
\* prediction, whoever polls beside it.
JudgedOnce == campaign = "observation" => Watch!JudgedOnce

\* Evidence an auditor calls valid shows its own fault and nothing else.
ValidShowsTheFault == campaign = "evidence" => Seen!ValidShowsTheFault

\* An auditor never disagrees with the program about whole evidence.
AuditAgrees == campaign = "evidence" => Seen!AuditAgrees

\* A correction of the plan that is begun passes its own verification, and a
\* plan that passed the audit has no row with a target the pilot did not reach.
CorrectionHolds == campaign = "planning" => Matrix!CorrectionHolds
=============================================================================
