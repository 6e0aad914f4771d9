-------------------------- MODULE RunLocalization --------------------------
(***************************************************************************)
(* What is done with research requests: the runs of ExperimentRun, which   *)
(* leave their evidence, and the localization of OriginRanking, which      *)
(* compares the events of requests with and without a fault.  A behaviour  *)
(* is a study of one of the two.                                           *)
(***************************************************************************)
EXTENDS ExperimentRun, OriginRanking

VARIABLE study  \* which of the two

studyVars == <<vars, rankVars, study>>

\* What a study has no part in is left at some value.
StudyInit ==
    /\ Init /\ RankInit /\ study \in {"run", "localization"}
    /\ study = "run" => fault = <<1, "timeout">> /\ before[Refused] = 0
    /\ study = "localization" => scenario = CHOOSE s \in Plans : TRUE

StudyNext ==
    \/ study = "run" /\ Next /\ UNCHANGED <<rankVars, study>>
    \/ study = "localization" /\ RankStep /\ UNCHANGED <<vars, study>>

StudySpec == StudyInit /\ [][StudyNext]_studyVars
=============================================================================
