--------------------------- MODULE BlindChallenge ---------------------------
(***************************************************************************)
(* The demo sessions in their two respects: the requests of DemoSession,   *)
(* which overlap and know no time, and the evidence of one blind run in    *)
(* time, BlindEvidence.  A behaviour is of one of the two: what the steps  *)
(* of a run do to the session is the subject of the one, which telemetry   *)
(* its decision rests on that of the other.                                *)
(***************************************************************************)
EXTENDS DemoSession, BlindEvidence

VARIABLE aspect  \* which of the two

challengeVars == <<vars, evidenceVars, aspect>>

\* What the other aspect has is left at some value.
ChallengeInit ==
    /\ Init /\ EvidenceInit /\ aspect \in {"requests", "evidence"}
    /\ aspect = "requests" => policy = "rolling" /\ scenario = "normal"

ChallengeNext ==
    \/ aspect = "requests" /\ Next /\ UNCHANGED <<evidenceVars, aspect>>
    \/ aspect = "evidence" /\ EvidenceStep /\ UNCHANGED <<vars, aspect>>

ChallengeSpec == ChallengeInit /\ [][ChallengeNext]_challengeVars
=============================================================================
