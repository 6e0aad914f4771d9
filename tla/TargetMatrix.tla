---------------------------- MODULE TargetMatrix ----------------------------
(***************************************************************************)
(* The plan of the second data set and its correction.  The draft plans    *)
(* 60 healthy runs and 20 of each of nine fault families, each family's    *)
(* targets and splits by a rotation of the replicate's number.  An audit   *)
(* of what a healthy pilot was seen to reach finds the rows whose target   *)
(* it does not; if those are exactly the timeout rows on the two edges     *)
(* that were expected to be missing, each is given an edge that is there,  *)
(* the one its split has fewest of, and the result is verified against the *)
(* draft before it is saved.                                               *)
(*                                                                         *)
(* Only targets can change, so a proposal is the targets of the timeout    *)
(* rows; seeds, rates, gates and the checksums over them are left out, and *)
(* so are the fields that say that nothing is approved, which are constant.*)
(***************************************************************************)
EXTENDS Integers, Sequences, FiniteSets

CONSTANTS
    MinObserved,  \* 10 requests on an edge, or at a service
    MaxObserved   \* bound on the requests of the pilot

VARIABLES
    atEdge,     \* atEdge[e]: requests the healthy pilot was seen to take over e
    atService,  \* atService[s]: requests it was seen to bring to s
    progress,   \* where the correction is
    corrected,  \* replicates corrected so far, in order
    proposal    \* the targets of the timeout rows

matrixVars == <<atEdge, atService, progress, corrected, proposal>>

-----------------------------------------------------------------------------
(* The draft *)

Application == <<"authentication", "account", "transaction", "payment", "ledger">>

Edges ==
    <<"transaction->payment", "payment->account", "payment->ledger", "ledger->account">>

AllowedTargets ==
    [ DATABASE_HIGH_LATENCY |-> Application,
      DATABASE_UNAVAILABLE |-> <<"postgresql">>,
      SERVICE_UNAVAILABLE |-> <<"account", "payment", "ledger">>,
      DOWNSTREAM_TIMEOUT |-> Edges,
      AUTHENTICATION_FAILURE_BURST |-> <<"authentication">>,
      HIGH_LOAD |-> <<"gateway">>,
      CONNECTION_POOL_EXHAUSTION |-> Application,
      DATABASE_LOCK_CONTENTION |-> <<"transaction", "payment", "ledger">>,
      DOWNSTREAM_ERROR_BURST |-> <<"account", "payment", "ledger">> ]

Families == DOMAIN AllowedTargets
Replicates == 1..20

SplitOf(rep) ==
    IF rep <= 12 THEN "train" ELSE IF rep <= 16 THEN "validation" ELSE "test"

\* The rotation by which a family goes through its targets.
Turn(rep, n) == ((((rep - 1) \div 3) + ((rep - 1) % 3)) % n) + 1

DraftTarget(fault, rep) ==
    AllowedTargets[fault][Turn(rep, Len(AllowedTargets[fault]))]

Drafted == [rep \in Replicates |-> DraftTarget("DOWNSTREAM_TIMEOUT", rep)]

\* Every row has a target its family allows, a timeout row the one given, and
\* every family the same splits.
ValidDraft(targets) ==
    /\ \A fault \in Families, rep \in Replicates :
          LET target == IF fault = "DOWNSTREAM_TIMEOUT" THEN targets[rep]
                        ELSE DraftTarget(fault, rep)
          IN  \E i \in DOMAIN AllowedTargets[fault] : target = AllowedTargets[fault][i]
    /\ LET of(split) == Cardinality({rep \in Replicates : SplitOf(rep) = split})
       IN  of("train") = 12 /\ of("validation") = 4 /\ of("test") = 4

-----------------------------------------------------------------------------
(* What a healthy pilot shows, and what is made of it *)

Unreachable == {"payment->account", "ledger->account"}
Eligible == <<"transaction->payment", "payment->ledger">>

\* A row of the plan whose target the pilot did not reach often enough.  An
\* outage of the infrastructure needs no path.
Unsupported(fault, target) ==
    IF fault = "DOWNSTREAM_TIMEOUT" THEN atEdge[target] < MinObserved
    ELSE fault # "DATABASE_UNAVAILABLE" /\ atService[target] < MinObserved

Issues(targets) ==
    {row \in Families \X Replicates :
        LET fault == row[1]
            target == IF fault = "DOWNSTREAM_TIMEOUT" THEN targets[row[2]]
                      ELSE DraftTarget(fault, row[2])
        IN  Unsupported(fault, target)}

\* Healthy rows are an issue too when the gateway was hardly seen.
NoIssues(targets) == Issues(targets) = {} /\ atService["gateway"] >= MinObserved

Init ==
    /\ atEdge = [e \in {Edges[i] : i \in 1..4} |-> 0]
    /\ atService = [s \in {Application[i] : i \in 1..5} \cup {"gateway"} |-> 0]
    /\ progress = "drafted" /\ corrected = {} /\ proposal = Drafted

\* The pilot's verified events are counted by edge and by service.
ExtractCoverage ==
    /\ progress = "drafted"
    /\ atEdge' \in [DOMAIN atEdge -> {0, MinObserved - 1, MaxObserved}]
    /\ atService' \in [DOMAIN atService -> {MinObserved - 1, MaxObserved}]
    /\ progress' = "observed"
    /\ UNCHANGED <<corrected, proposal>>

\* Ten unsupported rows, all of the kind that may be repaired.
Repairable ==
    /\ \A i \in DOMAIN Eligible : atEdge[Eligible[i]] >= MinObserved
    /\ atService["gateway"] >= MinObserved
    /\ Cardinality(Issues(Drafted)) = 10
    /\ \A row \in Issues(Drafted) :
          row[1] = "DOWNSTREAM_TIMEOUT" /\ Drafted[row[2]] \in Unreachable

Prepare ==
    /\ progress = "observed"
    /\ progress' = IF ValidDraft(Drafted) /\ Repairable THEN "correcting" ELSE "refused"
    /\ UNCHANGED <<atEdge, atService, corrected, proposal>>

Bad == {row[2] : row \in Issues(Drafted)}

\* Mutant of Times: rows drafted with the edge are not counted.
TimesGiven(edge, split) ==
    Cardinality({rep \in corrected : SplitOf(rep) = split /\ proposal[rep] = edge})

\* How often the split has the edge: as drafted where supported, and as given.
Times(edge, split) ==
    Cardinality({rep \in Replicates :
        /\ SplitOf(rep) = split /\ proposal[rep] = edge
        /\ Drafted[rep] = edge \/ rep \in corrected})

\* The next row gets the edge its split has fewest of, the first if as many.
Correct ==
    /\ progress = "correcting"
    /\ \E rep \in Bad \ corrected :
          LET split == SplitOf(rep)
              fewer == Times(Eligible[2], split) < Times(Eligible[1], split)
          IN  /\ \A other \in Bad \ corrected : rep <= other
              /\ proposal' = [proposal EXCEPT ![rep] = Eligible[IF fewer THEN 2 ELSE 1]]
              /\ corrected' = corrected \cup {rep}
    /\ UNCHANGED <<atEdge, atService, progress>>

Balanced(targets) ==
    \A i \in DOMAIN Eligible :
        LET of(split) == Cardinality({rep \in Replicates :
                             SplitOf(rep) = split /\ targets[rep] = Eligible[i]})
        IN  of("train") = 6 /\ of("validation") = 2 /\ of("test") = 2

\* Only the unsupported rows differ, each by an eligible target, and nothing
\* is unsupported or out of balance any more.
Verified(targets) ==
    /\ ValidDraft(targets)
    /\ \A rep \in Replicates :
          IF rep \in Bad
          THEN /\ Drafted[rep] \in Unreachable
               /\ targets[rep] \in {Eligible[i] : i \in DOMAIN Eligible}
          ELSE targets[rep] = Drafted[rep]
    /\ NoIssues(targets) /\ Balanced(targets)

Verify ==
    /\ progress = "correcting" /\ Bad \subseteq corrected
    /\ progress' = IF Verified(proposal) THEN "saved" ELSE "broken"
    /\ UNCHANGED <<atEdge, atService, corrected, proposal>>

\* The pilot at 2.0 requests a second, whose identity and counts are in the
\* proposal and so under the checksum that the audit knows: every request went
\* through every service and over both eligible edges.
OfPilotTwenty ==
    /\ atEdge = [e \in DOMAIN atEdge |-> IF e \in Unreachable THEN 0 ELSE MaxObserved]
    /\ atService = [s \in DOMAIN atService |-> MaxObserved]

\* What the audit and every tool after it hold the saved plan against: the
\* checksum of the one correction there was, and its counts.
BlockedMatrix ==
    /\ OfPilotTwenty
    /\ \A i \in DOMAIN Eligible :
          Cardinality({rep \in Replicates : proposal[rep] = Eligible[i]}) = 10
    /\ Cardinality(corrected) = 10

\* The audit makes the correction again from that pilot, and refuses another
\* one. It also refuses when the files of the three healthy pilots and of the
\* fault pilot are not as they were recorded, which may be on any run.
Readiness ==
    /\ progress = "saved"
    /\ \/ BlockedMatrix /\ Verified(proposal) /\ progress' = "blocked"
       \/ progress' = "stopped"
    /\ UNCHANGED <<atEdge, atService, corrected, proposal>>

Next == ExtractCoverage \/ Prepare \/ Correct \/ Verify \/ Readiness

-----------------------------------------------------------------------------
(* Properties *)

\* Whatever a pilot shows, a correction that is begun passes its own
\* verification, though rows are corrected one by one, each by what its split
\* has so far; and when the readiness audit has passed, every row of the plan
\* has a target the pilot reached.
CorrectionHolds ==
    /\ progress # "broken"
    /\ progress = "blocked" => NoIssues(proposal)
=============================================================================
