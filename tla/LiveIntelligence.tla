-------------------------- MODULE LiveIntelligence --------------------------
(***************************************************************************)
(* The live intelligence of the gateway: telemetry is posted, an evaluator *)
(* polls, the incident manager reads the buffer, and what it decides goes  *)
(* to the subscribers of the stream.                                       *)
(***************************************************************************)
EXTENDS LiveIncident, IntelligenceStream

CONSTANTS
    Batches      \* bound: what one POST may bring

ASSUME BatchAssumption == Batches \subseteq SUBSET Items

VARIABLE
    judged   \* history: the last Confirmation buckets that were judged

vars == <<bufferVars, managerVars, streamVars, judged>>

-----------------------------------------------------------------------------
(* The endpoints *)

PostTelemetry ==
    /\ \E batch \in Batches : Ingest(batch)
    /\ UNCHANGED <<managerVars, streamVars, judged>>

\* The evaluate endpoint publishes every status but NO_NEW_WINDOW and
\* NO_NEW_TEMPORAL_WINDOW, and nothing when evaluate raises.
\* Mutant: a refresh is not published.
RefreshQuietly(main) ==
    /\ Refresh(main)
    /\ UNCHANGED <<bufferVars, streamVars, judged>>

RefreshIncident(main) ==
    /\ Refresh(main)
    /\ IF active # NoIncident /\ main # "RAISED"
       THEN Publish(active') ELSE UNCHANGED streamVars
    /\ UNCHANGED <<bufferVars, judged>>

FailEvaluation(temporal, main) ==
    /\ EvaluationRaises(temporal, main)
    /\ UNCHANGED <<bufferVars, streamVars, judged>>

JudgeBucket(temporal, main) ==
    /\ StaysNormal(temporal, main) \/ Track(temporal, main)
    /\ Publish(active')
    /\ judged' = AppendBounded(judged,
                   [bucket |-> Bucket(watermark), main |-> main,
                    healthy |-> Healthy(temporal, main), id |-> counter'],
                   Confirmation)
    /\ UNCHANGED bufferVars

EvaluateIncident ==
    \E temporal \in Verdicts, main \in Verdicts \cup {"NOT_READY", "RAISED"} :
      RefreshIncident(main) \/ FailEvaluation(temporal, main) \/ JudgeBucket(temporal, main)

\* The stream endpoint takes its snapshot of the manager.
OpenStream(s) ==
    /\ Subscribe(s, active)
    /\ UNCHANGED <<bufferVars, managerVars, judged>>

ReadStream(s) ==
    /\ Deliver(s) \/ Disconnect(s)
    /\ UNCHANGED <<bufferVars, managerVars, judged>>

Init ==
    /\ BufferInit /\ ManagerInit /\ StreamInit
    /\ judged = <<>>

Next ==
    \/ PostTelemetry
    \/ EvaluateIncident
    \/ \E s \in Subscribers : OpenStream(s) \/ ReadStream(s)

Spec == Init /\ [][Next]_vars

-----------------------------------------------------------------------------
(* Properties *)

TypeOK ==
    /\ held \in [Items -> Nat] /\ seen \subseteq Items /\ accepted \subseteq Items
    /\ explicit \in BOOLEAN /\ watermark \in Nat /\ oldest \in Nat
    /\ active \in Incident /\ history \in Seq(Incident) /\ Len(history) <= MaxHistory
    /\ Len(active.flags) <= Persistence
    /\ counter \in Nat /\ lastBucket \in Nat \cup {NoBucket} /\ lastEvaluated \in Nat
    /\ sequence \in Nat /\ subscribed \subseteq Subscribers

\* An incident is resolved only by Confirmation judgements in a row that were
\* all healthy, each of a later bucket than the one before, and all made
\* after the judgement that opened it.
ResolvedIsConfirmed ==
    [][active # NoIncident /\ active' = NoIncident =>
         /\ Len(judged') = Confirmation
         /\ \A i \in 1..Confirmation :
              /\ judged'[i].healthy /\ judged'[i].id = active.id
              /\ i > 1 => judged'[i].bucket > judged'[i - 1].bucket]_vars

\* A subscriber that has read everything shows the incident that is active
\* now: the messages that a full queue dropped left nothing wrong behind, and
\* no change of the incident goes unpublished.
DrainedViewIsCurrent ==
    \A s \in subscribed : queue[s] = <<>> => view[s].incident = active

-----------------------------------------------------------------------------
(* A claim of the repository that the code does not keep *)

\* phase-14e.md: "Resolution requires three consecutive normal 10-second
\* decisions and a normal 60-second main decision": one of the judgements that
\* confirm the recovery judged the long window, too.
ResolutionHasMainDecision ==
    [][active # NoIncident /\ active' = NoIncident =>
         \E i \in 1..Len(judged') : judged'[i].main = "NORMAL"]_vars
=============================================================================
