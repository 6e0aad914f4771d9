---------------------------- MODULE LiveIncident ----------------------------
(***************************************************************************)
(* The live incident manager: it reads the windows of the buffer, has the  *)
(* frozen models judge them, opens an incident at the first abnormal       *)
(* window and resolves it after a run of healthy ones.                     *)
(*                                                                         *)
(* The models are external: the verdict of a window is any of theirs.      *)
(***************************************************************************)
EXTENDS LiveTelemetry, Sequences

CONSTANTS
    Stride,       \* TEMPORAL_STRIDE_SECONDS
    Baseline,     \* BASELINE_WINDOW_SECONDS
    Tolerance,    \* start tolerance of the baseline windows
    Persistence,  \* TEMPORAL_PERSISTENCE_SAMPLES
    Confirmation, \* RECOVERY_CONFIRMATION_WINDOWS
    MaxHistory    \* MAX_INCIDENT_HISTORY

ASSUME ManagerAssumption ==
    /\ Stride \in Nat \ {0} /\ Baseline \in Nat /\ Tolerance \in Nat
    /\ Persistence \in Nat \ {0} /\ Confirmation \in Nat \ {0}
    /\ MaxHistory \in Nat \ {0}

VARIABLES
    active,         \* _active: the runtime of the active incident
    history,        \* _history: resolved incidents, oldest first
    counter,        \* _counter
    lastBucket,     \* _last_temporal_bucket
    lastEvaluated   \* _last_evaluated_watermark

managerVars == <<active, history, counter, lastBucket, lastEvaluated>>

Verdicts == {"NORMAL", "ABNORMAL"}

\* id: the number in incident_id; signal: signal_started_at; based: a baseline
\* is available; main: latest_main_status; classified, located: the fields
\* are set; flags: anomaly_flags; normals: consecutive_normal_windows.
Incident == [id : Nat, signal : Int, based : BOOLEAN,
             main : Verdicts \cup {"NONE"}, classified : BOOLEAN,
             located : BOOLEAN, flags : Seq(BOOLEAN), normals : Nat]
NoIncident == [id |-> 0, signal |-> 0, based |-> FALSE, main |-> "NONE",
               classified |-> FALSE, located |-> FALSE, flags |-> <<>>,
               normals |-> 0]

Bucket(time) == time \div Stride
NoBucket == -1

-----------------------------------------------------------------------------
(* The parts of evaluate *)

\* What the 60-second part may answer: a verdict, no window yet, or an error
\* (its features are not finite).
MainAnswers ==
    IF ~Ready(Main) THEN {"NOT_READY"}
    ELSE IF ~FiniteNow(Main) THEN {"RAISED"} ELSE Verdicts

\* The temporal window of evaluate: 409 and 500 end it before it changes
\* anything, and so does a watermark that was evaluated before.
NewWindow == Ready(Temporal) /\ FiniteNow(Temporal) /\ lastEvaluated # watermark

\* The window is the first one of its bucket.
NewBucket == lastBucket # Bucket(watermark)

\* A deque(maxlen=...).
AppendBounded(q, x, size) ==
    LET long == Append(q, x)
    IN  IF Len(long) > size THEN Tail(long) ELSE long

\* The 60-second answer is written down.
WithMain(incident, main) ==
    IF main \in Verdicts
    THEN [incident EXCEPT !.main = main, !.classified = @ \/ main = "ABNORMAL"]
    ELSE incident

\* _update_impact_and_localization: with baseline events, and the events since
\* the signal (at most Main) all covered, the origins are ranked.
Locate(incident) ==
    LET from == Max({incident.signal, watermark - Main})
    IN  [incident EXCEPT !.located =
           @ \/ /\ incident.based
                /\ Window(Events, incident.signal - Baseline, incident.signal) # {}
                /\ Covers(from, watermark, 0)]

\* _open_incident: the baseline is used if the buffer covers it.
Opened(signal) ==
    [NoIncident EXCEPT !.id = counter + 1, !.signal = signal,
                       !.based = Covers(signal - Baseline, signal, Tolerance)]

\* A covered baseline with an infinite feature makes _open_incident raise.
OpeningRaises(signal) ==
    Covers(signal - Baseline, signal, Tolerance) /\ ~FiniteIn(signal - Baseline, signal)

-----------------------------------------------------------------------------
(* evaluate *)

\* The new watermark lies in the bucket of the last one: the answer of the
\* long window refreshes the active incident, and nothing is counted.
Refresh(main) ==
    /\ NewWindow
    /\ lastBucket = Bucket(watermark)
    /\ main \in MainAnswers
    /\ lastEvaluated' = watermark
    /\ active' = IF active = NoIncident \/ main = "RAISED" THEN active
                 ELSE Locate(WithMain(active, main))
    /\ UNCHANGED <<history, counter, lastBucket>>

\* A new bucket that is set although its evaluation raises: the long window,
\* or the baseline of an incident it was about to open.
EvaluationRaises(temporal, main) ==
    /\ NewWindow
    /\ NewBucket
    /\ main \in MainAnswers
    /\ lastEvaluated' = watermark
    /\ lastBucket' = Bucket(watermark)
    /\ \/ main = "RAISED" /\ UNCHANGED counter
       \/ /\ main # "RAISED"
          /\ active = NoIncident /\ "ABNORMAL" \in {temporal, main}
          /\ OpeningRaises(watermark - (IF temporal = "ABNORMAL" THEN Temporal ELSE Main))
          /\ counter' = counter + 1
    /\ UNCHANGED <<active, history>>

\* The incident that a bucket is added to: the active one, or one it opens.
Subject(temporal, main) ==
    IF active # NoIncident THEN active
    ELSE Opened(watermark - (IF temporal = "ABNORMAL" THEN Temporal ELSE Main))

Healthy(temporal, main) == temporal = "NORMAL" /\ main # "ABNORMAL"

Normals(incident, temporal, main) ==
    IF Healthy(temporal, main) THEN incident.normals + 1 ELSE 0

\* The incident with the bucket added.
Extended(temporal, main) ==
    LET incident == Locate(WithMain(
          [Subject(temporal, main) EXCEPT
             !.flags = AppendBounded(@, temporal = "ABNORMAL", Persistence)], main))
    IN  [incident EXCEPT !.normals = Normals(incident, temporal, main)]

\* Enough healthy buckets in a row, and the last answer of the long window was
\* normal.  Mutant: one bucket less.
RecoversEarly(incident) == incident.normals + 1 >= Confirmation /\ incident.main = "NORMAL"
Recovered(incident) == incident.normals >= Confirmation /\ incident.main = "NORMAL"

\* A new bucket with no incident and nothing abnormal.
StaysNormal(temporal, main) ==
    /\ NewWindow
    /\ NewBucket
    /\ main \in MainAnswers \ {"RAISED"}
    /\ active = NoIncident /\ Healthy(temporal, main)
    /\ lastEvaluated' = watermark
    /\ lastBucket' = Bucket(watermark)
    /\ UNCHANGED <<active, history, counter>>

\* A new bucket opens, updates or resolves the incident.
Track(temporal, main) ==
    /\ NewWindow
    /\ NewBucket
    /\ main \in MainAnswers \ {"RAISED"}
    /\ \/ active # NoIncident
       \/ /\ ~Healthy(temporal, main)
          /\ ~OpeningRaises(watermark - (IF temporal = "ABNORMAL" THEN Temporal ELSE Main))
    /\ lastEvaluated' = watermark
    /\ lastBucket' = Bucket(watermark)
    /\ counter' = IF active = NoIncident THEN counter + 1 ELSE counter
    /\ LET incident == Extended(temporal, main)
       IN  IF Recovered(incident)
           THEN /\ history' = AppendBounded(history, incident, MaxHistory)
                /\ active' = NoIncident
           ELSE /\ active' = incident
                /\ UNCHANGED history

ManagerInit ==
    /\ active = NoIncident
    /\ history = <<>>
    /\ counter = 0
    /\ lastBucket = NoBucket
    /\ lastEvaluated = None
=============================================================================
